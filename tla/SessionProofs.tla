----------------------------- MODULE SessionProofs -----------------------------
(***************************************************************************)
(* Proofs about the two modules that work on the rows of SessionTable:     *)
(* VideoCall, for any users, dials, loads and bounds, and then LiveStream, *)
(* for any users, sockets, sessions, bounds and number of handlers under   *)
(* way at once.  Neither specification says anything of the other.         *)
(***************************************************************************)
EXTENDS VideoCall, LiveStream, FiniteSetTheorems, SequenceTheorems, TLAPS

-----------------------------------------------------------------------------
(***************************************************************************)
(* The rows.                                                               *)
(***************************************************************************)
\* The entity updateSessionStatus saves is a row.
LEMMA EntityTyped ==
  ASSUME NEW s \in Sessions, NEW status \in Statuses
  PROVE  WithStatus(s, status) \in Sessions
BY DEF WithStatus, Sessions, Starting, Ending, Statuses, Final

-----------------------------------------------------------------------------
(***************************************************************************)
(* VideoCall.                                                              *)
(***************************************************************************)
Places == 1..MaxJobs

-----------------------------------------------------------------------------
(* The inductive invariant.                                                *)

\* A message in hand is at one of the steps of its kind, and names a call that
\* exists and that is its sender's.
JobOK(w, rs) ==
  \/ w = NoJob
  \/ /\ w \in Jobs
     /\ \/ w.kind = "start" /\ w.at \in {"sent", "insert"} /\ w.call = 0 /\ w.to \in Users \ {w.user}
        \/ /\ w.call \in DOMAIN rs
           /\ \/ w.kind \in {"offer", "answer"} /\ w.at = "sent"
              \/ /\ w.kind \in {"accept", "reject", "end"} /\ w.user \in Parties(rs[w.call])
                 /\ w.at \in {"sent", "select", "update"} \/ (w.kind = "reject" /\ w.at = "notify")
                 /\ w.at \in {"select", "update"} => w.seen \in Sessions

\* A message under way to u names a call that exists; one that changes the call
\* of a browser is for a side of it.
MessageOK(m, u, rs) ==
  \/ m.what \in {"rejected", "ended"} /\ m.call = 0
  \/ m.what \notin {"rejected", "ended"}
     /\ m.call \in DOMAIN rs /\ (m.what = "incoming" => u = rs[m.call].recipient)
     /\ (m.what = "accepted" => u \in Parties(rs[m.call]))

\* What a browser shows, and waits for, are calls of its user.
BrowserOK(f, u, rs) ==
  /\ f.callId # 0 => f.callId \in DOMAIN rs /\ u \in Parties(rs[f.callId])
  /\ \A w \in f.waits :
       IF w.call = 0 THEN w.to \in Users \ {u} ELSE w.call \in DOMAIN rs /\ u \in Parties(rs[w.call])

\* Everything that is named is there.
CallsPlaced ==
  /\ \A c \in DOMAIN rows : rows[c].recipient \in Users \ {rows[c].initiator}
  /\ \A j \in Places : JobOK(jobs[j], rows)
  /\ \A u \in Users : \A i \in DOMAIN down[u] : MessageOK(down[u][i], u, rows)
  /\ \A u \in Users : BrowserOK(fe[u], u, rows)

\* Unless two updates of a call overlapped, the one that is under way holds the
\* row as it is.
UpdatingJob(w) == w.at \in {"select", "update"}

Lone ==
  \A j \in Places : UpdatingJob(jobs[j]) /\ jobs[j].call \notin crossed =>
    /\ jobs[j].seen = rows[jobs[j].call]
    /\ \A i \in Places : UpdatingJob(jobs[i]) /\ jobs[i].call = jobs[j].call => i = j

\* What a browser that had one thing to do at a time is like.
Proper(f) ==
  /\ f.camera # "lost"
  /\ f.waits # {} => f.camera = "off" /\ f.status \notin {"idle", "ringing"} /\ \E w \in f.waits : f.waits = {w}
  /\ f.status = "idle" \/ Rings(f) => f.camera = "off"
  /\ \A w \in f.waits :
       IF w.call = 0 THEN f.callId = 0 /\ ~f.isIncoming ELSE w.call = f.callId /\ f.isIncoming
  /\ f.status = "ringing" /\ ~f.isIncoming => f.callId = 0

Single ==
  \A u \in calm : Proper(fe[u]) /\ (fe[u].isIncoming => u = rows[fe[u].callId].recipient)

\* A call of which the other side has not yet heard: nothing else names it.
NotInHand(c, js) == \A j \in Places : js[j].call # c

NotShown(c, f) == f.callId # c /\ \A w \in f.waits : w.call # c

Unnamed(c, js, fs) == NotInHand(c, js) /\ \A v \in Users : NotShown(c, fs[v])

NamedOnlyAt(c, u, i, dn) == \A v \in Users : \A k \in DOMAIN dn[v] : dn[v][k].call = c => v = u /\ k = i

Unheard ==
  \A u \in Users : \A i \in DOMAIN down[u] : down[u][i].what = "incoming" =>
    LET c == down[u][i].call IN
    rows[c].status = "pending" /\ NamedOnlyAt(c, u, i, down) /\ Unnamed(c, jobs, fe)

\* Messages of the queue q.
AcceptedIs(m, c) == m.what = "accepted" /\ m.call = c
TellsAccepted(q, c) == \E i \in DOMAIN q : AcceptedIs(q[i], c)
TellsOnce(q, c) == \A i, k \in DOMAIN q : AcceptedIs(q[i], c) /\ AcceptedIs(q[k], c) => i = k
IsOver(m) == m.what \in {"rejected", "ended"}
TellsOver(q) == \E i \in DOMAIN q : IsOver(q[i])
TellsOverAfter(q, c) == \A i \in DOMAIN q : AcceptedIs(q[i], c) => \E k \in DOMAIN q : k > i /\ IsOver(q[k])

Of(w, kinds, c) == w.kind \in kinds /\ w.call = c

Turning == {"accept", "reject", "end"}

\* The dialog shows, or the camera is asked for, for call c.
Before(f, c) == f.callId = c /\ (Rings(f) \/ f.waits # {})

\* The acceptance of call c from a to b is in one place only.
Turn(c, r, fs, js, dn) ==
  LET a == r.initiator
      b == r.recipient
  IN  /\ ~TellsAccepted(dn[b], c)
      /\ TellsOnce(dn[a], c)
      /\ TellsAccepted(dn[a], c) => fs[a].callId # c
      /\ Before(fs[b], c) =>
           /\ r.status # "active" /\ ~TellsAccepted(dn[a], c) /\ fs[a].callId # c
           /\ \A j \in Places : ~Of(js[j], Turning, c)
      /\ \A j \in Places : Of(js[j], {"accept", "reject"}, c) =>
           /\ js[j].user = b /\ ~TellsAccepted(dn[a], c) /\ fs[a].callId # c
           /\ \A i \in Places : Of(js[i], {"accept", "reject"}, c) => i = j
           /\ \A i \in Places : Of(js[i], {"end"}, c) => js[i].user = b
           /\ js[j].kind = "accept" => r.status # "active" /\ (js[j].at = "update" => "status" \in js[j].cols)
           /\ js[j].kind = "reject" => fs[b].callId # c
      /\ \A j \in Places : Of(js[j], {"end"}, c) =>
           /\ fs[js[j].user].callId # c
           /\ js[j].user = a => ~TellsAccepted(dn[a], c)

\* The other side of call c is ending it.
EndsFor(u, c, js) == \E j \in Places : Of(js[j], {"end"}, c) /\ js[j].user # u

\* Who shows a call that is over, or will show it, is going to be told.
Told(c, r, fs, js, dn) ==
  r.status \in Final =>
    /\ \A u \in {r.initiator, r.recipient} : fs[u].callId = c => TellsOver(dn[u]) \/ EndsFor(u, c, js)
    /\ TellsOverAfter(dn[r.initiator], c) \/ EndsFor(r.initiator, c, js)

Calmly(c) == Parties(rows[c]) \subseteq calm

InTurn == \A c \in DOMAIN rows : Calmly(c) => Turn(c, rows[c], fe, jobs, down)

AllTold ==
  drops = 0 =>
    /\ \A u \in Users : online[u]
    /\ \A c \in DOMAIN rows : Calmly(c) => Told(c, rows[c], fe, jobs, down)

CallInv == CallTypeOK /\ CallsPlaced /\ Lone /\ Single /\ Unheard /\ InTurn /\ AllTold
-----------------------------------------------------------------------------
(* Lemmas about the operators.                                             *)

\* A set of numbers has a lowest: the ranks of its members below one of them
\* are all there, so one of them is of rank 1.
LEMMA Lowest ==
  ASSUME NEW T \in SUBSET Nat, T # {}
  PROVE  \E t \in T : \A s \in T : t <= s
<1>n. \A x \in T : x \in Nat
  OBVIOUS
<1>0. PICK top \in T : TRUE
  OBVIOUS
<1> DEFINE S == {x \in T : x <= top}
           n == Cardinality(S)
           Below(m) == {x \in S : x < m}
           r == [m \in S |-> Cardinality(Below(m)) + 1]
<1>t. top \in Nat
  BY <1>n
<1>s. \A x : x \in S <=> x \in T /\ x <= top
  OBVIOUS
<1>1. S \subseteq Nat /\ top \in S /\ S \subseteq 0..top
  <2> HIDE DEF S
  <2>1. ASSUME NEW x \in S PROVE x \in Nat /\ x \in 0..top
    <3>1. x \in T /\ x <= top
      BY <1>s
    <3>2. x \in Nat
      BY <1>n, <3>1
    <3> QED
      BY <1>t, <3>1, <3>2
  <2> QED
    BY <1>0, <1>s, <1>t, <2>1
<1>2. IsFiniteSet(S) /\ n \in Nat
  <2>1. top \in Int /\ IsFiniteSet(0..top)
    BY <1>0, FS_Interval
  <2> HIDE DEF S
  <2>2. IsFiniteSet(S)
    BY <1>1, <2>1, FS_Subset
  <2> QED
    BY <2>2, FS_CardinalityType
<1>3. ASSUME NEW m \in S
      PROVE  /\ IsFiniteSet(Below(m)) /\ Cardinality(Below(m)) \in Nat
             /\ IsFiniteSet(Below(m) \union {m})
             /\ Cardinality(Below(m) \union {m}) = Cardinality(Below(m)) + 1
             /\ Below(m) \union {m} \in SUBSET S
  <2>1. Below(m) \in SUBSET S /\ m \notin Below(m)
    BY <1>1
  <2> HIDE DEF Below, S
  <2>2. IsFiniteSet(Below(m))
    BY <1>2, <2>1, FS_Subset
  <2> QED
    BY <2>1, <2>2, FS_CardinalityType, FS_AddElement
<1>4. \A l, m \in S : l < m => \A x \in Below(l) \union {l} : x \in Below(m)
  BY <1>1
<1>5. \A t \in S : Below(t) = {} => t \in T /\ \A s \in T : t <= s
  BY <1>0, <1>1
<1>r. r = [m \in S |-> Cardinality(Below(m)) + 1]
  OBVIOUS
<1> HIDE DEF S, n, Below, r
<1>6. ASSUME NEW m \in S PROVE r[m] \in 1..n
  <2>1. Cardinality(Below(m) \union {m}) <= n
    BY <1>2, <1>3, FS_Subset DEF n
  <2> QED
    BY <1>2, <1>3, <1>r, <2>1
<1>7. ASSUME NEW l \in S, NEW m \in S, l < m PROVE r[l] < r[m]
  <2>1. Below(l) \union {l} \in SUBSET Below(m)
    BY <1>4, <1>7
  <2>2. Cardinality(Below(l) \union {l}) <= Cardinality(Below(m))
    BY <1>3, <2>1, FS_Subset
  <2>3. r[l] = Cardinality(Below(l)) + 1 /\ r[m] = Cardinality(Below(m)) + 1
    BY <1>r
  <2>4. /\ Cardinality(Below(l)) \in Nat /\ Cardinality(Below(m)) \in Nat
        /\ Cardinality(Below(l) \union {l}) = Cardinality(Below(l)) + 1
    BY <1>3
  <2> QED
    BY <2>2, <2>3, <2>4
<1>8. r \in Injection(S, 1..n)
  <2>1. r \in [S -> 1..n]
    BY <1>6, <1>r
  <2>2. \A l, m \in S : r[l] = r[m] => l = m
    BY <1>1, <1>2, <1>6, <1>7
  <2> QED
    BY <2>1, <2>2 DEF Injection, IsInjective
<1>9. r \in Surjection(S, 1..n)
  BY <1>2, <1>8, FS_Injection, FS_Interval DEF n
<1>10. n >= 1
  BY <1>1, <1>2, <1>6
<1>11. PICK t \in S : r[t] = 1
  BY <1>2, <1>9, <1>10 DEF Surjection
<1>12. Cardinality(Below(t)) = 0
  <2>1. r[t] = Cardinality(Below(t)) + 1 /\ Cardinality(Below(t)) \in Nat
    BY <1>3, <1>r
  <2> QED
    BY <1>11, <2>1
<1>13. Below(t) = {}
  BY <1>3, <1>12, FS_EmptySet
<1> QED
  BY <1>5, <1>13

\* What a browser sends takes a free place.
LEMMA WithFacts ==
  ASSUME NEW held, FreeJobs(held) # {}, NEW kind, NEW u, NEW to, NEW call
  PROVE  \E j \in Places :
           /\ held[j] = NoJob
           /\ With(held, kind, u, to, call) =
                [held EXCEPT ![j] = [kind |-> kind, user |-> u, to |-> to, call |-> call,
                                     at |-> "sent", seen |-> NoSession, cols |-> {}]]
<1>1. FreeJobs(held) \in SUBSET Nat /\ FreeJobs(held) \subseteq Places
  BY DEF FreeJobs, Places
<1>2. PICK t \in FreeJobs(held) : \A s \in FreeJobs(held) : t <= s
  BY <1>1, Lowest
<1>3. Min(FreeJobs(held)) \in FreeJobs(held)
  BY <1>2 DEF Min
<1>4. held[Min(FreeJobs(held))] = NoJob
  BY <1>3 DEF FreeJobs
<1> QED
  BY <1>1, <1>3, <1>4 DEF With

\* What a message that is added changes.
LEMMA Appended ==
  ASSUME NEW q \in Seq(Messages), NEW m \in Messages, NEW c, NEW q2, q2 = Append(q, m)
  PROVE  /\ q2 \in Seq(Messages)
         /\ DOMAIN q2 = 1..(Len(q) + 1) /\ DOMAIN q = 1..Len(q) /\ Len(q) \in Nat
         /\ \A i \in DOMAIN q : q2[i] = q[i]
         /\ q2[Len(q) + 1] = m
         /\ TellsAccepted(q2, c) => TellsAccepted(q, c) \/ AcceptedIs(m, c)
         /\ TellsOnce(q, c) /\ (AcceptedIs(m, c) => ~TellsAccepted(q, c)) => TellsOnce(q2, c)
         /\ TellsOver(q) => TellsOver(q2)
         /\ IsOver(m) => TellsOver(q2) /\ TellsOverAfter(q2, c)
         /\ TellsOverAfter(q, c) /\ ~AcceptedIs(m, c) => TellsOverAfter(q2, c)
<1>1. /\ q2 \in Seq(Messages) /\ Len(q) \in Nat /\ DOMAIN q = 1..Len(q) /\ DOMAIN q2 = 1..(Len(q) + 1)
      /\ \A i \in DOMAIN q : q2[i] = q[i]
      /\ q2[Len(q) + 1] = m
  OBVIOUS
<1>2. TellsAccepted(q2, c) => TellsAccepted(q, c) \/ AcceptedIs(m, c)
  BY <1>1 DEF TellsAccepted
<1>3. TellsOnce(q, c) /\ (AcceptedIs(m, c) => ~TellsAccepted(q, c)) => TellsOnce(q2, c)
  BY <1>1 DEF TellsAccepted, TellsOnce
<1>4. TellsOver(q) => TellsOver(q2)
  BY <1>1 DEF TellsOver
<1>5. IsOver(m) => ~AcceptedIs(m, c)
  BY DEF IsOver, AcceptedIs
<1>6. IsOver(m) => TellsOver(q2) /\ TellsOverAfter(q2, c)
  BY <1>1, <1>5 DEF TellsOver, TellsOverAfter
<1>7. TellsOverAfter(q, c) /\ ~AcceptedIs(m, c) => TellsOverAfter(q2, c)
  BY <1>1 DEF TellsOverAfter
<1> QED
  BY <1>1, <1>2, <1>3, <1>4, <1>6, <1>7

\* What a message that is heard changes.
LEMMA Tailed ==
  ASSUME NEW q \in Seq(Messages), q # <<>>, NEW c, NEW q2, q2 = Tail(q)
  PROVE  /\ q2 \in Seq(Messages) /\ Head(q) \in Messages /\ Head(q) = q[1] /\ 1 \in DOMAIN q
         /\ \A i \in DOMAIN q2 : i \in Nat /\ i + 1 \in DOMAIN q /\ q2[i] = q[i + 1] /\ i + 1 # 1
         /\ TellsAccepted(q2, c) => TellsAccepted(q, c)
         /\ AcceptedIs(Head(q), c) => TellsAccepted(q, c)
         /\ TellsOnce(q, c) => TellsOnce(q2, c)
         /\ TellsOnce(q, c) /\ AcceptedIs(Head(q), c) => ~TellsAccepted(q2, c)
         /\ TellsOver(q) /\ ~IsOver(Head(q)) => TellsOver(q2)
         /\ TellsOverAfter(q, c) => TellsOverAfter(q2, c)
         /\ TellsOverAfter(q, c) /\ AcceptedIs(Head(q), c) => TellsOver(q2)
<1>1. /\ q2 \in Seq(Messages) /\ Len(q) \in Nat /\ Len(q) > 0 /\ Head(q) = q[1] /\ Head(q) \in Messages
      /\ DOMAIN q = 1..Len(q) /\ DOMAIN q2 = 1..(Len(q) - 1)
      /\ \A i \in DOMAIN q2 : q2[i] = q[i + 1]
  OBVIOUS
<1>2. 1 \in DOMAIN q /\ \A i \in DOMAIN q2 : i \in Nat /\ i + 1 \in DOMAIN q /\ q2[i] = q[i + 1] /\ i + 1 # 1
  BY <1>1
<1>3. \A i \in DOMAIN q : i = 1 \/ (i - 1 \in DOMAIN q2 /\ q2[i - 1] = q[i])
  BY <1>1
<1>4. TellsAccepted(q2, c) => TellsAccepted(q, c)
  BY <1>2 DEF TellsAccepted
<1>5. AcceptedIs(Head(q), c) => TellsAccepted(q, c)
  BY <1>1, <1>2 DEF TellsAccepted
<1>6. TellsOnce(q, c) => TellsOnce(q2, c)
  BY <1>2 DEF TellsOnce
<1>7. TellsOnce(q, c) /\ AcceptedIs(Head(q), c) => ~TellsAccepted(q2, c)
  BY <1>1, <1>2 DEF TellsOnce, TellsAccepted
<1>8. TellsOver(q) /\ ~IsOver(Head(q)) => TellsOver(q2)
  BY <1>1, <1>3 DEF TellsOver
<1>9. TellsOverAfter(q, c) => TellsOverAfter(q2, c)
  <2> SUFFICES ASSUME TellsOverAfter(q, c), NEW i \in DOMAIN q2, AcceptedIs(q2[i], c)
               PROVE  \E k \in DOMAIN q2 : k > i /\ IsOver(q2[k])
    BY DEF TellsOverAfter
  <2>1. PICK k \in DOMAIN q : k > i + 1 /\ IsOver(q[k])
    BY <1>2 DEF TellsOverAfter
  <2>2. k - 1 \in DOMAIN q2 /\ q2[k - 1] = q[k] /\ k - 1 > i
    BY <1>1, <1>2, <1>3, <2>1
  <2> QED
    BY <2>1, <2>2
<1>10. TellsOverAfter(q, c) /\ AcceptedIs(Head(q), c) => TellsOver(q2)
  <2> SUFFICES ASSUME TellsOverAfter(q, c), AcceptedIs(Head(q), c) PROVE TellsOver(q2)
    OBVIOUS
  <2>1. PICK k \in DOMAIN q : k > 1 /\ IsOver(q[k])
    BY <1>1, <1>2 DEF TellsOverAfter
  <2>2. k - 1 \in DOMAIN q2 /\ q2[k - 1] = q[k]
    BY <1>1, <1>3, <2>1
  <2> QED
    BY <2>1, <2>2 DEF TellsOver
<1> QED
  BY <1>1, <1>2, <1>4, <1>5, <1>6, <1>7, <1>8, <1>9, <1>10

\* What its save leaves in the table.
LEMMA SavedFacts ==
  ASSUME NEW row \in Sessions, NEW s \in Sessions, NEW status \in Statuses, NEW cols \in SUBSET Columns,
         NEW new, new = Saved(row, s, status, cols)
  PROVE  /\ new \in Sessions
         /\ new.initiator = row.initiator /\ new.recipient = row.recipient
         /\ new.status = IF "status" \in cols THEN status ELSE row.status
         /\ \A t \in Columns : t \in cols => new[t] = WithStatus(s, status)[t]
         /\ \A t \in Columns : t \notin cols => new[t] = row[t]
<1> DEFINE e == WithStatus(s, status)
<1>1. e \in Sessions
  BY EntityTyped
<1>2. e.status = status
  BY DEF WithStatus, Sessions
<1>3. DOMAIN row = {"initiator", "recipient", "isLiveStream", "status", "startedAt", "endedAt", "duration"}
  BY DEF Sessions
<1>4. new
        = [initiator |-> row.initiator, recipient |-> row.recipient, isLiveStream |-> row.isLiveStream,
           status |-> IF "status" \in cols THEN e.status ELSE row.status,
           startedAt |-> IF "startedAt" \in cols THEN e.startedAt ELSE row.startedAt,
           endedAt |-> IF "endedAt" \in cols THEN e.endedAt ELSE row.endedAt,
           duration |-> IF "duration" \in cols THEN e.duration ELSE row.duration]
  BY <1>3 DEF Saved, Columns, Sessions
<1>5. \A t \in Columns : new[t] = IF t \in cols THEN e[t] ELSE row[t]
  BY <1>3 DEF Saved, Columns
<1> HIDE DEF e
<1>6. new \in Sessions /\ new.initiator = row.initiator /\ new.recipient = row.recipient
  BY <1>1, <1>2, <1>4 DEF Sessions
<1>7. new.status = IF "status" \in cols THEN status ELSE row.status
  BY <1>2, <1>4
<1> QED
  BY <1>5, <1>6, <1>7 DEF e

-----------------------------------------------------------------------------
(* Types, and what is named is there.                                      *)

\* Sessions stay, with their two sides.
Kept(rs, rs2) ==
  \A c \in DOMAIN rs : /\ c \in DOMAIN rs2
                       /\ rs2[c].initiator = rs[c].initiator
                       /\ rs2[c].recipient = rs[c].recipient

RowsOK(rs) == rs \in Seq(Sessions) /\ \A c \in DOMAIN rs : rs[c].recipient \in Users \ {rs[c].initiator}

JobsOK(js, rs) == js \in [Places -> Jobs \union {NoJob}] /\ \A j \in Places : JobOK(js[j], rs)

DownOK(dn, rs) ==
  dn \in [Users -> Seq(Messages)] /\ \A u \in Users : \A i \in DOMAIN dn[u] : MessageOK(dn[u][i], u, rs)

FeOK(fs, rs) == fs \in [Users -> Browsers] /\ \A u \in Users : BrowserOK(fs[u], u, rs)

\* The parts the step below goes through.
Fits ==
  /\ RowsOK(rows) /\ JobsOK(jobs, rows) /\ DownOK(down, rows) /\ FeOK(fe, rows)
  /\ online \in [Users -> BOOLEAN] /\ dialled \in 0..MaxCalls /\ drops \in 0..MaxDrops
  /\ calm \subseteq Users /\ crossed \subseteq DOMAIN rows
  /\ \A u \in Users : fe[u].isIncoming => fe[u].callId # 0

\* The types and what is named are these parts.
LEMMA FitsIs == Fits <=> CallTypeOK /\ CallsPlaced
<1>1. NoJob \notin Jobs
  BY DEF NoJob, Jobs, Kinds
<1>2. Fits => CallTypeOK /\ CallsPlaced
  <2> SUFFICES ASSUME Fits PROVE CallTypeOK /\ CallsPlaced
    OBVIOUS
  <2>1. \A j \in Places : jobs[j].call \in DOMAIN rows \union {0}
    BY DEF Fits, JobsOK, JobOK, NoJob
  <2>2. \A u \in Users : fe[u].callId \in DOMAIN rows \union {0}
    BY DEF Fits, FeOK, BrowserOK
  <2> QED
    BY <2>1, <2>2 DEF Fits, CallTypeOK, CallsPlaced, RowsOK, JobsOK, DownOK, FeOK, Places
<1>3. CallTypeOK /\ CallsPlaced => Fits
  BY DEF Fits, CallTypeOK, CallsPlaced, RowsOK, JobsOK, DownOK, FeOK, Places
<1> QED
  BY <1>2, <1>3

\* What is named is still there when sessions stay.
LEMMA StillFits ==
  ASSUME NEW rs, NEW rs2, Kept(rs, rs2), NEW js, NEW dn, NEW fs
  PROVE  /\ JobsOK(js, rs) => JobsOK(js, rs2)
         /\ DownOK(dn, rs) => DownOK(dn, rs2)
         /\ FeOK(fs, rs) => FeOK(fs, rs2)
<1>1. \A c \in DOMAIN rs : c \in DOMAIN rs2 /\ Parties(rs2[c]) = Parties(rs[c])
  BY DEF Kept, Parties
<1>2. \A w : JobOK(w, rs) => JobOK(w, rs2)
  BY <1>1 DEF JobOK
<1>3. \A m, u : MessageOK(m, u, rs) => MessageOK(m, u, rs2)
  BY <1>1 DEF MessageOK, Kept
<1>4. \A f, u : BrowserOK(f, u, rs) => BrowserOK(f, u, rs2)
  BY <1>1 DEF BrowserOK
<1> QED
  BY <1>2, <1>3, <1>4 DEF JobsOK, DownOK, FeOK

\* A message in hand is replaced by one that may be there.
LEMMA JobsSet ==
  ASSUME NEW rs, NEW js, JobsOK(js, rs), NEW j \in Places, NEW w \in Jobs \union {NoJob}, JobOK(w, rs)
  PROVE  JobsOK([js EXCEPT ![j] = w], rs)
BY DEF JobsOK

\* Messages in hand are lost.
LEMMA JobsWithout ==
  ASSUME NEW lost, JobsOK(jobs, rows)
  PROVE  JobsOK(Without(lost), rows)
BY DEF JobsOK, JobOK, Without, Places

\* A browser sends a message about a call of its user.
LEMMA JobsWith ==
  ASSUME NEW rs, NEW js, JobsOK(js, rs), FreeJobs(js) # {}, NEW kind \in Kinds, NEW u \in Users,
         NEW to \in Users \union {Nobody}, NEW call \in Nat,
         IF kind = "start" THEN call = 0 /\ to \in Users \ {u}
         ELSE call \in DOMAIN rs /\ (kind \in Turning => u \in Parties(rs[call]))
  PROVE  JobsOK(With(js, kind, u, to, call), rs)
<1> DEFINE w == [kind |-> kind, user |-> u, to |-> to, call |-> call,
                 at |-> "sent", seen |-> NoSession, cols |-> {}]
<1>1. PICK j \in Places : With(js, kind, u, to, call) = [js EXCEPT ![j] = w]
  BY WithFacts
<1>2. w \in Jobs
  BY DEF Jobs
<1>3. w.kind = kind /\ w.user = u /\ w.to = to /\ w.call = call /\ w.at = "sent"
  OBVIOUS
<1> HIDE DEF w
<1>4. JobOK(w, rs)
  <2>1. CASE kind = "start"
    BY <1>2, <1>3, <2>1 DEF JobOK
  <2>2. CASE kind \in Turning
    BY <1>2, <1>3, <2>2 DEF JobOK, Turning
  <2>3. CASE kind \in {"offer", "answer"}
    BY <1>2, <1>3, <2>3 DEF JobOK
  <2> QED
    BY <2>1, <2>2, <2>3 DEF Turning, Kinds
<1>5. JobsOK([js EXCEPT ![j] = w], rs)
  BY <1>2, <1>4, JobsSet
<1> QED
  BY <1>1, <1>5, Zenon

\* The server sends a message that may be sent.
LEMMA DownGrows ==
  ASSUME NEW rs, DownOK(down, rs), NEW u, NEW what, NEW call, [what |-> what, call |-> call] \in Messages,
         u \in Users => MessageOK([what |-> what, call |-> call], u, rs), Notify(u, what, call)
  PROVE  DownOK(down', rs)
<1>1. CASE u \in Users /\ online[u]
  <2> DEFINE m == [what |-> what, call |-> call]
  <2>1. PICK q : q = Append(down[u], m)
    OBVIOUS
  <2>2. down[u] \in Seq(Messages)
    BY <1>1 DEF DownOK
  <2>3. /\ q \in Seq(Messages) /\ DOMAIN q = 1..(Len(down[u]) + 1) /\ DOMAIN down[u] = 1..Len(down[u])
        /\ \A i \in DOMAIN down[u] : q[i] = down[u][i]
        /\ q[Len(down[u]) + 1] = m /\ Len(down[u]) \in Nat
    BY <2>1, <2>2, Appended
  <2>4. down' = [down EXCEPT ![u] = q]
    BY <1>1, <2>1 DEF Notify
  <2>5. \A i \in DOMAIN q : MessageOK(q[i], u, rs)
    <3> HIDE DEF m
    <3>1. \A i \in DOMAIN q : i \in DOMAIN down[u] \/ i = Len(down[u]) + 1
      BY <2>3
    <3>2. MessageOK(m, u, rs)
      BY <1>1 DEF m
    <3> QED
      BY <1>1, <2>3, <3>1, <3>2 DEF DownOK
  <2> QED
    BY <2>3, <2>4, <2>5, <1>1 DEF DownOK
<1>2. CASE ~(u \in Users /\ online[u])
  BY <1>2 DEF Notify
<1> QED
  BY <1>1, <1>2

\* A browser hears the first message under way to it.
LEMMA DownTaken ==
  ASSUME NEW rs, DownOK(down, rs), NEW u \in Users, down[u] # <<>>, Taken(u)
  PROVE  /\ DownOK(down', rs)
         /\ Head(down[u]) \in Messages /\ MessageOK(Head(down[u]), u, rs)
<1>1. PICK q : q = Tail(down[u])
  OBVIOUS
<1>2. down[u] \in Seq(Messages)
  BY DEF DownOK
<1>3. /\ q \in Seq(Messages) /\ Head(down[u]) \in Messages /\ Head(down[u]) = down[u][1] /\ 1 \in DOMAIN down[u]
      /\ \A i \in DOMAIN q : i + 1 \in DOMAIN down[u] /\ q[i] = down[u][i + 1]
  BY <1>1, <1>2, Tailed
<1>4. down' = [down EXCEPT ![u] = q]
  BY <1>1 DEF Taken
<1>5. \A i \in DOMAIN q : MessageOK(q[i], u, rs)
  BY <1>3 DEF DownOK
<1> QED
  BY <1>3, <1>4, <1>5 DEF DownOK

\* One browser changes.
LEMMA FeSet ==
  ASSUME NEW rs, FeOK(fe, rs), NEW u \in Users, NEW f \in Browsers, BrowserOK(f, u, rs)
  PROVE  FeOK([fe EXCEPT ![u] = f], rs)
BY DEF FeOK

\* A message in hand that is taken up: its sender, its call and its steps.
LEMMA JobAt ==
  ASSUME JobsOK(jobs, rows), NEW j \in Places, jobs[j] # NoJob
  PROVE  /\ jobs[j] \in Jobs /\ jobs[j].user \in Users /\ JobOK(jobs[j], rows)
         /\ jobs[j].kind = "start" =>
              jobs[j].call = 0 /\ jobs[j].to \in Users \ {jobs[j].user} /\ jobs[j].at \in {"sent", "insert"}
         /\ jobs[j].kind # "start" => jobs[j].call \in DOMAIN rows
         /\ jobs[j].kind \in Turning => jobs[j].user \in Parties(rows[jobs[j].call])
         /\ jobs[j].at = "insert" => jobs[j].kind = "start"
         /\ jobs[j].at \in {"select", "update", "notify"} => jobs[j].kind \in Turning
         /\ jobs[j].at \in {"select", "update"} => jobs[j].seen \in Sessions
         /\ jobs[j].at = "notify" => jobs[j].kind = "reject"
<1>1. jobs[j] \in Jobs
  BY DEF JobsOK
<1>2. jobs[j].user \in Users
  BY <1>1 DEF Jobs
<1>3. JobOK(jobs[j], rows)
  BY DEF JobsOK
<1> QED
  BY <1>1, <1>2, <1>3 DEF JobOK, Turning

\* A free place names no call and is at no step.
LEMMA NoJobIs == NoJob.kind = "none" /\ NoJob.at = "idle" /\ NoJob.call = 0 /\ JobOK(NoJob, rows)
BY DEF NoJob, JobOK

\* A message in hand is done with.
LEMMA JobFinishes ==
  ASSUME NEW rs, JobsOK(jobs, rs), NEW j \in Places
  PROVE  JobsOK([jobs EXCEPT ![j] = NoJob], rs)
<1>1. JobOK(NoJob, rs)
  BY DEF JobOK
<1> QED
  BY <1>1, JobsSet

\* The messages the server sends are messages.
LEMMA MessagesAre ==
  ASSUME NEW what \in {"incoming", "accepted", "rejected", "ended", "offer", "answer"}, NEW call \in Nat
  PROVE  /\ [what |-> what, call |-> call] \in Messages
         /\ [what |-> what, call |-> call].what = what
         /\ [what |-> what, call |-> call].call = call
BY DEF Messages

\* Whom a handler takes for the other side is one.
LEMMA OtherSideIs ==
  ASSUME RowsOK(rows), NEW c \in DOMAIN rows, NEW u \in Parties(rows[c])
  PROVE  /\ rows[c] \in Sessions /\ rows[c].initiator \in Users /\ rows[c].recipient \in Users
         /\ rows[c].initiator # rows[c].recipient
         /\ Parties(rows[c]) = {rows[c].initiator, rows[c].recipient}
         /\ OtherSide(rows[c], u) \in Parties(rows[c]) \ {u}
         /\ c \in Nat
<1>1. rows[c] \in Sessions /\ rows[c].recipient \in Users \ {rows[c].initiator} /\ c \in Nat
  BY DEF RowsOK
<1>2. rows[c].initiator \in Users /\ Nobody \notin Users
  BY <1>1, UsersAssumption DEF Sessions
<1> QED
  BY <1>1, <1>2 DEF Parties, OtherSide

\* An update of a row.
LEMMA WritesFits ==
  ASSUME Fits, NEW j \in Places, NEW kind \in Turning, Writes(j, kind)
  PROVE  /\ RowsOK(rows') /\ Kept(rows, rows') /\ DOMAIN rows' = DOMAIN rows
         /\ jobs[j] # NoJob /\ jobs[j].call \in DOMAIN rows
         /\ \A c \in DOMAIN rows : c # jobs[j].call => rows'[c] = rows[c]
<1>1. RowsOK(rows) /\ JobsOK(jobs, rows) /\ jobs[j].kind = kind /\ jobs[j].at = "update"
  BY DEF Fits, Writes
<1>2. jobs[j] # NoJob
  BY <1>1, NoJobIs
<1>3. jobs[j] \in Jobs /\ jobs[j].seen \in Sessions /\ jobs[j].call \in DOMAIN rows
  BY <1>1, <1>2, JobAt DEF Turning
<1>4. jobs[j].cols \in SUBSET Columns
  BY <1>3 DEF Jobs
<1>5. StatusOf(kind) \in Statuses
  BY DEF StatusOf, Turning, Statuses
<1> DEFINE c0 == jobs[j].call
<1>6. rows[c0] \in Sessions /\ rows \in Seq(Sessions)
  BY <1>1, <1>3 DEF RowsOK
<1>7. PICK new : new = Saved(rows[c0], jobs[j].seen, StatusOf(kind), jobs[j].cols)
  OBVIOUS
<1>8. new \in Sessions /\ new.initiator = rows[c0].initiator /\ new.recipient = rows[c0].recipient
  BY <1>3, <1>4, <1>5, <1>6, <1>7, SavedFacts
<1>9. rows' = [rows EXCEPT ![c0] = new]
  BY <1>7 DEF Writes
<1>10. /\ rows' \in Seq(Sessions) /\ DOMAIN rows' = DOMAIN rows /\ rows'[c0] = new
       /\ \A c \in DOMAIN rows : c # c0 => rows'[c] = rows[c]
  BY <1>3, <1>6, <1>8, <1>9
<1>11. Kept(rows, rows')
  BY <1>8, <1>10 DEF Kept
<1>12. RowsOK(rows')
  BY <1>1, <1>8, <1>10 DEF RowsOK
<1> QED
  BY <1>2, <1>3, <1>10, <1>11, <1>12

\* Every step of the gateway, and every failure, keeps types and places.
LEMMA GatewayFits ==
  ASSUME Fits, NEW j \in Places, Gateway(j) \/ Fail(j)
  PROVE  Fits' /\ Kept(rows, rows')
<1>1. /\ RowsOK(rows) /\ JobsOK(jobs, rows) /\ DownOK(down, rows) /\ FeOK(fe, rows)
      /\ jobs \in [Places -> Jobs \union {NoJob}]
  BY DEF Fits, JobsOK
<1>2. Kept(rows, rows)
  BY DEF Kept
<1>3. ASSUME rows' = rows, JobsOK(jobs', rows), DownOK(down', rows), crossed' \subseteq DOMAIN rows,
             UNCHANGED <<online, fe, dialled, calm>>, drops' \in 0..MaxDrops
      PROVE  Fits' /\ Kept(rows, rows')
  BY <1>2, <1>3 DEF Fits
<1>4. ASSUME JobDone(j), UNCHANGED <<rows, online, fe, dialled, calm, crossed>>, DownOK(down', rows),
             drops' \in 0..MaxDrops
      PROVE  Fits' /\ Kept(rows, rows')
  BY <1>1, <1>3, <1>4, JobFinishes DEF JobDone, Fits
<1>5. CASE CheckStart(j)
  <2>1. jobs[j].kind = "start" /\ jobs[j].at = "sent" /\ jobs[j] # NoJob
    BY <1>5, NoJobIs DEF CheckStart, Received
  <2>2. CASE JobDone(j)
    BY <1>1, <1>4, <1>5, <2>2 DEF CheckStart, callHistory, Fits
  <2>3. CASE JobGoes(j, "insert")
    <3>1. PICK w : w = [jobs[j] EXCEPT !.at = "insert"]
      OBVIOUS
    <3>2. jobs[j] \in Jobs /\ JobOK(jobs[j], rows)
      BY <1>1, <2>1, JobAt
    <3>3. w \in Jobs /\ w.kind = "start" /\ w.at = "insert" /\ w.call = jobs[j].call /\ w.to = jobs[j].to
          /\ w.user = jobs[j].user
      BY <2>1, <3>1, <3>2 DEF Jobs
    <3>4. JobOK(w, rows)
      BY <2>1, <3>2, <3>3 DEF JobOK
    <3>5. jobs' = [jobs EXCEPT ![j] = w]
      BY <2>3, <3>1 DEF JobGoes
    <3>6. JobsOK(jobs', rows)
      BY <1>1, <3>3, <3>4, <3>5, JobsSet
    <3> QED
      BY <1>1, <1>3, <1>5, <3>6 DEF CheckStart, callHistory, Fits
  <2> QED
    BY <1>5, <2>2, <2>3 DEF CheckStart
<1>6. CASE InsertStart(j)
  <2>1. jobs[j].at = "insert" /\ jobs[j] # NoJob
    BY <1>6, NoJobIs DEF InsertStart
  <2>2. /\ jobs[j].user \in Users /\ jobs[j].to \in Users \ {jobs[j].user}
    BY <1>1, <2>1, JobAt
  <2>3. PICK new : new = NewSession(jobs[j].user, jobs[j].to, FALSE)
    OBVIOUS
  <2>4. new \in Sessions /\ new.initiator = jobs[j].user /\ new.recipient = jobs[j].to
    BY <2>2, <2>3 DEF NewSession, NoSession, Sessions, Statuses
  <2>5. rows' = Append(rows, new) /\ rows \in Seq(Sessions)
    BY <1>1, <1>6, <2>3 DEF InsertStart, RowsOK
  <2>6. /\ rows' \in Seq(Sessions) /\ Len(rows) \in Nat
        /\ DOMAIN rows = 1..Len(rows) /\ DOMAIN rows' = 1..(Len(rows) + 1)
        /\ rows'[Len(rows) + 1] = new /\ \A c \in DOMAIN rows : rows'[c] = rows[c]
    BY <2>4, <2>5
  <2>7. Kept(rows, rows')
    BY <2>6 DEF Kept
  <2>8. RowsOK(rows')
    <3>1. \A c \in DOMAIN rows' : c \in DOMAIN rows \/ c = Len(rows) + 1
      BY <2>6
    <3> QED
      BY <1>1, <2>2, <2>4, <2>6, <3>1 DEF RowsOK
  <2>9. JobsOK(jobs', rows')
    <3>1. JobsOK(jobs, rows')
      BY <1>1, <2>7, StillFits
    <3>2. jobs' = [jobs EXCEPT ![j] = NoJob]
      BY <1>6 DEF InsertStart, JobDone
    <3>3. JobOK(NoJob, rows')
      BY DEF JobOK
    <3> QED
      BY <3>1, <3>2, <3>3, JobsSet
  <2>10. DownOK(down', rows')
    <3>1. DownOK(down, rows')
      BY <1>1, <2>7, StillFits
    <3>2. Notify(jobs[j].to, "incoming", Len(rows) + 1)
      BY <1>6 DEF InsertStart
    <3>3. Len(rows) + 1 \in Nat /\ Len(rows) + 1 \in DOMAIN rows'
      BY <2>6
    <3>4. PICK m : m = [what |-> "incoming", call |-> Len(rows) + 1]
      OBVIOUS
    <3>5. m \in Messages /\ m.what = "incoming" /\ m.call = Len(rows) + 1
      BY <3>3, <3>4, MessagesAre
    <3>6. MessageOK(m, jobs[j].to, rows')
      BY <2>4, <2>6, <3>3, <3>5 DEF MessageOK
    <3> QED
      BY <3>1, <3>2, <3>4, <3>5, <3>6, DownGrows
  <2>11. FeOK(fe', rows')
    BY <1>1, <1>6, <2>7, StillFits DEF InsertStart
  <2>12. crossed' \subseteq DOMAIN rows'
    BY <1>6, <2>6 DEF Fits, InsertStart, callHistory
  <2> QED
    BY <1>6, <2>7, <2>8, <2>9, <2>10, <2>11, <2>12 DEF Fits, InsertStart, callHistory
<1>7. CASE LoadCall(j)
  <2>1. jobs[j].kind \in Turning /\ jobs[j] # NoJob /\ jobs[j].at = "sent"
    BY <1>7, NoJobIs DEF LoadCall, Received, Turning
  <2>2. jobs[j] \in Jobs /\ jobs[j].call \in DOMAIN rows /\ jobs[j].user \in Parties(rows[jobs[j].call])
    BY <1>1, <2>1, JobAt DEF Turning
  <2>3. rows[jobs[j].call] \in Sessions
    BY <1>1, <2>2 DEF RowsOK
  <2>4. PICK w : w = [jobs[j] EXCEPT !.at = "select", !.seen = rows[jobs[j].call]]
    OBVIOUS
  <2>5. /\ w \in Jobs /\ w.at = "select" /\ w.seen \in Sessions /\ w.kind = jobs[j].kind /\ w.call = jobs[j].call
        /\ w.user = jobs[j].user
    BY <2>2, <2>3, <2>4 DEF Jobs
  <2>6. JobOK(w, rows)
    BY <2>1, <2>2, <2>5 DEF JobOK, Turning
  <2>7. jobs' = [jobs EXCEPT ![j] = w]
    BY <1>7, <2>4 DEF LoadCall
  <2>8. JobsOK(jobs', rows)
    BY <1>1, <2>5, <2>6, <2>7, JobsSet
  <2>9. crossed' \subseteq DOMAIN rows
    BY <1>7, <2>2 DEF LoadCall, Fits
  <2> QED
    BY <1>1, <1>3, <1>7, <2>8, <2>9 DEF LoadCall, Fits
<1>8. CASE SelectCall(j)
  <2>1. jobs[j].at = "select" /\ jobs[j] # NoJob
    BY <1>8, NoJobIs DEF SelectCall
  <2>2. jobs[j] \in Jobs /\ jobs[j].kind \in Turning /\ jobs[j].seen \in Sessions /\ JobOK(jobs[j], rows)
    BY <1>1, <2>1, JobAt
  <2>3. PICK cols : cols = Differing(rows[jobs[j].call], jobs[j].seen, StatusOf(jobs[j].kind))
    OBVIOUS
  <2>4. cols \in SUBSET Columns
    BY <2>3 DEF Differing, Columns
  <2>5. PICK w : w = [jobs[j] EXCEPT !.at = "update", !.cols = cols]
    OBVIOUS
  <2>6. /\ w \in Jobs /\ w.at = "update" /\ w.seen = jobs[j].seen /\ w.kind = jobs[j].kind
        /\ w.call = jobs[j].call /\ w.user = jobs[j].user
    BY <2>2, <2>4, <2>5 DEF Jobs
  <2>7. JobOK(w, rows)
    BY <2>1, <2>2, <2>6 DEF JobOK, Turning
  <2>8. jobs' = [jobs EXCEPT ![j] = w]
    BY <1>8, <2>3, <2>5 DEF SelectCall
  <2>9. JobsOK(jobs', rows)
    BY <1>1, <2>6, <2>7, <2>8, JobsSet
  <2> QED
    BY <1>1, <1>3, <1>8, <2>9 DEF SelectCall, Fits, callHistory
<1>9. ASSUME NEW kind \in Turning, Writes(j, kind), DownOK(down', rows),
             JobDone(j) \/ (kind = "reject" /\ JobGoes(j, "notify"))
      PROVE  Fits' /\ Kept(rows, rows')
  <2>1. /\ RowsOK(rows') /\ Kept(rows, rows') /\ DOMAIN rows' = DOMAIN rows
        /\ jobs[j] # NoJob /\ jobs[j].call \in DOMAIN rows
    BY <1>9, WritesFits
  <2>2. JobsOK(jobs', rows)
    <3>1. CASE JobDone(j)
      BY <1>1, <3>1, JobFinishes DEF JobDone
    <3>2. CASE kind = "reject" /\ JobGoes(j, "notify")
      <4>1. PICK w : w = [jobs[j] EXCEPT !.at = "notify"]
        OBVIOUS
      <4>2. jobs[j] \in Jobs /\ JobOK(jobs[j], rows) /\ jobs[j].kind = "reject"
        BY <1>1, <1>9, <2>1, <3>2, JobAt DEF Writes
      <4>3. w \in Jobs /\ w.at = "notify" /\ w.kind = "reject" /\ w.call = jobs[j].call /\ w.user = jobs[j].user
        BY <4>1, <4>2 DEF Jobs
      <4>4. JobOK(w, rows)
        BY <2>1, <4>2, <4>3 DEF JobOK
      <4>5. jobs' = [jobs EXCEPT ![j] = w]
        BY <3>2, <4>1 DEF JobGoes
      <4> QED
        BY <1>1, <4>3, <4>4, <4>5, JobsSet
    <3> QED
      BY <1>9, <3>1, <3>2
  <2>3. JobsOK(jobs', rows') /\ DownOK(down', rows') /\ FeOK(fe, rows')
    BY <1>1, <1>9, <2>1, <2>2, StillFits
  <2> QED
    BY <1>9, <2>1, <2>3 DEF Fits, Writes, callHistory
<1>10. CASE Accepted(j)
  <2>1. Writes(j, "accept") /\ JobDone(j) /\ Notify(OtherParty(jobs[j]), "accepted", jobs[j].call)
    BY <1>10 DEF Accepted
  <2>2. jobs[j] # NoJob /\ jobs[j].call \in DOMAIN rows /\ "accept" \in Turning
    BY <2>1, WritesFits DEF Turning
  <2>3. jobs[j].user \in Parties(rows[jobs[j].call])
    BY <1>1, <2>1, <2>2, JobAt DEF Writes
  <2>4. OtherParty(jobs[j]) \in Parties(rows[jobs[j].call]) /\ jobs[j].call \in Nat
    BY <1>1, <2>2, <2>3, OtherSideIs DEF OtherParty
  <2>5. PICK m : m = [what |-> "accepted", call |-> jobs[j].call]
    OBVIOUS
  <2>6. m \in Messages /\ m.what = "accepted" /\ m.call = jobs[j].call
    BY <2>4, <2>5, MessagesAre
  <2>7. MessageOK(m, OtherParty(jobs[j]), rows)
    BY <2>2, <2>4, <2>6 DEF MessageOK
  <2>8. DownOK(down', rows)
    BY <1>1, <2>1, <2>5, <2>6, <2>7, DownGrows
  <2> QED
    BY <1>9, <2>1, <2>2, <2>8
<1>11. CASE CallEnded(j)
  <2>1. Writes(j, "end") /\ JobDone(j) /\ Notify(OtherParty(jobs[j]), "ended", 0)
    BY <1>11 DEF CallEnded
  <2>2. PICK m : m = [what |-> "ended", call |-> 0]
    OBVIOUS
  <2>3. m \in Messages /\ m.what = "ended" /\ m.call = 0
    BY <2>2, MessagesAre
  <2>4. MessageOK(m, OtherParty(jobs[j]), rows)
    BY <2>3 DEF MessageOK
  <2>5. DownOK(down', rows)
    BY <1>1, <2>1, <2>2, <2>3, <2>4, DownGrows
  <2> QED
    BY <1>9, <2>1, <2>5 DEF Turning
<1>12. CASE CallRejected(j)
  BY <1>1, <1>9, <1>12 DEF CallRejected, Turning
<1>13. CASE NotifyRejected(j)
  <2>1. Notify(rows[jobs[j].call].initiator, "rejected", 0) /\ JobDone(j)
    BY <1>13 DEF NotifyRejected
  <2>2. PICK m : m = [what |-> "rejected", call |-> 0]
    OBVIOUS
  <2>3. m \in Messages /\ m.what = "rejected" /\ m.call = 0
    BY <2>2, MessagesAre
  <2>4. MessageOK(m, rows[jobs[j].call].initiator, rows)
    BY <2>3 DEF MessageOK
  <2>5. DownOK(down', rows)
    BY <1>1, <2>1, <2>2, <2>3, <2>4, DownGrows
  <2> QED
    BY <1>4, <1>13, <2>5 DEF NotifyRejected, callHistory, Fits
<1>14. ASSUME NEW kind \in {"offer", "answer"}, Forward(j, kind) PROVE Fits' /\ Kept(rows, rows')
  <2>1. Notify(OtherParty(jobs[j]), kind, jobs[j].call) /\ JobDone(j) /\ jobs[j].kind = kind
    BY <1>14 DEF Forward, Received
  <2>2. jobs[j] # NoJob
    BY <2>1, NoJobIs
  <2>3. jobs[j].call \in DOMAIN rows
    BY <1>1, <2>1, <2>2, JobAt
  <2>4. jobs[j].call \in Nat
    BY <1>1, <2>3 DEF RowsOK
  <2>5. PICK m : m = [what |-> kind, call |-> jobs[j].call]
    OBVIOUS
  <2>6. m \in Messages /\ m.what = kind /\ m.call = jobs[j].call
    BY <2>4, <2>5, MessagesAre
  <2>7. MessageOK(m, OtherParty(jobs[j]), rows)
    BY <2>3, <2>6 DEF MessageOK
  <2>8. DownOK(down', rows)
    BY <1>1, <2>1, <2>5, <2>6, <2>7, DownGrows
  <2> QED
    BY <1>4, <1>14, <2>8 DEF Forward, callHistory, Fits
<1>15. CASE Fail(j)
  BY <1>1, <1>4, <1>15, BoundsAssumption DEF Fail, Fits, callHistory
<1> QED
  BY <1>5, <1>6, <1>7, <1>8, <1>10, <1>11, <1>12, <1>13, <1>14, <1>15 DEF Gateway, ForwardOffer, ForwardAnswer

\* A browser that ends its call.
LEMMA EndCallFits ==
  ASSUME Fits, NEW u \in Users, EndCall(u)
  PROVE  /\ JobsOK(jobs', rows) /\ FeOK(fe', rows) /\ calm' \subseteq Users /\ crossed' = crossed
         /\ \A v \in Users : fe'[v].isIncoming => fe'[v].callId # 0
         /\ fe' = [fe EXCEPT ![u] = Ended(fe[u])]
<1>1. RowsOK(rows) /\ JobsOK(jobs, rows) /\ FeOK(fe, rows) /\ fe \in [Users -> Browsers]
  BY DEF Fits, FeOK
<1>2. fe[u] \in Browsers /\ BrowserOK(fe[u], u, rows)
  BY <1>1 DEF FeOK
<1>3. PICK f : f = Ended(fe[u])
  OBVIOUS
<1>4. f \in Browsers /\ f.callId = 0 /\ ~f.isIncoming /\ f.waits = fe[u].waits
  BY <1>2, <1>3 DEF Ended, Idle, Browsers
<1>5. BrowserOK(f, u, rows)
  BY <1>2, <1>4 DEF BrowserOK
<1>6. fe' = [fe EXCEPT ![u] = f]
  BY <1>3 DEF EndCall
<1>7. FeOK(fe', rows)
  BY <1>1, <1>4, <1>5, <1>6, FeSet
<1>8. \A v \in Users : fe'[v].isIncoming => fe'[v].callId # 0
  BY <1>1, <1>4, <1>6 DEF Fits
<1>9. JobsOK(jobs', rows)
  <2>1. PICK lost : IF fe[u].callId = 0
                    THEN jobs' = Without(lost)
                    ELSE /\ HasRoom(Without(lost))
                         /\ jobs' = With(Without(lost), "end", u, Nobody, fe[u].callId)
    BY DEF EndCall
  <2>2. JobsOK(Without(lost), rows)
    BY <1>1, JobsWithout
  <2>3. CASE fe[u].callId = 0
    BY <2>1, <2>2, <2>3
  <2>4. CASE fe[u].callId # 0
    <3>1. fe[u].callId \in DOMAIN rows /\ u \in Parties(rows[fe[u].callId]) /\ fe[u].callId \in Nat
      BY <1>1, <1>2, <2>4 DEF BrowserOK, RowsOK
    <3>2. FreeJobs(Without(lost)) # {} /\ jobs' = With(Without(lost), "end", u, Nobody, fe[u].callId)
      BY <2>1, <2>4 DEF HasRoom
    <3>3. PICK js : js = Without(lost)
      OBVIOUS
    <3>4. JobsOK(With(js, "end", u, Nobody, fe[u].callId), rows)
      BY <2>2, <3>1, <3>2, <3>3, JobsWith DEF Kinds
    <3> QED
      BY <3>2, <3>3, <3>4
  <2> QED
    BY <2>3, <2>4
<1>10. calm' \subseteq Users /\ crossed' = crossed
  BY DEF EndCall, Keeps, Fits
<1> QED
  BY <1>3, <1>6, <1>7, <1>8, <1>9, <1>10

\* Every step of a browser and of its connection keeps types and places.
LEMMA BrowserFits ==
  ASSUME Fits, NEW u \in Users,
         \/ \E v \in Users \ {u} : InitiateCall(u, v)
         \/ AcceptCall(u) \/ RejectCall(u) \/ HangUp(u) \/ PeerFails(u)
         \/ Hear(u) \/ Settle(u) \/ Drop(u) \/ Reconnect(u)
  PROVE  Fits' /\ rows' = rows
<1>1. /\ RowsOK(rows) /\ JobsOK(jobs, rows) /\ DownOK(down, rows) /\ FeOK(fe, rows)
      /\ fe \in [Users -> Browsers] /\ calm \subseteq Users /\ crossed \subseteq DOMAIN rows
  BY DEF Fits, FeOK
<1>2. fe[u] \in Browsers /\ BrowserOK(fe[u], u, rows)
  BY <1>1 DEF FeOK
<1>3. ASSUME rows' = rows, JobsOK(jobs', rows), DownOK(down', rows), FeOK(fe', rows),
             \A v \in Users : fe'[v].isIncoming => fe'[v].callId # 0,
             online' \in [Users -> BOOLEAN], dialled' \in 0..MaxCalls, drops' \in 0..MaxDrops,
             calm' \subseteq Users, crossed' \subseteq DOMAIN rows
      PROVE  Fits' /\ rows' = rows
  BY <1>1, <1>3 DEF Fits
<1>4. ASSUME NEW f, f \in Browsers, BrowserOK(f, u, rows), f.isIncoming => f.callId # 0,
             fe' = [fe EXCEPT ![u] = f]
      PROVE  FeOK(fe', rows) /\ \A v \in Users : fe'[v].isIncoming => fe'[v].callId # 0
  BY <1>1, <1>4, FeSet DEF Fits
<1>5. ASSUME NEW ready, Keeps(u, ready) PROVE calm' \subseteq Users /\ crossed' \subseteq DOMAIN rows
  BY <1>1, <1>5 DEF Keeps
<1>6. ASSUME UNCHANGED callHistory PROVE calm' \subseteq Users /\ crossed' \subseteq DOMAIN rows
  BY <1>1, <1>6 DEF callHistory
<1>7. ASSUME NEW kind \in Kinds, NEW to \in Users \union {Nobody}, NEW call \in Nat,
             Emit(kind, u, to, call),
             IF kind = "start" THEN call = 0 /\ to \in Users \ {u}
             ELSE call \in DOMAIN rows /\ (kind \in Turning => u \in Parties(rows[call]))
      PROVE  JobsOK(jobs', rows)
  BY <1>1, <1>7, JobsWith DEF Emit, HasRoom
<1>8. \A c \in DOMAIN rows : c \in Nat /\ c # 0
  BY <1>1 DEF RowsOK
<1>9. ASSUME NEW v \in Users \ {u}, InitiateCall(u, v) PROVE Fits' /\ rows' = rows
  <2>1. PICK f : f = [fe[u] EXCEPT !.status = "initiating", !.waits = fe[u].waits \union {Wait(v, 0)}]
    OBVIOUS
  <2>2. fe' = [fe EXCEPT ![u] = f]
    BY <1>1, <1>9, <2>1 DEF InitiateCall
  <2>3. Wait(v, 0) \in Waits /\ Wait(v, 0).call = 0 /\ Wait(v, 0).to = v
    BY DEF Wait, Waits
  <2>4. f \in Browsers /\ f.callId = fe[u].callId /\ f.isIncoming = fe[u].isIncoming
        /\ f.waits = fe[u].waits \union {Wait(v, 0)}
    BY <1>2, <2>1, <2>3 DEF Browsers
  <2>5. BrowserOK(f, u, rows)
    BY <1>2, <2>3, <2>4 DEF BrowserOK
  <2>6. FeOK(fe', rows) /\ \A w \in Users : fe'[w].isIncoming => fe'[w].callId # 0
    BY <1>4, <2>2, <2>4, <2>5 DEF Fits
  <2>7. dialled' \in 0..MaxCalls
    BY <1>9, BoundsAssumption DEF InitiateCall, Fits, MaxCalls
  <2>8. calm' \subseteq Users /\ crossed' \subseteq DOMAIN rows
    BY <1>5, <1>9 DEF InitiateCall
  <2> QED
    BY <1>1, <1>3, <1>9, <2>6, <2>7, <2>8 DEF InitiateCall, Fits
<1>10. CASE AcceptCall(u)
  <2>1. PICK f : f = [fe[u] EXCEPT !.status = "connecting",
                                   !.waits = fe[u].waits \union {Wait(Nobody, fe[u].callId)}]
    OBVIOUS
  <2>2. fe' = [fe EXCEPT ![u] = f]
    BY <1>1, <1>10, <2>1 DEF AcceptCall
  <2>3. fe[u].callId \in Nat
    BY <1>2 DEF Browsers
  <2>4. PICK w : w = Wait(Nobody, fe[u].callId)
    OBVIOUS
  <2>5. w \in Waits /\ w.call = fe[u].callId
    BY <2>3, <2>4 DEF Wait, Waits
  <2>6. f \in Browsers /\ f.callId = fe[u].callId /\ f.isIncoming = fe[u].isIncoming
        /\ f.waits = fe[u].waits \union {w}
    BY <1>2, <2>1, <2>4, <2>5 DEF Browsers
  <2>7. fe[u].callId # 0
    BY <1>10 DEF AcceptCall, Rings
  <2>8. BrowserOK(f, u, rows)
    BY <1>2, <2>5, <2>6, <2>7 DEF BrowserOK
  <2>9. FeOK(fe', rows) /\ \A v \in Users : fe'[v].isIncoming => fe'[v].callId # 0
    BY <1>4, <2>2, <2>6, <2>7, <2>8
  <2> QED
    BY <1>1, <1>3, <1>6, <1>10, <2>9 DEF AcceptCall, Fits
<1>11. PICK frej : frej = Rejected(fe[u])
  OBVIOUS
<1>12. /\ frej \in Browsers /\ frej.callId = 0 /\ ~frej.isIncoming /\ frej.waits = fe[u].waits
       /\ BrowserOK(frej, u, rows)
  <2>1. frej \in Browsers /\ frej.callId = 0 /\ ~frej.isIncoming /\ frej.waits = fe[u].waits
    BY <1>2, <1>11 DEF Rejected, Browsers
  <2> QED
    BY <1>2, <2>1 DEF BrowserOK
<1>13. CASE RejectCall(u)
  <2>1. fe' = [fe EXCEPT ![u] = frej] /\ Emit("reject", u, Nobody, fe[u].callId) /\ fe[u].callId # 0
    BY <1>11, <1>13 DEF RejectCall, Rings
  <2>2. fe[u].callId \in DOMAIN rows /\ u \in Parties(rows[fe[u].callId])
    BY <1>2, <2>1 DEF BrowserOK
  <2>3. JobsOK(jobs', rows)
    BY <1>7, <1>8, <2>1, <2>2 DEF Kinds
  <2>4. FeOK(fe', rows) /\ \A v \in Users : fe'[v].isIncoming => fe'[v].callId # 0
    BY <1>4, <1>12, <2>1
  <2> QED
    BY <1>1, <1>3, <1>6, <1>13, <2>3, <2>4 DEF RejectCall, Fits
<1>14. ASSUME EndCall(u), rows' = rows, DownOK(down', rows), UNCHANGED <<online, dialled, drops>>
       PROVE  Fits' /\ rows' = rows
  BY <1>1, <1>3, <1>14, EndCallFits DEF Fits
<1>15. CASE HangUp(u)
  BY <1>1, <1>14, <1>15 DEF HangUp
<1>16. CASE PeerFails(u)
  BY <1>1, <1>14, <1>16 DEF PeerFails
<1>17. ASSUME NEW what, Hears(u, what), Taken(u)
       PROVE  /\ DownOK(down', rows) /\ Head(down[u]) \in Messages /\ MessageOK(Head(down[u]), u, rows)
              /\ Head(down[u]).what \in what /\ Head(down[u]).call \in Nat
  <2>1. down[u] # <<>> /\ Head(down[u]).what \in what
    BY <1>17 DEF Hears
  <2>2. DownOK(down', rows) /\ Head(down[u]) \in Messages /\ MessageOK(Head(down[u]), u, rows)
    BY <1>1, <1>17, <2>1, DownTaken
  <2> QED
    BY <2>1, <2>2 DEF Messages
<1>18. CASE HearIncoming(u)
  <2>1. Hears(u, {"incoming"}) /\ Taken(u)
    BY <1>18 DEF HearIncoming
  <2>2. PICK m : m = Head(down[u])
    OBVIOUS
  <2>3. DownOK(down', rows) /\ m.what = "incoming" /\ MessageOK(m, u, rows) /\ m.call \in Nat
    BY <1>17, <2>1, <2>2
  <2>4. m.call \in DOMAIN rows /\ u = rows[m.call].recipient
    BY <2>3 DEF MessageOK
  <2>5. u \in Parties(rows[m.call]) /\ m.call # 0
    BY <1>8, <2>4, UsersAssumption DEF Parties
  <2>6. PICK f : f = [fe[u] EXCEPT !.callId = m.call, !.isIncoming = TRUE, !.status = "ringing"]
    OBVIOUS
  <2>7. f \in Browsers /\ f.callId = m.call /\ f.waits = fe[u].waits
    BY <1>2, <2>3, <2>6 DEF Browsers
  <2>8. BrowserOK(f, u, rows)
    BY <1>2, <2>4, <2>5, <2>7 DEF BrowserOK
  <2>9. fe' = [fe EXCEPT ![u] = f]
    BY <1>1, <1>18, <2>2, <2>6 DEF HearIncoming
  <2>10. FeOK(fe', rows) /\ \A v \in Users : fe'[v].isIncoming => fe'[v].callId # 0
    BY <1>4, <2>5, <2>7, <2>8, <2>9
  <2>11. calm' \subseteq Users /\ crossed' \subseteq DOMAIN rows
    BY <1>5, <1>18 DEF HearIncoming
  <2> QED
    BY <1>1, <1>3, <1>18, <2>3, <2>10, <2>11 DEF HearIncoming, Fits
<1>19. CASE HearAccepted(u)
  <2>1. Hears(u, {"accepted"}) /\ Taken(u)
    BY <1>19 DEF HearAccepted
  <2>2. PICK m : m = Head(down[u])
    OBVIOUS
  <2>3. DownOK(down', rows) /\ m.what = "accepted" /\ MessageOK(m, u, rows) /\ m.call \in Nat
    BY <1>17, <2>1, <2>2
  <2>4. m.call \in DOMAIN rows /\ u \in Parties(rows[m.call]) /\ m.call # 0
    BY <1>8, <2>3 DEF MessageOK
  <2>5. PICK f : f = WithPeer([fe[u] EXCEPT !.callId = m.call, !.status = "connecting"])
    OBVIOUS
  <2>6. f \in Browsers /\ f.callId = m.call /\ f.waits = fe[u].waits
    BY <1>2, <2>3, <2>5 DEF Browsers, WithPeer
  <2>7. BrowserOK(f, u, rows)
    BY <1>2, <2>4, <2>6 DEF BrowserOK
  <2>8. fe' = [fe EXCEPT ![u] = f]
    BY <1>1, <1>19, <2>2, <2>5 DEF HearAccepted
  <2>9. FeOK(fe', rows) /\ \A v \in Users : fe'[v].isIncoming => fe'[v].callId # 0
    BY <1>4, <2>4, <2>6, <2>7, <2>8
  <2>10. calm' \subseteq Users /\ crossed' \subseteq DOMAIN rows
    BY <1>5, <1>19 DEF HearAccepted
  <2>11. JobsOK(jobs', rows)
    <3>1. Emit("offer", u, Nobody, m.call)
      BY <1>19, <2>2 DEF HearAccepted
    <3> QED
      BY <1>7, <2>3, <2>4, <3>1 DEF Kinds, Turning
  <2> QED
    BY <1>1, <1>3, <1>19, <2>3, <2>9, <2>10, <2>11 DEF HearAccepted, Fits
<1>20. CASE HearOver(u)
  BY <1>14, <1>17, <1>20 DEF HearOver
<1>21. CASE HearOffer(u)
  <2>1. Hears(u, {"offer"}) /\ Taken(u)
    BY <1>21 DEF HearOffer
  <2>2. PICK m : m = Head(down[u])
    OBVIOUS
  <2>3. DownOK(down', rows) /\ m.what = "offer" /\ MessageOK(m, u, rows) /\ m.call \in Nat
    BY <1>17, <2>1, <2>2
  <2>4. m.call \in DOMAIN rows
    BY <2>3 DEF MessageOK
  <2>5. PICK status \in {fe[u].status, "active"} :
          fe' = [fe EXCEPT ![u] = WithPeer([fe[u] EXCEPT !.status = status])]
    BY <1>1, <1>21 DEF HearOffer
  <2>6. PICK f : f = WithPeer([fe[u] EXCEPT !.status = status])
    OBVIOUS
  <2>7. f \in Browsers /\ f.callId = fe[u].callId /\ f.waits = fe[u].waits /\ f.isIncoming = fe[u].isIncoming
    BY <1>2, <2>5, <2>6 DEF Browsers, WithPeer
  <2>8. BrowserOK(f, u, rows)
    BY <1>2, <2>7 DEF BrowserOK
  <2>9. FeOK(fe', rows) /\ \A v \in Users : fe'[v].isIncoming => fe'[v].callId # 0
    BY <1>4, <2>5, <2>6, <2>7, <2>8 DEF Fits
  <2>10. JobsOK(jobs', rows)
    <3>1. Emit("answer", u, Nobody, m.call)
      BY <1>21, <2>2 DEF HearOffer
    <3> QED
      BY <1>7, <2>3, <2>4, <3>1 DEF Kinds, Turning
  <2> QED
    BY <1>1, <1>3, <1>6, <1>21, <2>3, <2>9, <2>10 DEF HearOffer, Fits
<1>22. CASE HearAnswer(u)
  <2>1. Hears(u, {"answer"}) /\ Taken(u)
    BY <1>22 DEF HearAnswer
  <2>2. PICK status : /\ status \in {fe[u].status, "active"}
                      /\ fe' = [fe EXCEPT ![u].status = status]
    BY <1>22 DEF HearAnswer
  <2>3. PICK f : f = [fe[u] EXCEPT !.status = status]
    OBVIOUS
  <2>4. f \in Browsers /\ f.callId = fe[u].callId /\ f.waits = fe[u].waits /\ f.isIncoming = fe[u].isIncoming
    BY <1>2, <2>2, <2>3 DEF Browsers
  <2>5. BrowserOK(f, u, rows)
    BY <1>2, <2>4 DEF BrowserOK
  <2>6. fe' = [fe EXCEPT ![u] = f]
    BY <1>1, <2>2, <2>3
  <2>7. FeOK(fe', rows) /\ \A v \in Users : fe'[v].isIncoming => fe'[v].callId # 0
    BY <1>4, <2>4, <2>5, <2>6 DEF Fits
  <2>8. DownOK(down', rows)
    BY <1>17, <2>1
  <2> QED
    BY <1>1, <1>3, <1>6, <1>22, <2>7, <2>8 DEF HearAnswer, Fits
<1>23. ASSUME NEW w \in fe[u].waits, w.call = 0
       PROVE  w.to \in Users \ {u}
  BY <1>2, <1>23 DEF BrowserOK
<1>24. ASSUME NEW w \in fe[u].waits, w.call # 0
       PROVE  w.call \in DOMAIN rows /\ u \in Parties(rows[w.call])
  BY <1>2, <1>24 DEF BrowserOK
<1>25. ASSUME NEW w \in fe[u].waits, DialGranted(u, w) PROVE Fits' /\ rows' = rows
  <2>1. w.call = 0 /\ Emit("start", u, w.to, 0)
    BY <1>25 DEF DialGranted
  <2>2. PICK f : f = [WithCamera(fe[u]) EXCEPT !.waits = fe[u].waits \ {w}, !.status = "ringing"]
    OBVIOUS
  <2>3. fe' = [fe EXCEPT ![u] = f]
    BY <1>1, <1>25, <2>2 DEF DialGranted, WithCamera
  <2>4. f \in Browsers /\ f.callId = fe[u].callId /\ f.waits \subseteq fe[u].waits /\ f.isIncoming = fe[u].isIncoming
    BY <1>2, <2>2 DEF Browsers, WithCamera
  <2>5. BrowserOK(f, u, rows)
    BY <1>2, <2>4 DEF BrowserOK
  <2>6. FeOK(fe', rows) /\ \A v \in Users : fe'[v].isIncoming => fe'[v].callId # 0
    BY <1>4, <2>3, <2>4, <2>5 DEF Fits
  <2>7. JobsOK(jobs', rows)
    BY <1>7, <1>23, <2>1 DEF Kinds
  <2> QED
    BY <1>1, <1>3, <1>6, <1>25, <2>6, <2>7 DEF DialGranted, Fits
<1>26. ASSUME NEW w \in fe[u].waits, DialDenied(u, w) PROVE Fits' /\ rows' = rows
  <2>1. PICK f : f = [fe[u] EXCEPT !.waits = fe[u].waits \ {w}, !.status = "idle"]
    OBVIOUS
  <2>2. fe' = [fe EXCEPT ![u] = f]
    BY <1>1, <1>26, <2>1 DEF DialDenied
  <2>3. f \in Browsers /\ f.callId = fe[u].callId /\ f.waits \subseteq fe[u].waits /\ f.isIncoming = fe[u].isIncoming
    BY <1>2, <2>1 DEF Browsers
  <2>4. BrowserOK(f, u, rows)
    BY <1>2, <2>3 DEF BrowserOK
  <2>5. FeOK(fe', rows) /\ \A v \in Users : fe'[v].isIncoming => fe'[v].callId # 0
    BY <1>4, <2>2, <2>3, <2>4 DEF Fits
  <2> QED
    BY <1>1, <1>3, <1>6, <1>26, <2>5 DEF DialDenied, Fits
<1>27. ASSUME NEW w \in fe[u].waits, AcceptGranted(u, w) PROVE Fits' /\ rows' = rows
  <2>1. w.call # 0 /\ Emit("accept", u, Nobody, w.call) /\ w.call \in DOMAIN rows /\ w.call \in Nat
        /\ u \in Parties(rows[w.call])
    BY <1>8, <1>24, <1>27 DEF AcceptGranted
  <2>2. PICK f : f = [WithCamera(fe[u]) EXCEPT !.waits = fe[u].waits \ {w}, !.callId = w.call]
    OBVIOUS
  <2>3. fe' = [fe EXCEPT ![u] = f]
    BY <1>1, <1>27, <2>2 DEF AcceptGranted, WithCamera
  <2>4. f \in Browsers /\ f.callId = w.call /\ f.waits \subseteq fe[u].waits
    BY <1>2, <2>1, <2>2 DEF Browsers, WithCamera
  <2>5. BrowserOK(f, u, rows)
    BY <1>2, <2>1, <2>4 DEF BrowserOK
  <2>6. FeOK(fe', rows) /\ \A v \in Users : fe'[v].isIncoming => fe'[v].callId # 0
    BY <1>4, <2>1, <2>3, <2>4, <2>5
  <2>7. JobsOK(jobs', rows)
    BY <1>7, <2>1 DEF Kinds
  <2> QED
    BY <1>1, <1>3, <1>6, <1>27, <2>6, <2>7 DEF AcceptGranted, Fits
<1>28. ASSUME NEW w \in fe[u].waits, AcceptDenied(u, w) PROVE Fits' /\ rows' = rows
  <2>1. w.call # 0 /\ Emit("reject", u, Nobody, w.call) /\ w.call \in DOMAIN rows /\ w.call \in Nat
        /\ u \in Parties(rows[w.call])
    BY <1>8, <1>24, <1>28 DEF AcceptDenied
  <2>2. PICK f : f = [frej EXCEPT !.waits = fe[u].waits \ {w}]
    OBVIOUS
  <2>3. fe' = [fe EXCEPT ![u] = f]
    BY <1>1, <1>11, <1>28, <2>2 DEF AcceptDenied, Rejected
  <2>4. f \in Browsers /\ f.callId = 0 /\ ~f.isIncoming /\ f.waits \subseteq fe[u].waits
    BY <1>2, <1>12, <2>2 DEF Browsers
  <2>5. BrowserOK(f, u, rows)
    BY <1>2, <2>4 DEF BrowserOK
  <2>6. FeOK(fe', rows) /\ \A v \in Users : fe'[v].isIncoming => fe'[v].callId # 0
    BY <1>4, <2>3, <2>4, <2>5
  <2>7. JobsOK(jobs', rows)
    BY <1>7, <2>1 DEF Kinds
  <2> QED
    BY <1>1, <1>3, <1>6, <1>28, <2>6, <2>7 DEF AcceptDenied, Fits
<1>29. CASE Drop(u)
  <2>1. PICK lost : jobs' = Without(lost)
    BY <1>29 DEF Drop
  <2>2. JobsOK(jobs', rows)
    BY <1>1, <2>1, JobsWithout
  <2>3. DownOK(down', rows)
    BY <1>1, <1>29 DEF Drop, DownOK
  <2>4. drops' \in 0..MaxDrops /\ online' \in [Users -> BOOLEAN]
    BY <1>29, BoundsAssumption DEF Drop, Fits
  <2> QED
    BY <1>1, <1>3, <1>6, <1>29, <2>2, <2>3, <2>4 DEF Drop, Fits
<1>30. CASE Reconnect(u)
  <2>1. online' \in [Users -> BOOLEAN]
    BY <1>30 DEF Reconnect, Fits
  <2> QED
    BY <1>1, <1>3, <1>6, <1>30, <2>1 DEF Reconnect, Fits
<1> QED
  BY <1>9, <1>10, <1>13, <1>15, <1>16, <1>18, <1>19, <1>20, <1>21, <1>22, <1>25, <1>26, <1>27, <1>28,
     <1>29, <1>30 DEF Hear, Settle

\* Every step keeps the types, and what is named is there; no session goes, or
\* changes sides.
LEMMA FitsStep ==
  ASSUME Fits, [CallNext]_callVars
  PROVE  Fits' /\ Kept(rows, rows')
<1>1. Kept(rows, rows)
  BY DEF Kept
<1>2. ASSUME NEW u \in Users,
             \/ \E v \in Users \ {u} : InitiateCall(u, v)
             \/ AcceptCall(u) \/ RejectCall(u) \/ HangUp(u) \/ PeerFails(u)
             \/ Hear(u) \/ Settle(u) \/ Drop(u) \/ Reconnect(u)
      PROVE  Fits' /\ Kept(rows, rows')
  BY <1>1, <1>2, BrowserFits
<1>3. ASSUME NEW j \in Places, Gateway(j) \/ Fail(j) PROVE Fits' /\ Kept(rows, rows')
  BY <1>3, GatewayFits
<1>4. CASE UNCHANGED callVars
  BY <1>1, <1>4 DEF Fits, callVars, callHistory
<1> QED
  BY <1>2, <1>3, <1>4 DEF CallNext, Places

-----------------------------------------------------------------------------
(* What a step does to the browser, to the messages in hand and to what is *)
(* under way.                                                              *)

\* Messages are lost, none of them about the turn of a call.
Thins(js, js2) ==
  \A i \in Places : js2[i] = js[i] \/ (js2[i] = NoJob /\ js[i].kind \notin Turning)

\* One is sent, and messages may be lost as well.
Sends(js, js2, kind, u, call) ==
  \E j \in Places :
    /\ js2[j].kind = kind /\ js2[j].user = u /\ js2[j].call = call /\ js2[j].at = "sent"
    /\ js[j].kind \notin Turning
    /\ \A i \in Places \ {j} : js2[i] = js[i] \/ (js2[i] = NoJob /\ js[i].kind \notin Turning)

\* What endCall does to the messages in hand: some may be lost, one is sent.
LEMMA EmitSends ==
  ASSUME NEW js, NEW lost, js = Without(lost), \A i \in Places \intersect lost : jobs[i].kind \notin Turning,
         HasRoom(js), NEW kind, NEW u, NEW to, NEW call, jobs' = With(js, kind, u, to, call),
         jobs \in [Places -> Jobs \union {NoJob}]
  PROVE  Sends(jobs, jobs', kind, u, call)
<1>1. FreeJobs(js) # {} /\ js = [i \in Places |-> IF i \in lost THEN NoJob ELSE jobs[i]]
  BY DEF HasRoom, Without, Places
<1>2. PICK j \in Places :
        /\ js[j] = NoJob
        /\ jobs' = [js EXCEPT ![j] = [kind |-> kind, user |-> u, to |-> to, call |-> call,
                                      at |-> "sent", seen |-> NoSession, cols |-> {}]]
  BY <1>1, WithFacts
<1>3. jobs'[j].kind = kind /\ jobs'[j].user = u /\ jobs'[j].call = call /\ jobs'[j].at = "sent"
  BY <1>1, <1>2
<1>4. \A i \in Places \ {j} : jobs'[i] = js[i]
  BY <1>1, <1>2
<1>5. jobs[j].kind \notin Turning
  BY <1>1, <1>2, NoJobIs DEF Turning
<1>6. \A i \in Places \ {j} : jobs'[i] = jobs[i] \/ (jobs'[i] = NoJob /\ jobs[i].kind \notin Turning)
  BY <1>1, <1>4
<1> QED
  BY <1>3, <1>5, <1>6 DEF Sends

\* What emit does to the messages in hand.
LEMMA Emits ==
  ASSUME NEW kind, NEW u, NEW to, NEW call, Emit(kind, u, to, call), JobsOK(jobs, rows)
  PROVE  Sends(jobs, jobs', kind, u, call)
<1>1. jobs \in [Places -> Jobs \union {NoJob}]
  BY DEF JobsOK
<1>2. PICK js : js = Without({})
  OBVIOUS
<1>3. js = jobs
  BY <1>1, <1>2 DEF Without, Places
<1>4. HasRoom(js) /\ jobs' = With(js, kind, u, to, call)
  BY <1>3 DEF Emit
<1> QED
  BY <1>1, <1>2, <1>4, EmitSends

Is(f, status, callId, isIncoming, camera, waits) ==
  /\ f.status = status /\ f.callId = callId /\ f.isIncoming = isIncoming
  /\ f.camera = camera /\ f.waits = waits

\* The actions of browser u, from f to g; q and q2 is what is under way to it.
Initiates(u, f, g, js, js2, q, q2, ready) ==
  /\ ready => f = Idle
  /\ js2 = js /\ q2 = q
  /\ \E w : w.call = 0 /\ Is(g, "initiating", f.callId, f.isIncoming, f.camera, f.waits \union {w})

Accepts(u, f, g, js, js2, q, q2) ==
  /\ js2 = js /\ q2 = q /\ Rings(f)
  /\ \E w : w.call = f.callId /\ Is(g, "connecting", f.callId, f.isIncoming, f.camera, f.waits \union {w})

Rejects(u, f, g, js, js2, q, q2) ==
  /\ q2 = q /\ Rings(f)
  /\ Is(g, "idle", 0, FALSE, f.camera, f.waits)
  /\ Sends(js, js2, "reject", u, f.callId)

EndsCall(u, f, g, js, js2, q, q2, ready) ==
  /\ ready => f.waits = {}
  /\ q2 = q \/ (q # <<>> /\ q2 = Tail(q) /\ IsOver(Head(q)))
  /\ Is(g, "idle", 0, FALSE, IF f.camera = "lost" THEN "lost" ELSE "off", f.waits)
  /\ IF f.callId = 0 THEN Thins(js, js2) ELSE Sends(js, js2, "end", u, f.callId)

Filming(f) == IF f.camera = "off" THEN "held" ELSE "lost"

DialGoesOut(u, f, g, js, js2, q, q2) ==
  /\ q2 = q
  /\ \E w \in f.waits :
       /\ w.call = 0 /\ Is(g, "ringing", f.callId, f.isIncoming, Filming(f), f.waits \ {w})
       /\ Sends(js, js2, "start", u, 0)

DialIsDropped(u, f, g, js, js2, q, q2) ==
  /\ q2 = q /\ js2 = js
  /\ \E w \in f.waits : w.call = 0 /\ Is(g, "idle", f.callId, f.isIncoming, f.camera, f.waits \ {w})

AcceptGoesOut(u, f, g, js, js2, q, q2) ==
  /\ q2 = q
  /\ \E w \in f.waits :
       /\ w.call # 0 /\ Is(g, f.status, w.call, f.isIncoming, Filming(f), f.waits \ {w})
       /\ Sends(js, js2, "accept", u, w.call)

AcceptIsDropped(u, f, g, js, js2, q, q2) ==
  /\ q2 = q
  /\ \E w \in f.waits :
       /\ w.call # 0 /\ Is(g, "idle", 0, FALSE, f.camera, f.waits \ {w})
       /\ Sends(js, js2, "reject", u, w.call)

HearsNext(q, q2, what) == q # <<>> /\ q2 = Tail(q) /\ Head(q).what = what

HearsIncoming(u, f, g, js, js2, q, q2, ready) ==
  /\ HearsNext(q, q2, "incoming") /\ js2 = js
  /\ ready => f = Idle
  /\ Is(g, "ringing", Head(q).call, TRUE, f.camera, f.waits)

HearsAccepted(u, f, g, js, js2, q, q2, ready) ==
  /\ HearsNext(q, q2, "accepted")
  /\ ready => f.status = "ringing" /\ ~f.isIncoming
  /\ Is(g, "connecting", Head(q).call, f.isIncoming, f.camera, f.waits)
  /\ Sends(js, js2, "offer", u, Head(q).call)

HearsMedia(u, f, g, js, js2, q, q2) ==
  /\ \/ HearsNext(q, q2, "offer") /\ Sends(js, js2, "answer", u, Head(q).call)
     \/ HearsNext(q, q2, "answer") /\ js2 = js
  /\ \E status \in {f.status, "active"} : Is(g, status, f.callId, f.isIncoming, f.camera, f.waits)

Does(u, f, g, js, js2, q, q2, ready) ==
  \/ Initiates(u, f, g, js, js2, q, q2, ready)
  \/ Accepts(u, f, g, js, js2, q, q2)
  \/ Rejects(u, f, g, js, js2, q, q2)
  \/ EndsCall(u, f, g, js, js2, q, q2, ready)
  \/ DialGoesOut(u, f, g, js, js2, q, q2)
  \/ DialIsDropped(u, f, g, js, js2, q, q2)
  \/ AcceptGoesOut(u, f, g, js, js2, q, q2)
  \/ AcceptIsDropped(u, f, g, js, js2, q, q2)
  \/ HearsIncoming(u, f, g, js, js2, q, q2, ready)
  \/ HearsAccepted(u, f, g, js, js2, q, q2, ready)
  \/ HearsMedia(u, f, g, js, js2, q, q2)

\* Every step of a browser is one of these, and of that browser alone.
LEMMA BrowserStep ==
  ASSUME Fits, NEW u \in Users,
         \/ \E v \in Users \ {u} : InitiateCall(u, v)
         \/ AcceptCall(u) \/ RejectCall(u) \/ HangUp(u) \/ PeerFails(u)
         \/ Hear(u) \/ Settle(u)
  PROVE  /\ Does(u, fe[u], fe'[u], jobs, jobs', down[u], down'[u], u \in calm')
         /\ \A v \in Users \ {u} : fe'[v] = fe[v] /\ down'[v] = down[v]
         /\ rows' = rows /\ online' = online /\ drops' = drops /\ crossed' = crossed
         /\ calm' \subseteq calm
<1> DEFINE F == fe[u]
           G == fe'[u]
           Rest == /\ \A v \in Users \ {u} : fe'[v] = fe[v] /\ down'[v] = down[v]
                   /\ rows' = rows /\ online' = online /\ drops' = drops /\ crossed' = crossed
                   /\ calm' \subseteq calm
           Goal == Does(u, F, G, jobs, jobs', down[u], down'[u], u \in calm') /\ Rest
<1>1. /\ JobsOK(jobs, rows) /\ fe \in [Users -> Browsers] /\ F \in Browsers
      /\ jobs \in [Places -> Jobs \union {NoJob}] /\ down \in [Users -> Seq(Messages)]
  BY DEF Fits, FeOK, JobsOK, DownOK
<1>2. ASSUME NEW f, fe' = [fe EXCEPT ![u] = f], down' = down \/ Taken(u),
             UNCHANGED <<rows, online, drops, crossed>>, calm' \subseteq calm
      PROVE  G = f /\ Rest
  BY <1>1, <1>2 DEF Taken
<1>3. ASSUME NEW ready, Keeps(u, ready)
      PROVE  (u \in calm' => ready) /\ calm' \subseteq calm /\ crossed' = crossed
  BY <1>3 DEF Keeps
<1>4. ASSUME NEW what, Hears(u, what), Taken(u)
      PROVE  down[u] # <<>> /\ down'[u] = Tail(down[u]) /\ Head(down[u]).what \in what
  BY <1>1, <1>4 DEF Hears, Taken
<1>5. UNCHANGED callHistory => crossed' = crossed /\ calm' \subseteq calm
  BY DEF callHistory
<1>6. ASSUME NEW v \in Users \ {u}, InitiateCall(u, v) PROVE Goal
  <2>1. PICK f : f = [F EXCEPT !.status = "initiating", !.waits = F.waits \union {Wait(v, 0)}]
    OBVIOUS
  <2>2. fe' = [fe EXCEPT ![u] = f]
    BY <1>1, <1>6, <2>1 DEF InitiateCall
  <2>3. Is(f, "initiating", F.callId, F.isIncoming, F.camera, F.waits \union {Wait(v, 0)})
    BY <1>1, <2>1 DEF Is, Browsers
  <2>4. (u \in calm' => F = Idle) /\ calm' \subseteq calm /\ crossed' = crossed
    BY <1>3, <1>6 DEF InitiateCall
  <2>5. UNCHANGED <<rows, jobs, down, online, drops>>
    BY <1>6 DEF InitiateCall
  <2>6. G = f /\ Rest
    BY <1>2, <2>2, <2>4, <2>5
  <2>7. Wait(v, 0).call = 0
    BY DEF Wait
  <2>8. Initiates(u, F, G, jobs, jobs', down[u], down'[u], u \in calm')
    BY <2>3, <2>4, <2>5, <2>6, <2>7 DEF Initiates
  <2> QED
    BY <2>6, <2>8 DEF Does
<1>7. CASE AcceptCall(u)
  <2>1. PICK f : f = [F EXCEPT !.status = "connecting", !.waits = F.waits \union {Wait(Nobody, F.callId)}]
    OBVIOUS
  <2>2. fe' = [fe EXCEPT ![u] = f]
    BY <1>1, <1>7, <2>1 DEF AcceptCall
  <2>3. Is(f, "connecting", F.callId, F.isIncoming, F.camera, F.waits \union {Wait(Nobody, F.callId)})
    BY <1>1, <2>1 DEF Is, Browsers
  <2>4. UNCHANGED <<rows, jobs, down, online, drops>> /\ UNCHANGED callHistory /\ Rings(F)
    BY <1>7 DEF AcceptCall
  <2>5. G = f /\ Rest
    BY <1>2, <1>5, <2>2, <2>4
  <2>6. Wait(Nobody, F.callId).call = F.callId
    BY DEF Wait
  <2>7. Accepts(u, F, G, jobs, jobs', down[u], down'[u])
    BY <2>3, <2>4, <2>5, <2>6 DEF Accepts
  <2> QED
    BY <2>5, <2>7 DEF Does
<1>8. CASE RejectCall(u)
  <2>1. PICK f : f = Rejected(F)
    OBVIOUS
  <2>2. fe' = [fe EXCEPT ![u] = f]
    BY <1>8, <2>1 DEF RejectCall
  <2>3. Is(f, "idle", 0, FALSE, F.camera, F.waits)
    BY <1>1, <2>1 DEF Is, Browsers, Rejected
  <2>4. UNCHANGED <<rows, down, online, drops>> /\ UNCHANGED callHistory /\ Rings(F)
    BY <1>8 DEF RejectCall
  <2>5. G = f /\ Rest
    BY <1>2, <1>5, <2>2, <2>4
  <2>6. Sends(jobs, jobs', "reject", u, F.callId)
    BY <1>1, <1>8, Emits DEF RejectCall
  <2>7. Rejects(u, F, G, jobs, jobs', down[u], down'[u])
    BY <2>3, <2>4, <2>5, <2>6 DEF Rejects
  <2> QED
    BY <2>5, <2>7 DEF Does
<1>9. ASSUME EndCall(u), down' = down \/ (Taken(u) /\ Hears(u, {"rejected", "ended"})),
             UNCHANGED <<rows, online, drops>>
      PROVE  Goal
  <2>1. PICK f : f = Ended(F)
    OBVIOUS
  <2>2. fe' = [fe EXCEPT ![u] = f]
    BY <1>9, <2>1 DEF EndCall
  <2>3. Is(f, "idle", 0, FALSE, IF F.camera = "lost" THEN "lost" ELSE "off", F.waits)
    BY <2>1 DEF Is, Ended, Idle
  <2>4. (u \in calm' => F.waits = {}) /\ calm' \subseteq calm /\ crossed' = crossed
    BY <1>3, <1>9 DEF EndCall
  <2>5. G = f /\ Rest
    BY <1>2, <1>9, <2>2, <2>4
  <2>6. down'[u] = down[u] \/ (down[u] # <<>> /\ down'[u] = Tail(down[u]) /\ IsOver(Head(down[u])))
    BY <1>4, <1>9 DEF IsOver
  <2>7. PICK lost \in SUBSET {j \in 1..MaxJobs : /\ fe[u].peer /\ jobs[j].user = u
                                                /\ jobs[j].kind \in {"offer", "answer"}
                                                /\ jobs[j].at = "sent"} :
          IF fe[u].callId = 0
          THEN jobs' = Without(lost)
          ELSE /\ HasRoom(Without(lost))
               /\ jobs' = With(Without(lost), "end", u, Nobody, fe[u].callId)
    BY <1>9 DEF EndCall
  <2>8. \A i \in Places \intersect lost : jobs[i].kind \notin Turning
    BY DEF Turning
  <2>9. IF F.callId = 0 THEN Thins(jobs, jobs') ELSE Sends(jobs, jobs', "end", u, F.callId)
    <3>1. CASE F.callId = 0
      <4>1. jobs' = Without(lost)
        BY <2>7, <3>1
      <4> QED
        BY <2>8, <3>1, <4>1 DEF Thins, Without, Places
    <3>2. CASE F.callId # 0
      <4>1. PICK js : js = Without(lost)
        OBVIOUS
      <4>2. HasRoom(js) /\ jobs' = With(js, "end", u, Nobody, F.callId)
        BY <2>7, <3>2, <4>1
      <4> QED
        BY <1>1, <2>8, <3>2, <4>1, <4>2, EmitSends
    <3> QED
      BY <3>1, <3>2
  <2>10. EndsCall(u, F, G, jobs, jobs', down[u], down'[u], u \in calm')
    BY <2>3, <2>4, <2>5, <2>6, <2>9 DEF EndsCall
  <2> QED
    BY <2>5, <2>10 DEF Does
<1>10. CASE HangUp(u) \/ PeerFails(u) \/ HearOver(u)
  BY <1>9, <1>10 DEF HangUp, PeerFails, HearOver
<1>11. ASSUME NEW w \in F.waits, DialGranted(u, w) PROVE Goal
  <2>1. PICK f : f = [WithCamera(F) EXCEPT !.waits = F.waits \ {w}, !.status = "ringing"]
    OBVIOUS
  <2>2. fe' = [fe EXCEPT ![u] = f]
    BY <1>1, <1>11, <2>1 DEF DialGranted, WithCamera
  <2>3. Is(f, "ringing", F.callId, F.isIncoming, Filming(F), F.waits \ {w})
    BY <1>1, <2>1 DEF Is, Browsers, WithCamera, Filming
  <2>4. UNCHANGED <<rows, down, online, drops>> /\ UNCHANGED callHistory /\ w.call = 0
    BY <1>11 DEF DialGranted
  <2>5. G = f /\ Rest
    BY <1>2, <1>5, <2>2, <2>4
  <2>6. Sends(jobs, jobs', "start", u, 0)
    BY <1>1, <1>11, Emits DEF DialGranted
  <2>7. DialGoesOut(u, F, G, jobs, jobs', down[u], down'[u])
    BY <2>3, <2>4, <2>5, <2>6 DEF DialGoesOut
  <2> QED
    BY <2>5, <2>7 DEF Does
<1>12. ASSUME NEW w \in F.waits, DialDenied(u, w) PROVE Goal
  <2>1. PICK f : f = [F EXCEPT !.waits = F.waits \ {w}, !.status = "idle"]
    OBVIOUS
  <2>2. fe' = [fe EXCEPT ![u] = f]
    BY <1>1, <1>12, <2>1 DEF DialDenied
  <2>3. Is(f, "idle", F.callId, F.isIncoming, F.camera, F.waits \ {w})
    BY <1>1, <2>1 DEF Is, Browsers
  <2>4. UNCHANGED <<rows, jobs, down, online, drops>> /\ UNCHANGED callHistory /\ w.call = 0
    BY <1>12 DEF DialDenied
  <2>5. G = f /\ Rest
    BY <1>2, <1>5, <2>2, <2>4
  <2>6. DialIsDropped(u, F, G, jobs, jobs', down[u], down'[u])
    BY <2>3, <2>4, <2>5 DEF DialIsDropped
  <2> QED
    BY <2>5, <2>6 DEF Does
<1>13. ASSUME NEW w \in F.waits, AcceptGranted(u, w) PROVE Goal
  <2>1. PICK f : f = [WithCamera(F) EXCEPT !.waits = F.waits \ {w}, !.callId = w.call]
    OBVIOUS
  <2>2. fe' = [fe EXCEPT ![u] = f]
    BY <1>1, <1>13, <2>1 DEF AcceptGranted, WithCamera
  <2>3. Is(f, F.status, w.call, F.isIncoming, Filming(F), F.waits \ {w})
    BY <1>1, <2>1 DEF Is, Browsers, WithCamera, Filming
  <2>4. UNCHANGED <<rows, down, online, drops>> /\ UNCHANGED callHistory /\ w.call # 0
    BY <1>13 DEF AcceptGranted
  <2>5. G = f /\ Rest
    BY <1>2, <1>5, <2>2, <2>4
  <2>6. Sends(jobs, jobs', "accept", u, w.call)
    BY <1>1, <1>13, Emits DEF AcceptGranted
  <2>7. AcceptGoesOut(u, F, G, jobs, jobs', down[u], down'[u])
    BY <2>3, <2>4, <2>5, <2>6 DEF AcceptGoesOut
  <2> QED
    BY <2>5, <2>7 DEF Does
<1>14. ASSUME NEW w \in F.waits, AcceptDenied(u, w) PROVE Goal
  <2>1. PICK f : f = [Rejected(F) EXCEPT !.waits = F.waits \ {w}]
    OBVIOUS
  <2>2. fe' = [fe EXCEPT ![u] = f]
    BY <1>1, <1>14, <2>1 DEF AcceptDenied, Rejected
  <2>3. Is(f, "idle", 0, FALSE, F.camera, F.waits \ {w})
    BY <1>1, <2>1 DEF Is, Browsers, Rejected
  <2>4. UNCHANGED <<rows, down, online, drops>> /\ UNCHANGED callHistory /\ w.call # 0
    BY <1>14 DEF AcceptDenied
  <2>5. G = f /\ Rest
    BY <1>2, <1>5, <2>2, <2>4
  <2>6. Sends(jobs, jobs', "reject", u, w.call)
    BY <1>1, <1>14, Emits DEF AcceptDenied
  <2>7. AcceptIsDropped(u, F, G, jobs, jobs', down[u], down'[u])
    BY <2>3, <2>4, <2>5, <2>6 DEF AcceptIsDropped
  <2> QED
    BY <2>5, <2>7 DEF Does
<1>15. CASE HearIncoming(u)
  <2>1. PICK f : f = [F EXCEPT !.callId = Head(down[u]).call, !.isIncoming = TRUE, !.status = "ringing"]
    OBVIOUS
  <2>2. fe' = [fe EXCEPT ![u] = f]
    BY <1>1, <1>15, <2>1 DEF HearIncoming
  <2>3. Is(f, "ringing", Head(down[u]).call, TRUE, F.camera, F.waits)
    BY <1>1, <2>1 DEF Is, Browsers
  <2>4. (u \in calm' => F = Idle) /\ calm' \subseteq calm /\ crossed' = crossed
    BY <1>3, <1>15 DEF HearIncoming
  <2>5. UNCHANGED <<rows, jobs, online, drops>> /\ Taken(u) /\ Hears(u, {"incoming"})
    BY <1>15 DEF HearIncoming
  <2>6. G = f /\ Rest
    BY <1>2, <2>2, <2>4, <2>5
  <2>7. HearsNext(down[u], down'[u], "incoming")
    BY <1>4, <2>5 DEF HearsNext
  <2>8. HearsIncoming(u, F, G, jobs, jobs', down[u], down'[u], u \in calm')
    BY <2>3, <2>4, <2>5, <2>6, <2>7 DEF HearsIncoming
  <2> QED
    BY <2>6, <2>8 DEF Does
<1>16. CASE HearAccepted(u)
  <2>1. PICK f : f = WithPeer([F EXCEPT !.callId = Head(down[u]).call, !.status = "connecting"])
    OBVIOUS
  <2>2. fe' = [fe EXCEPT ![u] = f]
    BY <1>1, <1>16, <2>1 DEF HearAccepted
  <2>3. Is(f, "connecting", Head(down[u]).call, F.isIncoming, F.camera, F.waits)
    BY <1>1, <2>1 DEF Is, Browsers, WithPeer
  <2>4. (u \in calm' => F.status = "ringing" /\ ~F.isIncoming) /\ calm' \subseteq calm /\ crossed' = crossed
    BY <1>3, <1>16 DEF HearAccepted
  <2>5. UNCHANGED <<rows, online, drops>> /\ Taken(u) /\ Hears(u, {"accepted"})
    BY <1>16 DEF HearAccepted
  <2>6. G = f /\ Rest
    BY <1>2, <2>2, <2>4, <2>5
  <2>7. HearsNext(down[u], down'[u], "accepted")
    BY <1>4, <2>5 DEF HearsNext
  <2>8. Sends(jobs, jobs', "offer", u, Head(down[u]).call)
    BY <1>1, <1>16, Emits DEF HearAccepted
  <2>9. HearsAccepted(u, F, G, jobs, jobs', down[u], down'[u], u \in calm')
    BY <2>3, <2>4, <2>6, <2>7, <2>8 DEF HearsAccepted
  <2> QED
    BY <2>6, <2>9 DEF Does
<1>17. CASE HearOffer(u)
  <2>1. PICK status \in {F.status, "active"} : fe' = [fe EXCEPT ![u] = WithPeer([fe[u] EXCEPT !.status = status])]
    BY <1>1, <1>17 DEF HearOffer
  <2>2. PICK f : f = WithPeer([F EXCEPT !.status = status])
    OBVIOUS
  <2>3. Is(f, status, F.callId, F.isIncoming, F.camera, F.waits)
    BY <1>1, <2>2 DEF Is, Browsers, WithPeer
  <2>4. UNCHANGED <<rows, online, drops>> /\ UNCHANGED callHistory /\ Taken(u) /\ Hears(u, {"offer"})
    BY <1>17 DEF HearOffer
  <2>5. G = f /\ Rest
    BY <1>2, <1>5, <2>1, <2>2, <2>4
  <2>6. HearsNext(down[u], down'[u], "offer")
    BY <1>4, <2>4 DEF HearsNext
  <2>7. Sends(jobs, jobs', "answer", u, Head(down[u]).call)
    BY <1>1, <1>17, Emits DEF HearOffer
  <2>8. HearsMedia(u, F, G, jobs, jobs', down[u], down'[u])
    BY <2>3, <2>5, <2>6, <2>7 DEF HearsMedia
  <2> QED
    BY <2>5, <2>8 DEF Does
<1>18. CASE HearAnswer(u)
  <2>1. PICK status \in {F.status, "active"} : fe' = [fe EXCEPT ![u].status = status]
    BY <1>18 DEF HearAnswer
  <2>2. PICK f : f = [F EXCEPT !.status = status]
    OBVIOUS
  <2>3. Is(f, status, F.callId, F.isIncoming, F.camera, F.waits)
    BY <1>1, <2>2 DEF Is, Browsers
  <2>4. UNCHANGED <<rows, jobs, online, drops>> /\ UNCHANGED callHistory /\ Taken(u) /\ Hears(u, {"answer"})
    BY <1>18 DEF HearAnswer
  <2>5. G = f /\ Rest
    BY <1>1, <1>2, <1>5, <2>1, <2>2, <2>4
  <2>6. HearsNext(down[u], down'[u], "answer")
    BY <1>4, <2>4 DEF HearsNext
  <2>7. HearsMedia(u, F, G, jobs, jobs', down[u], down'[u])
    BY <2>3, <2>4, <2>5, <2>6 DEF HearsMedia
  <2> QED
    BY <2>5, <2>7 DEF Does
<1> QED
  BY <1>6, <1>7, <1>8, <1>10, <1>11, <1>12, <1>13, <1>14, <1>15, <1>16, <1>17, <1>18 DEF Hear, Settle

-----------------------------------------------------------------------------
(* Updates of a session that do not overlap.                               *)

UpdatingKept(js, js2) ==
  \A i \in Places : UpdatingJob(js2[i]) => /\ UpdatingJob(js[i])
                                        /\ js2[i].call = js[i].call /\ js2[i].seen = js[i].seen

\* No browser touches an update of a row.
LEMMA BrowsersUpdateNothing ==
  ASSUME NEW u, NEW f, NEW g, NEW js, NEW js2, NEW q, NEW q2, NEW ready, Does(u, f, g, js, js2, q, q2, ready)
  PROVE  UpdatingKept(js, js2)
<1>1. ~UpdatingJob(NoJob)
  BY DEF UpdatingJob, NoJob
<1>2. Thins(js, js2) => UpdatingKept(js, js2)
  BY <1>1 DEF Thins, UpdatingKept
<1>3. ASSUME NEW kind, NEW call, Sends(js, js2, kind, u, call) PROVE UpdatingKept(js, js2)
  <2>1. \A w : w.at = "sent" => ~UpdatingJob(w)
    BY DEF UpdatingJob
  <2> QED
    BY <1>1, <1>3, <2>1 DEF Sends, UpdatingKept
<1>4. js2 = js => UpdatingKept(js, js2)
  BY DEF UpdatingKept
<1> QED
  BY <1>2, <1>3, <1>4 DEF Does, Initiates, Accepts, Rejects, EndsCall, DialGoesOut, DialIsDropped, AcceptGoesOut,
     AcceptIsDropped, HearsIncoming, HearsAccepted, HearsMedia

\* A time an entity has got it keeps.
LEMMA TimesKept ==
  ASSUME NEW s \in Sessions, NEW status \in Statuses, NEW t \in Columns \ {"status"}, s[t]
  PROVE  WithStatus(s, status)[t]
BY DEF WithStatus, Sessions, Columns

\* Only the update that is under way writes a row, and it holds the row as it
\* is: what it writes has the times that the row has.
LEMMA LoneStep ==
  ASSUME Fits, Lone, [CallNext]_callVars
  PROVE  /\ Lone'
         /\ \A c \in DOMAIN rows \ crossed' : \A t \in Columns \ {"status"} : rows[c][t] => rows'[c][t]
<1> DEFINE Times == \A c \in DOMAIN rows \ crossed' : \A t \in Columns \ {"status"} : rows[c][t] => rows'[c][t]
<1>1. /\ JobsOK(jobs, rows) /\ RowsOK(rows) /\ rows \in Seq(Sessions)
      /\ jobs \in [Places -> Jobs \union {NoJob}]
  BY DEF Fits, JobsOK, RowsOK
<1>2. ~UpdatingJob(NoJob)
  BY DEF UpdatingJob, NoJob
<1>3. ASSUME NEW i \in Places, UpdatingJob(jobs[i])
      PROVE  /\ jobs[i].call \in DOMAIN rows /\ jobs[i].seen \in Sessions /\ jobs[i].kind \in Turning
             /\ jobs[i] \in Jobs
  <2>1. jobs[i] # NoJob
    BY <1>2, <1>3
  <2> QED
    BY <1>1, <1>3, <2>1, JobAt DEF UpdatingJob, Turning
<1>4. ASSUME UpdatingKept(jobs, jobs'), crossed \subseteq crossed', \A c \in DOMAIN rows : rows'[c] = rows[c]
      PROVE  Lone' /\ Times
  BY <1>3, <1>4 DEF Lone, UpdatingKept
<1>5. ASSUME NEW j \in Places, NEW w, jobs' = [jobs EXCEPT ![j] = w], ~UpdatingJob(w)
      PROVE  UpdatingKept(jobs, jobs')
  BY <1>1, <1>5 DEF UpdatingKept
<1>6. ASSUME NEW j \in Places, JobDone(j)
      PROVE  UpdatingKept(jobs, jobs')
  BY <1>2, <1>5, <1>6 DEF JobDone
<1>7. ASSUME NEW j \in Places, NEW at \in {"insert", "notify"}, JobGoes(j, at), jobs[j] # NoJob
      PROVE  UpdatingKept(jobs, jobs')
  <2>1. jobs[j] \in Jobs
    BY <1>1, <1>7
  <2>2. PICK w : w = [jobs[j] EXCEPT !.at = at]
    OBVIOUS
  <2>3. w.at = at /\ jobs' = [jobs EXCEPT ![j] = w]
    BY <1>7, <2>1, <2>2 DEF JobGoes, Jobs
  <2> QED
    BY <1>5, <2>3 DEF UpdatingJob
<1>8. ASSUME NEW u \in Users,
             \/ \E v \in Users \ {u} : InitiateCall(u, v)
             \/ AcceptCall(u) \/ RejectCall(u) \/ HangUp(u) \/ PeerFails(u)
             \/ Hear(u) \/ Settle(u)
      PROVE  Lone' /\ Times
  BY <1>4, <1>8, BrowserStep, BrowsersUpdateNothing
<1>9. ASSUME NEW u \in Users, Drop(u) PROVE Lone' /\ Times
  <2>1. UpdatingKept(jobs, jobs')
    BY <1>2, <1>9 DEF Drop, Without, UpdatingKept, Places
  <2> QED
    BY <1>4, <1>9, <2>1 DEF Drop, callHistory
<1>10. ASSUME NEW u \in Users, Reconnect(u) PROVE Lone' /\ Times
  BY <1>4, <1>10 DEF Reconnect, callHistory, UpdatingKept
<1>11. ASSUME NEW j \in Places, CheckStart(j) PROVE Lone' /\ Times
  <2>1. jobs[j] # NoJob
    BY <1>11, NoJobIs DEF CheckStart, Received
  <2> QED
    BY <1>4, <1>6, <1>7, <1>11, <2>1 DEF CheckStart, callHistory
<1>12. ASSUME NEW j \in Places, InsertStart(j) PROVE Lone' /\ Times
  <2>1. jobs[j].at = "insert" /\ jobs[j] # NoJob
    BY <1>12, NoJobIs DEF InsertStart
  <2>2. /\ jobs[j].user \in Users /\ jobs[j].to \in Users \ {jobs[j].user}
    BY <1>1, <2>1, JobAt
  <2>3. PICK new : new = NewSession(jobs[j].user, jobs[j].to, FALSE)
    OBVIOUS
  <2>4. \A c \in DOMAIN rows : rows'[c] = rows[c]
    <3>1. new \in Sessions
      BY <2>2, <2>3 DEF NewSession, NoSession, Sessions, Statuses
    <3>2. rows' = Append(rows, new)
      BY <1>12, <2>3 DEF InsertStart
    <3> QED
      BY <1>1, <3>1, <3>2
  <2> QED
    BY <1>4, <1>6, <1>12, <2>4 DEF InsertStart, callHistory
<1>13. ASSUME NEW j \in Places, LoadCall(j) PROVE Lone' /\ Times
  <2>1. jobs[j].kind \in Turning /\ jobs[j] # NoJob /\ jobs[j].at = "sent"
    BY <1>13, NoJobIs DEF LoadCall, Received, Turning
  <2>2. jobs[j] \in Jobs
    BY <1>1, <2>1
  <2>3. PICK w : w = [jobs[j] EXCEPT !.at = "select", !.seen = rows[jobs[j].call]]
    OBVIOUS
  <2>4. w.call = jobs[j].call /\ w.seen = rows[jobs[j].call] /\ jobs' = [jobs EXCEPT ![j] = w]
    BY <1>13, <2>2, <2>3 DEF LoadCall, Jobs
  <2>5. crossed \subseteq crossed' /\ rows' = rows
        /\ \A i \in Places : UpdatingJob(jobs[i]) /\ jobs[i].call = jobs[j].call => jobs[j].call \in crossed'
    BY <1>13 DEF LoadCall, UpdatingJob, Places
  <2>6. \A i \in Places \ {j} : jobs'[i] = jobs[i]
    BY <2>4
  <2>7. jobs'[j] = w
    BY <1>1, <2>4
  <2> QED
    BY <2>4, <2>5, <2>6, <2>7 DEF Lone
<1>14. ASSUME NEW j \in Places, SelectCall(j) PROVE Lone' /\ Times
  <2>1. jobs[j].at = "select" /\ jobs[j] # NoJob
    BY <1>14, NoJobIs DEF SelectCall
  <2>2. jobs[j] \in Jobs
    BY <1>1, <2>1
  <2>3. PICK cols : cols = Differing(rows[jobs[j].call], jobs[j].seen, StatusOf(jobs[j].kind))
    OBVIOUS
  <2>4. PICK w : w = [jobs[j] EXCEPT !.at = "update", !.cols = cols]
    OBVIOUS
  <2>5. w.call = jobs[j].call /\ w.seen = jobs[j].seen /\ jobs' = [jobs EXCEPT ![j] = w]
    BY <1>14, <2>2, <2>3, <2>4 DEF SelectCall, Jobs
  <2>6. UpdatingKept(jobs, jobs')
    BY <1>1, <2>1, <2>5 DEF UpdatingKept, UpdatingJob
  <2> QED
    BY <1>4, <1>14, <2>6 DEF SelectCall, callHistory
<1>15. ASSUME NEW j \in Places, NEW kind \in Turning, Writes(j, kind),
              JobDone(j) \/ (kind = "reject" /\ JobGoes(j, "notify"))
       PROVE  Lone' /\ Times
  <2>1. jobs[j] # NoJob /\ jobs[j].call \in DOMAIN rows /\ \A c \in DOMAIN rows : c # jobs[j].call => rows'[c] = rows[c]
    BY <1>15, WritesFits
  <2>2. UpdatingJob(jobs[j]) /\ jobs[j].kind = kind /\ crossed' = crossed
    BY <1>15 DEF Writes, UpdatingJob, callHistory
  <2>3. UpdatingKept(jobs, jobs') /\ ~UpdatingJob(jobs'[j])
    <3>1. CASE JobDone(j)
      BY <1>1, <1>2, <1>6, <3>1 DEF JobDone
    <3>2. CASE JobGoes(j, "notify")
      BY <1>1, <1>7, <2>1, <3>2 DEF JobGoes, UpdatingJob, Jobs
    <3> QED
      BY <1>15, <3>1, <3>2
  <2>4. Lone'
    <3> SUFFICES ASSUME NEW k \in Places, UpdatingJob(jobs'[k]), jobs'[k].call \notin crossed'
                 PROVE  /\ jobs'[k].seen = rows'[jobs'[k].call]
                        /\ \A i \in Places : UpdatingJob(jobs'[i]) /\ jobs'[i].call = jobs'[k].call => i = k
      BY DEF Lone
    <3>1. UpdatingJob(jobs[k]) /\ jobs'[k].call = jobs[k].call /\ jobs'[k].seen = jobs[k].seen
      BY <2>3 DEF UpdatingKept
    <3>2. /\ jobs[k].seen = rows[jobs[k].call]
          /\ \A i \in Places : UpdatingJob(jobs[i]) /\ jobs[i].call = jobs[k].call => i = k
      BY <2>2, <3>1 DEF Lone
    <3>3. jobs[k].call # jobs[j].call
      BY <2>2, <2>3, <3>2
    <3>4. rows'[jobs[k].call] = rows[jobs[k].call]
      BY <1>3, <2>1, <3>1, <3>3
    <3> QED
      BY <2>3, <3>1, <3>2, <3>4 DEF UpdatingKept
  <2>5. Times
    <3> SUFFICES ASSUME NEW c \in DOMAIN rows \ crossed', NEW t \in Columns \ {"status"}, rows[c][t]
                 PROVE  rows'[c][t]
      OBVIOUS
    <3>1. CASE c # jobs[j].call
      BY <2>1, <3>1
    <3>2. CASE c = jobs[j].call
      <4>1. jobs[j].seen = rows[c]
        BY <2>2, <3>2 DEF Lone
      <4>2. PICK st, cols : st = StatusOf(kind) /\ cols = jobs[j].cols
        OBVIOUS
      <4>3. rows[c] \in Sessions /\ cols \in SUBSET Columns /\ st \in Statuses
        BY <1>1, <1>3, <2>2, <4>2 DEF Jobs, StatusOf, Turning, Statuses
      <4>4. PICK new : new = Saved(rows[c], rows[c], st, cols)
        OBVIOUS
      <4>5. rows'[c] = new
        BY <1>1, <1>15, <3>2, <4>1, <4>2, <4>4 DEF Writes
      <4>6. PICK row : row = rows[c]
        OBVIOUS
      <4>7. /\ t \in cols => new[t] = WithStatus(row, st)[t]
            /\ t \notin cols => new[t] = row[t]
        <5>1. t \in Columns /\ row \in Sessions /\ new = Saved(row, row, st, cols)
          BY <4>3, <4>4, <4>6
        <5> QED
          BY <4>3, <5>1, SavedFacts
      <4>8. WithStatus(row, st)[t]
        BY <4>3, <4>6, TimesKept
      <4> QED
        BY <4>5, <4>6, <4>7, <4>8
    <3> QED
      BY <3>1, <3>2
  <2> QED
    BY <2>4, <2>5
<1>16. ASSUME NEW j \in Places, Accepted(j) \/ CallEnded(j) \/ CallRejected(j) PROVE Lone' /\ Times
  BY <1>15, <1>16 DEF Accepted, CallEnded, CallRejected, Turning
<1>17. ASSUME NEW j \in Places, NotifyRejected(j) \/ ForwardOffer(j) \/ ForwardAnswer(j) \/ Fail(j)
       PROVE  Lone' /\ Times
  BY <1>4, <1>6, <1>17 DEF NotifyRejected, ForwardOffer, ForwardAnswer, Forward, Fail, callHistory
<1>18. CASE UNCHANGED callVars
  BY <1>4, <1>18 DEF callVars, callHistory, UpdatingKept
<1> QED
  BY <1>8, <1>9, <1>10, <1>11, <1>12, <1>13, <1>14, <1>16, <1>17, <1>18 DEF CallNext, Gateway, Places

-----------------------------------------------------------------------------
(* A browser that has one thing to do at a time.                           *)

\* Who showed an incoming call, or hears of one, shows it.
RingsFrom(f, g, q) ==
  g.isIncoming => \/ f.isIncoming /\ g.callId = f.callId
                  \/ q # <<>> /\ Head(q).what = "incoming" /\ g.callId = Head(q).call

\* A browser that has one thing to do at a time, and is ready for what happens to
\* it, is as it was meant to be.
LEMMA ProperKept ==
  ASSUME NEW u, NEW f \in Browsers, NEW g, NEW js, NEW js2, NEW q, NEW q2, NEW ready,
         Does(u, f, g, js, js2, q, q2, ready), ready, Proper(f)
  PROVE  Proper(g) /\ RingsFrom(f, g, q)
<1> USE DEF RingsFrom
<1>1. CASE Initiates(u, f, g, js, js2, q, q2, ready)
  <2>1. f.callId = 0 /\ ~f.isIncoming /\ f.camera = "off" /\ f.waits = {}
    BY <1>1 DEF Initiates, Idle
  <2>2. PICK w : w.call = 0 /\ Is(g, "initiating", f.callId, f.isIncoming, f.camera, f.waits \union {w})
    BY <1>1 DEF Initiates
  <2>3. g.waits = {w} /\ g.status = "initiating" /\ g.callId = 0 /\ ~g.isIncoming /\ g.camera = "off"
    BY <2>1, <2>2 DEF Is
  <2> QED
    BY <2>2, <2>3 DEF Proper, Rings
<1>2. CASE Accepts(u, f, g, js, js2, q, q2)
  <2>1. f.isIncoming /\ f.status = "ringing" /\ f.callId # 0 /\ f.camera = "off" /\ f.waits = {}
    BY <1>2 DEF Accepts, Rings, Proper
  <2>2. PICK w : w.call = f.callId /\ Is(g, "connecting", f.callId, f.isIncoming, f.camera, f.waits \union {w})
    BY <1>2 DEF Accepts
  <2>3. g.waits = {w} /\ g.status = "connecting" /\ g.callId = f.callId /\ g.isIncoming /\ g.camera = "off"
    BY <2>1, <2>2 DEF Is
  <2> QED
    BY <2>1, <2>2, <2>3 DEF Proper, Rings
<1>3. CASE Rejects(u, f, g, js, js2, q, q2)
  <2>1. f.camera = "off" /\ f.waits = {}
    BY <1>3 DEF Rejects, Rings, Proper
  <2> QED
    BY <1>3, <2>1 DEF Rejects, Is, Proper, Rings
<1>4. CASE EndsCall(u, f, g, js, js2, q, q2, ready)
  <2>1. f.camera # "lost" /\ f.waits = {}
    BY <1>4 DEF EndsCall, Proper
  <2> QED
    BY <1>4, <2>1 DEF EndsCall, Is, Proper, Rings
<1>5. ASSUME NEW w \in f.waits
      PROVE  /\ f.camera = "off" /\ f.waits = {w} /\ f.waits \ {w} = {} /\ f.status \notin {"idle", "ringing"}
             /\ IF w.call = 0 THEN f.callId = 0 /\ ~f.isIncoming ELSE w.call = f.callId /\ f.isIncoming
  BY DEF Proper
<1>6. CASE DialGoesOut(u, f, g, js, js2, q, q2)
  <2>1. PICK w \in f.waits : w.call = 0 /\ Is(g, "ringing", f.callId, f.isIncoming, Filming(f), f.waits \ {w})
    BY <1>6 DEF DialGoesOut
  <2>2. g.status = "ringing" /\ g.callId = 0 /\ ~g.isIncoming /\ g.camera = "held" /\ g.waits = {}
    BY <1>5, <2>1 DEF Is, Filming
  <2> QED
    BY <2>2 DEF Proper, Rings
<1>7. CASE DialIsDropped(u, f, g, js, js2, q, q2)
  <2>1. PICK w \in f.waits : w.call = 0 /\ Is(g, "idle", f.callId, f.isIncoming, f.camera, f.waits \ {w})
    BY <1>7 DEF DialIsDropped
  <2>2. g.status = "idle" /\ g.callId = 0 /\ ~g.isIncoming /\ g.camera = "off" /\ g.waits = {}
    BY <1>5, <2>1 DEF Is
  <2> QED
    BY <2>2 DEF Proper, Rings
<1>8. CASE AcceptGoesOut(u, f, g, js, js2, q, q2)
  <2>1. PICK w \in f.waits : w.call # 0 /\ Is(g, f.status, w.call, f.isIncoming, Filming(f), f.waits \ {w})
    BY <1>8 DEF AcceptGoesOut
  <2>2. g.status \notin {"idle", "ringing"} /\ g.callId = f.callId /\ f.isIncoming /\ g.camera = "held" /\ g.waits = {}
    BY <1>5, <2>1 DEF Is, Filming
  <2> QED
    BY <2>2 DEF Proper, Rings
<1>9. CASE AcceptIsDropped(u, f, g, js, js2, q, q2)
  <2>1. PICK w \in f.waits : w.call # 0 /\ Is(g, "idle", 0, FALSE, f.camera, f.waits \ {w})
    BY <1>9 DEF AcceptIsDropped
  <2>2. g.status = "idle" /\ g.callId = 0 /\ ~g.isIncoming /\ g.camera = "off" /\ g.waits = {}
    BY <1>5, <2>1 DEF Is
  <2> QED
    BY <2>2 DEF Proper, Rings
<1>10. CASE HearsIncoming(u, f, g, js, js2, q, q2, ready)
  <2>1. f.camera = "off" /\ f.waits = {}
    BY <1>10 DEF HearsIncoming, Idle
  <2> QED
    BY <1>10, <2>1 DEF HearsIncoming, HearsNext, Is, Proper, Rings
<1>11. CASE HearsAccepted(u, f, g, js, js2, q, q2, ready)
  <2>1. f.camera # "lost" /\ f.waits = {} /\ ~f.isIncoming
    BY <1>11 DEF HearsAccepted, Proper
  <2> QED
    BY <1>11, <2>1 DEF HearsAccepted, Is, Proper, Rings
<1>12. CASE HearsMedia(u, f, g, js, js2, q, q2)
  <2>1. PICK status \in {f.status, "active"} : Is(g, status, f.callId, f.isIncoming, f.camera, f.waits)
    BY <1>12 DEF HearsMedia
  <2> QED
    BY <2>1 DEF Is, Proper, Rings
<1> QED
  BY <1>1, <1>2, <1>3, <1>4, <1>6, <1>7, <1>8, <1>9, <1>10, <1>11, <1>12 DEF Does

\* The steps that leave every browser, and what it had to do, as they are.
LEMMA OthersShowTheSame ==
  ASSUME [CallNext]_callVars
  PROVE  \/ \E u \in Users :
              \/ \E v \in Users \ {u} : InitiateCall(u, v)
              \/ AcceptCall(u) \/ RejectCall(u) \/ HangUp(u) \/ PeerFails(u)
              \/ Hear(u) \/ Settle(u)
         \/ fe' = fe /\ calm' = calm
<1>1. ASSUME NEW j \in Places, Gateway(j) \/ Fail(j) PROVE fe' = fe /\ calm' = calm
  <2>1. CASE CheckStart(j) \/ InsertStart(j) \/ LoadCall(j) \/ SelectCall(j)
    BY <2>1 DEF CheckStart, InsertStart, LoadCall, SelectCall, callHistory
  <2>2. CASE Accepted(j) \/ CallEnded(j) \/ CallRejected(j) \/ NotifyRejected(j)
    BY <2>2 DEF Accepted, CallEnded, CallRejected, NotifyRejected, Writes, callHistory
  <2>3. CASE ForwardOffer(j) \/ ForwardAnswer(j) \/ Fail(j)
    BY <2>3 DEF ForwardOffer, ForwardAnswer, Forward, Fail, callHistory
  <2> QED
    BY <1>1, <2>1, <2>2, <2>3 DEF Gateway
<1>2. ASSUME NEW u \in Users, Drop(u) \/ Reconnect(u) PROVE fe' = fe /\ calm' = calm
  BY <1>2 DEF Drop, Reconnect, callHistory
<1>3. CASE UNCHANGED callVars
  BY <1>3 DEF callVars, callHistory
<1>4. CASE CallNext
  BY <1>1, <1>2, <1>4 DEF CallNext, Places
<1> QED
  BY <1>3, <1>4

\* Every step keeps Single.
LEMMA SingleStep ==
  ASSUME Fits, Single, Kept(rows, rows'), [CallNext]_callVars
  PROVE  Single'
<1>1. /\ fe \in [Users -> Browsers] /\ FeOK(fe, rows) /\ DownOK(down, rows)
      /\ \A u \in Users : fe[u].isIncoming => fe[u].callId # 0
      /\ \A c \in DOMAIN rows : rows'[c].recipient = rows[c].recipient
  BY DEF Fits, FeOK, Kept
<1>2. \A u \in Users : fe[u].isIncoming => fe[u].callId \in DOMAIN rows
  BY <1>1 DEF FeOK, BrowserOK
<1>3. CASE fe' = fe /\ calm' = calm
  <2>1. calm \subseteq Users
    BY DEF Fits
  <2> QED
    BY <1>1, <1>2, <1>3, <2>1 DEF Single
<1>4. ASSUME NEW u \in Users,
             \/ \E v \in Users \ {u} : InitiateCall(u, v)
             \/ AcceptCall(u) \/ RejectCall(u) \/ HangUp(u) \/ PeerFails(u)
             \/ Hear(u) \/ Settle(u)
      PROVE  Single'
  <2>1. /\ Does(u, fe[u], fe'[u], jobs, jobs', down[u], down'[u], u \in calm')
        /\ \A v \in Users \ {u} : fe'[v] = fe[v]
        /\ rows' = rows /\ calm' \subseteq calm /\ calm \subseteq Users
    BY <1>4, BrowserStep DEF Fits
  <2>2. ASSUME NEW v \in calm', v # u
        PROVE  Proper(fe'[v]) /\ (fe'[v].isIncoming => v = rows'[fe'[v].callId].recipient)
    BY <2>1, <2>2 DEF Single
  <2>3. ASSUME u \in calm'
        PROVE  Proper(fe'[u]) /\ (fe'[u].isIncoming => u = rows'[fe'[u].callId].recipient)
    <3>1. PICK g : g = fe'[u]
      OBVIOUS
    <3>3. Proper(fe[u]) /\ fe[u] \in Browsers /\ (fe[u].isIncoming => u = rows[fe[u].callId].recipient)
      BY <1>1, <2>1, <2>3 DEF Single
    <3>4. Proper(g) /\ RingsFrom(fe[u], g, down[u])
      BY <2>1, <2>3, <3>1, <3>3, ProperKept
    <3>5. down[u] # <<>> /\ Head(down[u]).what = "incoming" => u = rows[Head(down[u]).call].recipient
      <4>1. down[u] \in Seq(Messages)
        BY <1>1 DEF DownOK
      <4>2. down[u] # <<>> => 1 \in DOMAIN down[u] /\ Head(down[u]) = down[u][1]
        BY <4>1
      <4>3. down[u] # <<>> => MessageOK(Head(down[u]), u, rows)
        BY <1>1, <4>2 DEF DownOK
      <4> QED
        BY <4>3 DEF MessageOK
    <3> QED
      BY <2>1, <3>1, <3>3, <3>4, <3>5 DEF RingsFrom
  <2> QED
    BY <2>2, <2>3 DEF Single
<1> QED
  BY <1>3, <1>4, OthersShowTheSame

-----------------------------------------------------------------------------
(* A call of which one side has not heard.                                 *)

\* What is sent names no call but the one it is about.
LEMMA SentNames ==
  ASSUME NEW js, NEW js2, NEW kind, NEW u, NEW call, NEW c, c # 0, call # c, NotInHand(c, js),
         Sends(js, js2, kind, u, call) \/ Thins(js, js2)
  PROVE  NotInHand(c, js2)
<1> USE DEF NotInHand
<1>1. NoJob.call = 0
  BY DEF NoJob
<1>2. CASE Thins(js, js2)
  BY <1>1, <1>2 DEF Thins
<1>3. CASE Sends(js, js2, kind, u, call)
  BY <1>1, <1>3 DEF Sends
<1> QED
  BY <1>2, <1>3

\* A browser that does not show a call, and does not hear of it, goes on so, and
\* sends nothing that names it.
LEMMA DoesNames ==
  ASSUME NEW u, NEW f, NEW g, NEW js, NEW js2, NEW q \in Seq(Messages), NEW q2, NEW ready,
         Does(u, f, g, js, js2, q, q2, ready), NEW c, c # 0,
         NotShown(c, f), NotInHand(c, js),
         q # <<>> /\ q2 # q => Head(q).call # c
  PROVE  NotInHand(c, js2) /\ NotShown(c, g)
<1>1. q # <<>> => Tail(q) # q
  <2>1. q # <<>> => Len(Tail(q)) # Len(q)
    OBVIOUS
  <2> QED
    BY <2>1
<1>2. CASE Initiates(u, f, g, js, js2, q, q2, ready)
  BY <1>2 DEF Initiates, Is, NotShown
<1>3. CASE Accepts(u, f, g, js, js2, q, q2)
  BY <1>3 DEF Accepts, Is, NotShown
<1>4. CASE Rejects(u, f, g, js, js2, q, q2)
  BY <1>4, SentNames DEF Rejects, Is, NotShown
<1>5. CASE EndsCall(u, f, g, js, js2, q, q2, ready)
  <2>1. g.callId = 0 /\ g.waits = f.waits
    BY <1>5 DEF EndsCall, Is
  <2>2. NotInHand(c, js2)
    BY <1>5, SentNames DEF EndsCall, NotShown
  <2> QED
    BY <2>1, <2>2 DEF NotShown
<1>6. CASE DialGoesOut(u, f, g, js, js2, q, q2)
  BY <1>6, SentNames DEF DialGoesOut, Is, NotShown
<1>7. CASE DialIsDropped(u, f, g, js, js2, q, q2)
  BY <1>7 DEF DialIsDropped, Is, NotShown
<1>8. CASE AcceptGoesOut(u, f, g, js, js2, q, q2)
  BY <1>8, SentNames DEF AcceptGoesOut, Is, NotShown
<1>9. CASE AcceptIsDropped(u, f, g, js, js2, q, q2)
  BY <1>9, SentNames DEF AcceptIsDropped, Is, NotShown
<1>10. CASE HearsIncoming(u, f, g, js, js2, q, q2, ready)
  BY <1>1, <1>10 DEF HearsIncoming, HearsNext, Is, NotShown
<1>11. CASE HearsAccepted(u, f, g, js, js2, q, q2, ready)
  <2>1. g.callId = Head(q).call /\ g.waits = f.waits /\ Head(q).call # c
    BY <1>1, <1>11 DEF HearsAccepted, HearsNext, Is
  <2>2. NotInHand(c, js2)
    BY <1>11, <2>1, SentNames DEF HearsAccepted
  <2> QED
    BY <2>1, <2>2 DEF NotShown
<1>12. CASE HearsMedia(u, f, g, js, js2, q, q2)
  <2>1. g.callId = f.callId /\ g.waits = f.waits
    BY <1>12 DEF HearsMedia, Is
  <2>2. NotInHand(c, js2)
    BY <1>1, <1>12, SentNames DEF HearsMedia, HearsNext
  <2> QED
    BY <2>1, <2>2 DEF NotShown
<1> QED
  BY <1>2, <1>3, <1>4, <1>5, <1>6, <1>7, <1>8, <1>9, <1>10, <1>11, <1>12 DEF Does

\* A browser hears one message at most.
LEMMA DoesHear ==
  ASSUME NEW u, NEW f, NEW g, NEW js, NEW js2, NEW q, NEW q2, NEW ready, Does(u, f, g, js, js2, q, q2, ready)
  PROVE  q2 = q \/ (q # <<>> /\ q2 = Tail(q))
BY DEF Does, Initiates, Accepts, Rejects, EndsCall, DialGoesOut, DialIsDropped, AcceptGoesOut, AcceptIsDropped,
       HearsIncoming, HearsAccepted, HearsMedia, HearsNext

\* A step of a browser leaves the calls alone of which one side has not heard.
LEMMA UnheardBrowser ==
  ASSUME Fits, Unheard, NEW u \in Users,
         Does(u, fe[u], fe'[u], jobs, jobs', down[u], down'[u], u \in calm'),
         \A v \in Users \ {u} : fe'[v] = fe[v] /\ down'[v] = down[v], rows' = rows
  PROVE  Unheard'
<1>1. down \in [Users -> Seq(Messages)] /\ DownOK(down, rows) /\ RowsOK(rows)
  BY DEF Fits, DownOK
<1> DEFINE q == down[u]
           q2 == down'[u]
<1>2. q \in Seq(Messages)
  BY <1>1
<1>3. q2 = q \/ (q # <<>> /\ q2 = Tail(q))
  BY DoesHear
<1>4. q # <<>> => 1 \in DOMAIN q /\ Head(q) = q[1]
  BY <1>2
<1>5. q # <<>> /\ q2 = Tail(q) => \A i \in DOMAIN q2 : i + 1 \in DOMAIN q /\ q2[i] = q[i + 1] /\ i + 1 # 1 /\ i \in Nat
  BY <1>2
<1> SUFFICES ASSUME NEW v \in Users, NEW i \in DOMAIN down'[v], down'[v][i].what = "incoming",
                    NEW c, c = down'[v][i].call
             PROVE  rows'[c].status = "pending" /\ NamedOnlyAt(c, v, i, down') /\ Unnamed(c, jobs', fe')
  BY DEF Unheard
<1>6. ASSUME NEW k \in DOMAIN down[v], down[v][k] = down'[v][i], v = u /\ q2 # q => k # 1
      PROVE  /\ rows'[c].status = "pending" /\ Unnamed(c, jobs', fe')
             /\ NamedOnlyAt(c, v, k, down)
  <2>1. rows[c].status = "pending" /\ NamedOnlyAt(c, v, k, down) /\ Unnamed(c, jobs, fe)
    BY <1>6 DEF Unheard
  <2>2. c \in DOMAIN rows /\ c # 0
    <3>1. MessageOK(down[v][k], v, rows)
      BY <1>1, <1>6 DEF DownOK
    <3> QED
      BY <1>1, <1>6, <3>1 DEF MessageOK, RowsOK
  <2>3. q # <<>> /\ q2 # q => Head(q).call # c
    BY <1>4, <1>6, <2>1 DEF NamedOnlyAt
  <2>4. NotShown(c, fe[u]) /\ NotInHand(c, jobs)
    BY <2>1 DEF Unnamed
  <2>5. PICK g, js2 : g = fe'[u] /\ js2 = jobs'
    OBVIOUS
  <2>6. NotInHand(c, js2) /\ NotShown(c, g)
    <3> HIDE DEF q, q2
    <3>1. Does(u, fe[u], g, jobs, js2, q, q2, u \in calm')
      BY <2>5 DEF q, q2
    <3> QED
      BY <1>2, <2>2, <2>3, <2>4, <3>1, DoesNames
  <2>7. Unnamed(c, jobs', fe')
    BY <2>1, <2>5, <2>6 DEF Unnamed
  <2> QED
    BY <2>1, <2>7
<1>7. CASE q2 = q
  <2>1. \A x \in Users : down'[x] = down[x]
    BY <1>7
  <2>2. i \in DOMAIN down[v] /\ down[v][i] = down'[v][i]
    BY <2>1
  <2>3. rows'[c].status = "pending" /\ Unnamed(c, jobs', fe') /\ NamedOnlyAt(c, v, i, down)
    BY <1>6, <1>7, <2>2
  <2> QED
    BY <2>1, <2>3 DEF NamedOnlyAt
<1>8. CASE q # <<>> /\ q2 = Tail(q)
  <2>1. PICK k : k = IF v = u THEN i + 1 ELSE i
    OBVIOUS
  <2>2. k \in DOMAIN down[v] /\ down[v][k] = down'[v][i] /\ (v = u => k # 1)
    BY <1>5, <1>8, <2>1
  <2>3. rows'[c].status = "pending" /\ Unnamed(c, jobs', fe') /\ NamedOnlyAt(c, v, k, down)
    BY <1>6, <2>2
  <2>4. NamedOnlyAt(c, v, i, down')
    <3> SUFFICES ASSUME NEW x \in Users, NEW l \in DOMAIN down'[x], down'[x][l].call = c PROVE x = v /\ l = i
      BY DEF NamedOnlyAt
    <3>1. CASE x # u
      <4>1. down'[x] = down[x]
        BY <3>1
      <4>2. x = v /\ l = k
        BY <2>3, <4>1 DEF NamedOnlyAt
      <4> QED
        BY <2>1, <3>1, <4>2
    <3>2. CASE x = u
      <4>1. l + 1 \in DOMAIN q /\ q[l + 1].call = c /\ l \in Nat
        BY <1>5, <1>8, <3>2
      <4>2. x = v /\ l + 1 = k
        BY <2>3, <3>2, <4>1 DEF NamedOnlyAt
      <4>3. i \in Nat
        BY <1>5, <1>8, <3>2, <4>2
      <4> QED
        BY <2>1, <3>2, <4>1, <4>2, <4>3
    <3> QED
      BY <3>1, <3>2
  <2> QED
    BY <2>3, <2>4
<1> QED
  BY <1>3, <1>7, <1>8

\* A step of the gateway that is not about a row: the message goes on to its
\* next query, or is done with.
Moves(w, x, rs) ==
  \/ w.kind = "start" /\ x = NoJob
  \/ /\ x.kind = w.kind /\ x.user = w.user /\ x.call = w.call
     /\ x.at = "update" => w.kind \in Turning /\ x.cols = Differing(rs[w.call], w.seen, StatusOf(w.kind))

Tells(w) ==
  /\ w.kind \notin {"accept", "end"}
  /\ \E v, what, call : /\ what \in {"rejected", "offer", "answer"}
                        /\ call = 0 \/ (what \in {"offer", "answer"} /\ call = w.call)
                        /\ Notify(v, what, call)

\* Every step of the gateway is one of these, and leaves the browsers alone.
LEMMA GatewayStep ==
  ASSUME Fits, NEW j \in Places, Gateway(j) \/ Fail(j)
  PROVE  /\ fe' = fe /\ online' = online /\ calm' = calm /\ jobs[j] # NoJob
         /\ \A i \in Places \ {j} : jobs'[i] = jobs[i]
         /\ \/ InsertStart(j) \/ Accepted(j) \/ CallEnded(j) \/ CallRejected(j)
            \/ rows' = rows /\ down' = down /\ drops' = drops /\ Moves(jobs[j], jobs'[j], rows)
            \/ rows' = rows /\ drops' = drops /\ jobs'[j] = NoJob /\ Tells(jobs[j])
            \/ rows' = rows /\ down' = down /\ drops' # 0 /\ jobs'[j] = NoJob
<1> DEFINE Same == fe' = fe /\ online' = online /\ calm' = calm
           Others == jobs[j] # NoJob /\ \A i \in Places \ {j} : jobs'[i] = jobs[i]
<1>1. jobs \in [Places -> Jobs \union {NoJob}] /\ JobsOK(jobs, rows) /\ drops \in Nat
  BY BoundsAssumption DEF Fits, JobsOK
<1>2. JobDone(j) => jobs'[j] = NoJob /\ \A i \in Places \ {j} : jobs'[i] = jobs[i]
  BY <1>1 DEF JobDone
<1>3. ASSUME NEW w, jobs' = [jobs EXCEPT ![j] = w]
      PROVE  jobs'[j] = w /\ \A i \in Places \ {j} : jobs'[i] = jobs[i]
  BY <1>1, <1>3
<1>4. CASE CheckStart(j)
  <2>1. jobs[j].kind = "start" /\ jobs[j] # NoJob /\ jobs[j] \in Jobs
    BY <1>1, <1>4, NoJobIs DEF CheckStart, Received
  <2>2. Same /\ rows' = rows /\ down' = down /\ drops' = drops
    BY <1>4 DEF CheckStart, callHistory
  <2>3. CASE JobDone(j)
    BY <1>2, <2>1, <2>2, <2>3 DEF Moves
  <2>4. CASE JobGoes(j, "insert")
    <3>1. PICK w : w = [jobs[j] EXCEPT !.at = "insert"]
      OBVIOUS
    <3>2. w.kind = jobs[j].kind /\ w.user = jobs[j].user /\ w.call = jobs[j].call /\ w.at = "insert"
      BY <2>1, <3>1 DEF Jobs
    <3>3. jobs' = [jobs EXCEPT ![j] = w]
      BY <2>4, <3>1 DEF JobGoes
    <3> QED
      BY <1>3, <2>1, <2>2, <3>2, <3>3 DEF Moves
  <2> QED
    BY <1>4, <2>3, <2>4 DEF CheckStart
<1>5. CASE LoadCall(j)
  <2>1. jobs[j] # NoJob /\ jobs[j] \in Jobs
    BY <1>1, <1>5, NoJobIs DEF LoadCall, Received
  <2>2. Same /\ rows' = rows /\ down' = down /\ drops' = drops
    BY <1>5 DEF LoadCall
  <2>3. PICK w : w = [jobs[j] EXCEPT !.at = "select", !.seen = rows[jobs[j].call]]
    OBVIOUS
  <2>4. w.kind = jobs[j].kind /\ w.user = jobs[j].user /\ w.call = jobs[j].call /\ w.at = "select"
    BY <2>1, <2>3 DEF Jobs
  <2>5. jobs' = [jobs EXCEPT ![j] = w]
    BY <1>5, <2>3 DEF LoadCall
  <2> QED
    BY <1>3, <2>1, <2>2, <2>4, <2>5 DEF Moves
<1>6. CASE SelectCall(j)
  <2>1. jobs[j].at = "select" /\ jobs[j] # NoJob /\ jobs[j] \in Jobs
    BY <1>1, <1>6, NoJobIs DEF SelectCall
  <2>2. jobs[j].kind \in Turning
    BY <1>1, <2>1, JobAt
  <2>3. Same /\ rows' = rows /\ down' = down /\ drops' = drops
    BY <1>6 DEF SelectCall, callHistory
  <2>4. PICK cols : cols = Differing(rows[jobs[j].call], jobs[j].seen, StatusOf(jobs[j].kind))
    OBVIOUS
  <2>5. PICK w : w = [jobs[j] EXCEPT !.at = "update", !.cols = cols]
    OBVIOUS
  <2>6. w.kind = jobs[j].kind /\ w.user = jobs[j].user /\ w.call = jobs[j].call /\ w.cols = cols
    BY <2>1, <2>5 DEF Jobs
  <2>7. jobs' = [jobs EXCEPT ![j] = w]
    BY <1>6, <2>4, <2>5 DEF SelectCall
  <2> QED
    BY <1>3, <2>1, <2>2, <2>3, <2>4, <2>6, <2>7 DEF Moves
<1>7. CASE InsertStart(j)
  <2>1. jobs[j] # NoJob
    BY <1>7, NoJobIs DEF InsertStart
  <2> QED
    BY <1>2, <1>7, <2>1 DEF InsertStart, callHistory
<1>8. ASSUME NEW kind \in Turning, Writes(j, kind), JobDone(j) \/ JobGoes(j, "notify") PROVE Same /\ Others
  <2>1. jobs[j] # NoJob
    BY <1>8, WritesFits
  <2>2. JobDone(j) \/ JobGoes(j, "notify") => \A i \in Places \ {j} : jobs'[i] = jobs[i]
    BY <1>1, <1>2 DEF JobGoes
  <2> QED
    BY <1>8, <2>1, <2>2 DEF Writes, callHistory
<1>9. CASE Accepted(j) \/ CallEnded(j) \/ CallRejected(j)
  BY <1>8, <1>9 DEF Accepted, CallEnded, CallRejected, Turning
<1>10. CASE NotifyRejected(j)
  <2>1. jobs[j].at = "notify" /\ jobs[j] # NoJob
    BY <1>10, NoJobIs DEF NotifyRejected
  <2>2. jobs[j].kind = "reject"
    BY <1>1, <2>1, JobAt
  <2>3. Tells(jobs[j])
    BY <1>10, <2>2 DEF NotifyRejected, Tells
  <2> QED
    BY <1>2, <1>10, <2>1, <2>3 DEF NotifyRejected, callHistory
<1>11. ASSUME NEW kind \in {"offer", "answer"}, Forward(j, kind)
       PROVE  Same /\ Others /\ rows' = rows /\ drops' = drops /\ jobs'[j] = NoJob /\ Tells(jobs[j])
  <2>1. jobs[j].kind = kind /\ jobs[j] # NoJob
    BY <1>11, NoJobIs DEF Forward, Received
  <2>2. Tells(jobs[j])
    BY <1>11, <2>1 DEF Forward, Tells
  <2> QED
    BY <1>2, <1>11, <2>1, <2>2 DEF Forward, callHistory
<1>12. CASE Fail(j)
  BY <1>1, <1>2, <1>12 DEF Fail, callHistory
<1> QED
  BY <1>4, <1>5, <1>6, <1>7, <1>9, <1>10, <1>11, <1>12 DEF Gateway, ForwardOffer, ForwardAnswer

\* What the gateway sends is added at the end.
Mailed(v, m) == \A u \in Users : down'[u] = IF u = v /\ online[v] THEN Append(down[u], m) ELSE down[u]

\* What notify does to the messages under way.
LEMMA NotifyAdds ==
  ASSUME DownOK(down, rows), NEW v, NEW what \in {"incoming", "accepted", "rejected", "ended", "offer", "answer"},
         NEW call \in Nat, Notify(v, what, call), NEW m, m = [what |-> what, call |-> call]
  PROVE  m \in Messages /\ m.what = what /\ m.call = call /\ Mailed(v, m)
<1>1. down \in [Users -> Seq(Messages)]
  BY DEF DownOK
<1>2. m \in Messages /\ m.what = what /\ m.call = call
  BY MessagesAre
<1> QED
  BY <1>1, <1>2 DEF Notify, Mailed

\* A message that was under way to u still is, and goes on being the only one
\* to name its call.
Stood(c, u, i) ==
  /\ i \in DOMAIN down[u] /\ down[u][i] = down'[u][i]
  /\ NamedOnlyAt(c, u, i, down) => NamedOnlyAt(c, u, i, down')

\* News that is under way stays where it is when something else is sent.
LEMMA UnheardMail ==
  ASSUME DownOK(down, rows), NEW v, NEW what \in {"accepted", "rejected", "ended", "offer", "answer"},
         NEW call \in Nat, Notify(v, what, call), NEW u \in Users, NEW i \in DOMAIN down'[u],
         down'[u][i].what = "incoming", NEW c, c # call
  PROVE  Stood(c, u, i)
<1>1. down \in [Users -> Seq(Messages)]
  BY DEF DownOK
<1>2. PICK m : m = [what |-> what, call |-> call]
  OBVIOUS
<1>3. m \in Messages /\ m.what = what /\ m.call = call /\ Mailed(v, m)
  <2>1. what \in {"incoming", "accepted", "rejected", "ended", "offer", "answer"}
    OBVIOUS
  <2> QED
    BY <1>2, <2>1, NotifyAdds
<1>4. ASSUME NEW x \in Users, NEW k \in DOMAIN down'[x]
      PROVE  (k \in DOMAIN down[x] /\ down[x][k] = down'[x][k]) \/ down'[x][k] = m
  <2>1. down[x] \in Seq(Messages)
    BY <1>1
  <2>2. CASE down'[x] = down[x]
    BY <2>2
  <2>3. CASE down'[x] = Append(down[x], m)
    BY <1>3, <2>1, <2>3
  <2> QED
    BY <1>3, <2>2, <2>3 DEF Mailed
<1> QED
  BY <1>3, <1>4 DEF NamedOnlyAt, Stood

\* A step of the gateway leaves the calls alone of which one side has not heard,
\* and a call that is dialled is one of them.
LEMMA UnheardGateway ==
  ASSUME Fits, Unheard, NEW j \in Places, Gateway(j) \/ Fail(j)
  PROVE  Unheard'
<1>1. /\ DownOK(down, rows) /\ RowsOK(rows) /\ JobsOK(jobs, rows) /\ FeOK(fe, rows)
      /\ down \in [Users -> Seq(Messages)] /\ rows \in Seq(Sessions)
  BY DEF Fits, DownOK, RowsOK
<1>2. /\ fe' = fe /\ jobs[j] # NoJob
      /\ \A i \in Places \ {j} : jobs'[i] = jobs[i]
      /\ \/ InsertStart(j) \/ Accepted(j) \/ CallEnded(j) \/ CallRejected(j)
         \/ rows' = rows /\ down' = down /\ Moves(jobs[j], jobs'[j], rows)
         \/ rows' = rows /\ jobs'[j] = NoJob /\ Tells(jobs[j])
         \/ rows' = rows /\ down' = down /\ jobs'[j] = NoJob
  BY GatewayStep
<1>3. \A u \in Users : \A i \in DOMAIN down[u] : down[u][i].what = "incoming" =>
          down[u][i].call \in DOMAIN rows /\ down[u][i].call # 0
  BY <1>1 DEF DownOK, MessageOK, RowsOK
<1>4. jobs[j].call \in Nat /\ (jobs[j].kind # "start" => jobs[j].call \in DOMAIN rows)
  BY <1>1, <1>2, JobAt DEF Jobs
<1>5. ASSUME jobs'[j].call \in {0, jobs[j].call},
             \A c \in DOMAIN rows : c # jobs[j].call => rows'[c] = rows[c],
             \/ down' = down
             \/ \E v, what, call : /\ what \in {"accepted", "rejected", "ended", "offer", "answer"}
                                   /\ call \in {0, jobs[j].call} /\ Notify(v, what, call)
      PROVE  Unheard'
  <2> SUFFICES ASSUME NEW u \in Users, NEW i \in DOMAIN down'[u], down'[u][i].what = "incoming",
                      NEW c, c = down'[u][i].call
               PROVE  rows'[c].status = "pending" /\ NamedOnlyAt(c, u, i, down') /\ Unnamed(c, jobs', fe')
    BY DEF Unheard
  <2>1. ASSUME i \in DOMAIN down[u], down[u][i] = down'[u][i]
        PROVE  /\ c \in DOMAIN rows /\ c # 0 /\ c # jobs[j].call /\ NamedOnlyAt(c, u, i, down)
               /\ rows'[c].status = "pending" /\ Unnamed(c, jobs', fe')
    <3>1. c \in DOMAIN rows /\ c # 0
      BY <1>3, <2>1
    <3>2. rows[c].status = "pending" /\ NamedOnlyAt(c, u, i, down) /\ Unnamed(c, jobs, fe)
      BY <2>1 DEF Unheard
    <3>3. c # jobs[j].call
      BY <3>2 DEF Unnamed, NotInHand
    <3>4. Unnamed(c, jobs', fe')
      BY <1>2, <1>5, <3>1, <3>2, <3>3 DEF Unnamed, NotInHand
    <3> QED
      BY <1>5, <3>1, <3>2, <3>3, <3>4
  <2>2. CASE down' = down
    BY <2>1, <2>2 DEF NamedOnlyAt
  <2>3. ASSUME NEW v, NEW what, NEW call, what \in {"accepted", "rejected", "ended", "offer", "answer"},
               call \in {0, jobs[j].call}, Notify(v, what, call)
        PROVE  rows'[c].status = "pending" /\ NamedOnlyAt(c, u, i, down') /\ Unnamed(c, jobs', fe')
    <3>1. call \in Nat
      BY <1>4, <2>3
    <3>2. ASSUME NEW d, d # call PROVE Stood(d, u, i)
      <4>1. /\ what \in {"accepted", "rejected", "ended", "offer", "answer"} /\ Notify(v, what, call)
            /\ DownOK(down, rows) /\ i \in DOMAIN down'[u] /\ down'[u][i].what = "incoming"
        BY <1>1, <2>3
      <4> QED
        BY <3>1, <3>2, <4>1, UnheardMail
    <3>3. i \in DOMAIN down[u] /\ down[u][i] = down'[u][i]
      <4>1. call + 1 # call
        BY <3>1
      <4> QED
        BY <3>2, <4>1 DEF Stood
    <3> QED
      BY <2>1, <2>3, <3>2, <3>3 DEF Stood
  <2> QED
    BY <1>5, <2>2, <2>3
<1>6. ASSUME NEW kind \in Turning, Writes(j, kind)
      PROVE  \A c \in DOMAIN rows : c # jobs[j].call => rows'[c] = rows[c]
  BY <1>6, WritesFits
<1>7. JobDone(j) => jobs'[j].call = 0
  BY <1>1, NoJobIs DEF JobDone, JobsOK
<1>8. JobGoes(j, "notify") => jobs'[j].call = jobs[j].call
  BY <1>1, <1>2 DEF JobGoes, JobsOK, Jobs
<1>9. CASE Accepted(j)
  <2>1. Writes(j, "accept") /\ JobDone(j) /\ Notify(OtherParty(jobs[j]), "accepted", jobs[j].call)
    BY <1>9 DEF Accepted
  <2>2. \A c \in DOMAIN rows : c # jobs[j].call => rows'[c] = rows[c]
    BY <1>6, <2>1 DEF Turning
  <2> QED
    BY <1>5, <1>7, <2>1, <2>2
<1>10. CASE CallEnded(j)
  <2>1. Writes(j, "end") /\ JobDone(j) /\ Notify(OtherParty(jobs[j]), "ended", 0)
    BY <1>10 DEF CallEnded
  <2>2. \A c \in DOMAIN rows : c # jobs[j].call => rows'[c] = rows[c]
    BY <1>6, <2>1 DEF Turning
  <2> QED
    BY <1>5, <1>7, <2>1, <2>2
<1>11. CASE CallRejected(j)
  <2>1. Writes(j, "reject") /\ JobGoes(j, "notify") /\ down' = down
    BY <1>11 DEF CallRejected
  <2>2. \A c \in DOMAIN rows : c # jobs[j].call => rows'[c] = rows[c]
    BY <1>6, <2>1 DEF Turning
  <2> QED
    BY <1>5, <1>8, <2>1, <2>2
<1>12. CASE rows' = rows /\ down' = down /\ Moves(jobs[j], jobs'[j], rows)
  BY <1>5, <1>12, NoJobIs DEF Moves
<1>13. CASE rows' = rows /\ jobs'[j] = NoJob /\ Tells(jobs[j])
  <2>1. PICK v, what, call : /\ what \in {"rejected", "offer", "answer"}
                             /\ call \in {0, jobs[j].call} /\ Notify(v, what, call)
    BY <1>13 DEF Tells
  <2> QED
    BY <1>5, <1>13, <2>1, NoJobIs
<1>14. CASE rows' = rows /\ down' = down /\ jobs'[j] = NoJob
  BY <1>5, <1>14, NoJobIs
<1>15. CASE InsertStart(j)
  <2>1. jobs[j].at = "insert"
    BY <1>15 DEF InsertStart
  <2>2. /\ jobs[j].user \in Users /\ jobs[j].to \in Users \ {jobs[j].user}
    BY <1>1, <1>2, <2>1, JobAt
  <2>3. PICK new : new = NewSession(jobs[j].user, jobs[j].to, FALSE)
    OBVIOUS
  <2>4. new \in Sessions /\ new.status = "pending"
    BY <2>2, <2>3 DEF NewSession, NoSession, Sessions, Statuses
  <2>5. rows' = Append(rows, new)
    BY <1>15, <2>3 DEF InsertStart
  <2>6. PICK n : n = Len(rows) + 1
    OBVIOUS
  <2>7. /\ DOMAIN rows = 1..Len(rows) /\ n \in Nat /\ n # 0 /\ n \notin DOMAIN rows /\ rows'[n] = new
        /\ \A c \in DOMAIN rows : rows'[c] = rows[c] /\ c # n
    BY <1>1, <2>4, <2>5, <2>6
  <2>8. PICK m : m = [what |-> "incoming", call |-> n]
    OBVIOUS
  <2>9. m \in Messages /\ m.what = "incoming" /\ m.call = n /\ Mailed(jobs[j].to, m)
    <3>1. PICK v, what : v = jobs[j].to /\ what = "incoming"
      OBVIOUS
    <3>2. Notify(v, what, n)
      BY <1>15, <2>6, <3>1 DEF InsertStart
    <3>3. /\ n \in Nat /\ m = [what |-> what, call |-> n]
          /\ what \in {"incoming", "accepted", "rejected", "ended", "offer", "answer"}
      BY <2>7, <2>8, <3>1
    <3>4. m \in Messages /\ m.what = what /\ m.call = n /\ Mailed(v, m)
      <4>1. DownOK(down, rows)
        BY <1>1
      <4> QED
        BY <3>2, <3>3, <4>1, NotifyAdds
    <3> QED
      BY <3>1, <3>4
  <2>10. ASSUME NEW x \in Users, NEW k \in DOMAIN down'[x]
         PROVE  \/ k \in DOMAIN down[x] /\ down[x][k] = down'[x][k]
                \/ down'[x][k] = m /\ x = jobs[j].to /\ k = Len(down[x]) + 1
    <3>1. down[x] \in Seq(Messages)
      BY <1>1
    <3>2. CASE down'[x] = down[x]
      BY <3>2
    <3>3. CASE down'[x] = Append(down[x], m) /\ x = jobs[j].to
      BY <2>9, <3>1, <3>3
    <3> QED
      BY <2>9, <3>2, <3>3 DEF Mailed
  <2>11. \A x \in Users : \A k \in DOMAIN down[x] : down[x][k].call # n
    <3>1. \A x \in Users : \A k \in DOMAIN down[x] : down[x][k].call \in DOMAIN rows \/ down[x][k].call = 0
      BY <1>1 DEF DownOK, MessageOK
    <3> QED
      BY <2>7, <3>1
  <2>12. jobs'[j] = NoJob
    BY <1>1, <1>15 DEF InsertStart, JobDone, JobsOK
  <2>13. Unnamed(n, jobs', fe')
    <3>1. \A i \in Places : jobs'[i].call # n
      <4>1. \A i \in Places : jobs[i].call \in DOMAIN rows \/ jobs[i].call = 0
        BY <1>1 DEF JobsOK, JobOK, NoJob
      <4> QED
        BY <1>2, <2>7, <2>12, <4>1, NoJobIs
    <3>2. \A v \in Users : fe[v].callId # n /\ \A w \in fe[v].waits : w.call # n
      BY <1>1, <2>7 DEF FeOK, BrowserOK
    <3> QED
      BY <1>2, <3>1, <3>2 DEF Unnamed, NotInHand, NotShown
  <2> SUFFICES ASSUME NEW u \in Users, NEW i \in DOMAIN down'[u], down'[u][i].what = "incoming",
                      NEW c, c = down'[u][i].call
               PROVE  rows'[c].status = "pending" /\ NamedOnlyAt(c, u, i, down') /\ Unnamed(c, jobs', fe')
    BY DEF Unheard
  <2>14. CASE i \in DOMAIN down[u] /\ down[u][i] = down'[u][i]
    <3>1. rows[c].status = "pending" /\ NamedOnlyAt(c, u, i, down) /\ Unnamed(c, jobs, fe)
      BY <2>14 DEF Unheard
    <3>2. c \in DOMAIN rows /\ c # 0 /\ c # n
      BY <1>3, <2>7, <2>14
    <3>3. NamedOnlyAt(c, u, i, down')
      BY <2>9, <2>10, <3>1, <3>2 DEF NamedOnlyAt
    <3>4. Unnamed(c, jobs', fe')
      BY <1>2, <2>12, <3>1, <3>2, NoJobIs DEF Unnamed, NotInHand
    <3> QED
      BY <2>7, <3>1, <3>2, <3>3, <3>4
  <2>15. CASE down'[u][i] = m /\ u = jobs[j].to /\ i = Len(down[u]) + 1
    <3>1. c = n
      BY <2>9, <2>15
    <3>2. NamedOnlyAt(c, u, i, down')
      BY <2>10, <2>11, <2>15, <3>1 DEF NamedOnlyAt
    <3> QED
      BY <2>4, <2>7, <2>13, <3>1, <3>2
  <2> QED
    BY <2>10, <2>14, <2>15
<1> QED
  BY <1>2, <1>9, <1>10, <1>11, <1>12, <1>13, <1>14, <1>15

\* Every step keeps Unheard.
LEMMA UnheardStep ==
  ASSUME Fits, Unheard, [CallNext]_callVars
  PROVE  Unheard'
<1>1. ASSUME NEW u \in Users,
             \/ \E v \in Users \ {u} : InitiateCall(u, v)
             \/ AcceptCall(u) \/ RejectCall(u) \/ HangUp(u) \/ PeerFails(u)
             \/ Hear(u) \/ Settle(u)
      PROVE  Unheard'
  BY <1>1, BrowserStep, UnheardBrowser
<1>2. ASSUME NEW j \in Places, Gateway(j) \/ Fail(j) PROVE Unheard'
  BY <1>2, UnheardGateway
<1>3. ASSUME NEW u \in Users, Drop(u) PROVE Unheard'
  <2>1. \A v \in Users : down'[v] = down[v] \/ down'[v] = <<>>
    BY <1>3 DEF Drop, Fits, DownOK
  <2>2. \A i \in Places : jobs'[i] = jobs[i] \/ jobs'[i].call = 0
    BY <1>3, NoJobIs DEF Drop, Without, Places
  <2>3. rows' = rows /\ fe' = fe
    BY <1>3 DEF Drop
  <2> SUFFICES ASSUME NEW v \in Users, NEW i \in DOMAIN down'[v], down'[v][i].what = "incoming",
                      NEW c, c = down'[v][i].call
               PROVE  rows'[c].status = "pending" /\ NamedOnlyAt(c, v, i, down') /\ Unnamed(c, jobs', fe')
    BY DEF Unheard
  <2>4. down'[v] = down[v]
    BY <2>1
  <2>5. rows[c].status = "pending" /\ NamedOnlyAt(c, v, i, down) /\ Unnamed(c, jobs, fe)
    BY <2>4 DEF Unheard
  <2>6. c # 0
    <3>1. MessageOK(down[v][i], v, rows)
      BY <2>4 DEF Fits, DownOK
    <3> QED
      BY <2>4, <3>1 DEF MessageOK, Fits, RowsOK
  <2> QED
    BY <2>1, <2>2, <2>3, <2>5, <2>6 DEF NamedOnlyAt, Unnamed, NotInHand
<1>4. ASSUME NEW u \in Users, Reconnect(u) PROVE Unheard'
  BY <1>4 DEF Reconnect, Unheard, NamedOnlyAt, Unnamed, NotInHand, NotShown
<1>5. CASE UNCHANGED callVars
  BY <1>5 DEF callVars, Unheard, NamedOnlyAt, Unnamed, NotInHand, NotShown
<1> QED
  BY <1>1, <1>2, <1>3, <1>4, <1>5 DEF CallNext, Places

-----------------------------------------------------------------------------
(* The turn of a call.                                                     *)

JobsTurn(c, r, js, js2) ==
  \A i \in Places : Of(js2[i], Turning, c) =>
    /\ js2[i].kind = js[i].kind /\ js[i].call = c /\ js2[i].user = js[i].user
    /\ js2[i].kind = "accept" /\ js2[i].at = "update" /\ r.status # "active" =>
         (js[i].at = "update" /\ js2[i].cols = js[i].cols) \/ "status" \in js2[i].cols

FewerAccepted(c, q, q2) ==
  (TellsAccepted(q2, c) => TellsAccepted(q, c)) /\ (TellsOnce(q, c) => TellsOnce(q2, c))

LessShown(c, f, g) == (g.callId = c => f.callId = c) /\ (Before(g, c) => Before(f, c))

SameSides(r, r2) == r2.initiator = r.initiator /\ r2.recipient = r.recipient

\* Less going on about a call leaves its turn as it is.
LEMMA TurnKept ==
  ASSUME NEW c, NEW r, NEW r2, NEW fs, NEW fs2, NEW js, NEW js2, NEW dn, NEW dn2, Turn(c, r, fs, js, dn),
         SameSides(r, r2), r2.status = "active" => r.status = "active", JobsTurn(c, r, js, js2),
         \A v \in {r.initiator, r.recipient} : LessShown(c, fs[v], fs2[v]) /\ FewerAccepted(c, dn[v], dn2[v]),
         \A j \in Places : Of(js[j], {"end"}, c) => js[j].user \in {r.initiator, r.recipient}
  PROVE  Turn(c, r2, fs2, js2, dn2)
<1> DEFINE a == r.initiator
           b == r.recipient
<1>1. r2.initiator = a /\ r2.recipient = b
  BY DEF SameSides
<1>2. /\ LessShown(c, fs[a], fs2[a]) /\ FewerAccepted(c, dn[a], dn2[a])
      /\ LessShown(c, fs[b], fs2[b]) /\ FewerAccepted(c, dn[b], dn2[b])
  OBVIOUS
<1>3. \A i \in Places : \A kinds \in SUBSET Turning : Of(js2[i], kinds, c) =>
        /\ Of(js[i], kinds, c) /\ js2[i].kind = js[i].kind /\ js2[i].user = js[i].user
        /\ js2[i].kind = "accept" /\ js2[i].at = "update" /\ r.status # "active" =>
             (js[i].at = "update" /\ js2[i].cols = js[i].cols) \/ "status" \in js2[i].cols
  BY DEF JobsTurn, Of
<1>4. {"accept", "reject"} \in SUBSET Turning /\ {"end"} \in SUBSET Turning /\ Turning \in SUBSET Turning
  BY DEF Turning
<1> HIDE DEF a, b
<1>5. ~TellsAccepted(dn2[b], c) /\ TellsOnce(dn2[a], c) /\ (TellsAccepted(dn2[a], c) => fs2[a].callId # c)
  BY <1>2 DEF Turn, FewerAccepted, LessShown, a, b
<1>6. Before(fs2[b], c) =>
        /\ r2.status # "active" /\ ~TellsAccepted(dn2[a], c) /\ fs2[a].callId # c
        /\ \A j \in Places : ~Of(js2[j], Turning, c)
  BY <1>2, <1>3, <1>4 DEF Turn, FewerAccepted, LessShown, a, b
<1>7. ASSUME NEW j \in Places, Of(js2[j], {"accept", "reject"}, c)
      PROVE  /\ js2[j].user = b /\ ~TellsAccepted(dn2[a], c) /\ fs2[a].callId # c
             /\ \A i \in Places : Of(js2[i], {"accept", "reject"}, c) => i = j
             /\ \A i \in Places : Of(js2[i], {"end"}, c) => js2[i].user = b
             /\ js2[j].kind = "accept" => r2.status # "active" /\ (js2[j].at = "update" => "status" \in js2[j].cols)
             /\ js2[j].kind = "reject" => fs2[b].callId # c
  <2>1. Of(js[j], {"accept", "reject"}, c)
    BY <1>3, <1>4, <1>7
  <2>2. /\ js[j].user = b /\ ~TellsAccepted(dn[a], c) /\ fs[a].callId # c
        /\ \A i \in Places : Of(js[i], {"accept", "reject"}, c) => i = j
        /\ \A i \in Places : Of(js[i], {"end"}, c) => js[i].user = b
        /\ js[j].kind = "accept" => r.status # "active" /\ (js[j].at = "update" => "status" \in js[j].cols)
        /\ js[j].kind = "reject" => fs[b].callId # c
    BY <2>1 DEF Turn, a, b
  <2>3. js2[j].user = b /\ js2[j].kind = js[j].kind
    BY <1>3, <1>4, <1>7, <2>2
  <2>4. ~TellsAccepted(dn2[a], c) /\ fs2[a].callId # c /\ (fs[b].callId # c => fs2[b].callId # c)
    BY <1>2, <2>2 DEF FewerAccepted, LessShown
  <2>5. \A i \in Places : Of(js2[i], {"accept", "reject"}, c) => i = j
    BY <1>3, <1>4, <2>2
  <2>6. \A i \in Places : Of(js2[i], {"end"}, c) => js2[i].user = b
    BY <1>3, <1>4, <2>2
  <2>7. js2[j].kind = "accept" => r2.status # "active" /\ (js2[j].at = "update" => "status" \in js2[j].cols)
    BY <1>3, <1>4, <1>7, <2>2, <2>3
  <2> QED
    BY <2>2, <2>3, <2>4, <2>5, <2>6, <2>7
<1>8. ASSUME NEW j \in Places, Of(js2[j], {"end"}, c)
      PROVE  /\ fs2[js2[j].user].callId # c
             /\ js2[j].user = a => ~TellsAccepted(dn2[a], c)
  <2>1. Of(js[j], {"end"}, c) /\ js2[j].user = js[j].user
    BY <1>3, <1>4, <1>8
  <2>2. fs[js[j].user].callId # c /\ (js[j].user = a => ~TellsAccepted(dn[a], c))
    BY <2>1 DEF Turn, a
  <2>3. js[j].user \in {a, b}
    BY <2>1 DEF a, b
  <2> QED
    BY <1>2, <2>1, <2>2, <2>3 DEF FewerAccepted, LessShown
<1> QED
  BY <1>1, <1>5, <1>6, <1>7, <1>8 DEF Turn

\* A browser that sends nothing about the turn of c leaves the messages about it.
LEMMA SendsTurn ==
  ASSUME NEW c, NEW r, NEW js, NEW js2, NEW kind, NEW u, NEW call, kind \notin Turning \/ call # c,
         Sends(js, js2, kind, u, call) \/ Thins(js, js2)
  PROVE  JobsTurn(c, r, js, js2)
<1>1. ASSUME NEW i \in Places, Of(js2[i], Turning, c) PROVE js2[i] = js[i]
  <2>1. NoJob.kind \notin Turning
    BY DEF NoJob, Turning
  <2>2. CASE Thins(js, js2)
    BY <1>1, <2>1, <2>2 DEF Thins, Of
  <2>3. CASE Sends(js, js2, kind, u, call)
    BY <1>1, <2>1, <2>3 DEF Sends, Of
  <2> QED
    BY <2>2, <2>3
<1> QED
  BY <1>1 DEF JobsTurn, Of

\* A browser hears of no new acceptance.
LEMMA HeardFewer ==
  ASSUME NEW c, NEW q \in Seq(Messages), NEW q2, q2 = q \/ (q # <<>> /\ q2 = Tail(q))
  PROVE  FewerAccepted(c, q, q2)
<1>1. CASE q2 = q
  BY <1>1 DEF FewerAccepted
<1>2. CASE q # <<>> /\ q2 = Tail(q)
  BY <1>2, Tailed DEF FewerAccepted
<1> QED
  BY <1>1, <1>2

\* Who does not show a call sends nothing about its turn.
LEMMA DoesTurn ==
  ASSUME NEW u, NEW f, NEW g, NEW js, NEW js2, NEW q, NEW q2, NEW ready,
         Does(u, f, g, js, js2, q, q2, ready), NEW c, c # 0, NEW r, NotShown(c, f)
  PROVE  JobsTurn(c, r, js, js2)
<1>1. js2 = js => JobsTurn(c, r, js, js2)
  BY DEF JobsTurn, Of
<1>2. CASE Initiates(u, f, g, js, js2, q, q2, ready)
  BY <1>1, <1>2 DEF Initiates
<1>3. CASE Accepts(u, f, g, js, js2, q, q2)
  BY <1>1, <1>3 DEF Accepts
<1>4. CASE Rejects(u, f, g, js, js2, q, q2)
  BY <1>4, SendsTurn DEF Rejects, NotShown
<1>5. CASE EndsCall(u, f, g, js, js2, q, q2, ready)
  BY <1>5, SendsTurn DEF EndsCall, NotShown
<1>6. CASE DialGoesOut(u, f, g, js, js2, q, q2)
  BY <1>6, SendsTurn DEF DialGoesOut, NotShown
<1>7. CASE DialIsDropped(u, f, g, js, js2, q, q2)
  BY <1>1, <1>7 DEF DialIsDropped
<1>8. CASE AcceptGoesOut(u, f, g, js, js2, q, q2)
  BY <1>8, SendsTurn DEF AcceptGoesOut, NotShown
<1>9. CASE AcceptIsDropped(u, f, g, js, js2, q, q2)
  BY <1>9, SendsTurn DEF AcceptIsDropped, NotShown
<1>10. CASE HearsIncoming(u, f, g, js, js2, q, q2, ready)
  BY <1>1, <1>10 DEF HearsIncoming
<1>11. CASE HearsAccepted(u, f, g, js, js2, q, q2, ready)
  BY <1>11, SendsTurn DEF HearsAccepted, Turning
<1>12. CASE HearsMedia(u, f, g, js, js2, q, q2)
  BY <1>1, <1>12, SendsTurn DEF HearsMedia, Turning
<1> QED
  BY <1>2, <1>3, <1>4, <1>5, <1>6, <1>7, <1>8, <1>9, <1>10, <1>11, <1>12 DEF Does

\* The recipient accepts or rejects: there was nothing about the call before.
LEMMA TurnAnswers ==
  ASSUME NEW c, NEW r, NEW fs, NEW fs2, NEW js, NEW js2, NEW dn, NEW dn2, Turn(c, r, fs, js, dn),
         NEW a, NEW b, a = r.initiator, b = r.recipient, a # b,
         NEW kind \in {"accept", "reject"}, Sends(js, js2, kind, b, c), Before(fs[b], c),
         ~Before(fs2[b], c), kind = "reject" => fs2[b].callId # c,
         fs2[a] = fs[a], dn2[a] = dn[a], dn2[b] = dn[b]
  PROVE  Turn(c, r, fs2, js2, dn2)
<1>1. /\ r.status # "active" /\ ~TellsAccepted(dn[a], c) /\ fs[a].callId # c
      /\ \A j \in Places : ~Of(js[j], Turning, c)
      /\ ~TellsAccepted(dn[b], c) /\ TellsOnce(dn[a], c)
  BY DEF Turn
<1>2. PICK n \in Places :
        /\ js2[n].kind = kind /\ js2[n].user = b /\ js2[n].call = c /\ js2[n].at = "sent"
        /\ \A i \in Places \ {n} : js2[i] = js[i] \/ js2[i] = NoJob
  BY DEF Sends
<1>3. \A i \in Places : Of(js2[i], Turning, c) => i = n
  BY <1>1, <1>2, NoJobIs DEF Of, Turning
<1>4. \A i \in Places : Of(js2[i], {"accept", "reject"}, c) => i = n
  BY <1>3 DEF Of, Turning
<1>5. \A i \in Places : ~Of(js2[i], {"end"}, c)
  BY <1>2, <1>3 DEF Of, Turning
<1> QED
  BY <1>1, <1>2, <1>4, <1>5 DEF Turn

\* A side that shows the call ends it.
LEMMA TurnEnds ==
  ASSUME NEW c, NEW r, NEW fs, NEW fs2, NEW js, NEW js2, NEW dn, NEW dn2, Turn(c, r, fs, js, dn),
         NEW a, NEW b, a = r.initiator, b = r.recipient, a # b, NEW u \in {a, b},
         Sends(js, js2, "end", u, c), fs[u].callId = c, fs2[u].callId # c,
         \A v \in {a, b} : (v # u => fs2[v] = fs[v]) /\ FewerAccepted(c, dn[v], dn2[v]),
         \A j \in Places : Of(js[j], {"end"}, c) => js[j].user \in {a, b}
  PROVE  Turn(c, r, fs2, js2, dn2)
<1>1. PICK n \in Places :
        /\ js2[n].kind = "end" /\ js2[n].user = u /\ js2[n].call = c
        /\ \A i \in Places \ {n} : js2[i] = js[i] \/ js2[i] = NoJob
  BY DEF Sends
<1>2. \A i \in Places : Of(js2[i], {"accept", "reject"}, c) => i # n /\ js2[i] = js[i] /\ Of(js[i], {"accept", "reject"}, c)
  BY <1>1, NoJobIs DEF Of
<1>3. \A i \in Places : Of(js2[i], {"end"}, c) => i = n \/ (js2[i] = js[i] /\ Of(js[i], {"end"}, c))
  BY <1>1, NoJobIs DEF Of
<1>4. FewerAccepted(c, dn[a], dn2[a]) /\ FewerAccepted(c, dn[b], dn2[b])
  OBVIOUS
<1>5. /\ ~TellsAccepted(dn2[b], c) /\ TellsOnce(dn2[a], c)
      /\ TellsAccepted(dn2[a], c) => TellsAccepted(dn[a], c) /\ fs[a].callId # c /\ u = b /\ fs2[a] = fs[a]
  BY <1>4 DEF Turn, FewerAccepted
<1>6. ~Before(fs2[b], c)
  <2>1. CASE u = b
    BY <2>1 DEF Before
  <2>2. CASE u = a
    <3>1. ~Before(fs[b], c)
      BY <2>2 DEF Turn
    <3> QED
      BY <2>2, <3>1
  <2> QED
    BY <2>1, <2>2
<1>7. ASSUME NEW j \in Places, Of(js2[j], {"accept", "reject"}, c)
      PROVE  /\ js2[j].user = b /\ ~TellsAccepted(dn2[a], c) /\ fs2[a].callId # c
             /\ \A i \in Places : Of(js2[i], {"accept", "reject"}, c) => i = j
             /\ \A i \in Places : Of(js2[i], {"end"}, c) => js2[i].user = b
             /\ js2[j].kind = "accept" => r.status # "active" /\ (js2[j].at = "update" => "status" \in js2[j].cols)
             /\ js2[j].kind = "reject" => fs2[b].callId # c
  <2>1. js2[j] = js[j] /\ Of(js[j], {"accept", "reject"}, c)
    BY <1>2, <1>7
  <2>2. /\ js[j].user = b /\ ~TellsAccepted(dn[a], c) /\ fs[a].callId # c
        /\ \A i \in Places : Of(js[i], {"accept", "reject"}, c) => i = j
        /\ \A i \in Places : Of(js[i], {"end"}, c) => js[i].user = b
        /\ js[j].kind = "accept" => r.status # "active" /\ (js[j].at = "update" => "status" \in js[j].cols)
    BY <2>1 DEF Turn
  <2>3. u = b /\ fs2[a] = fs[a]
    BY <2>2
  <2> QED
    BY <1>1, <1>2, <1>3, <1>5, <2>1, <2>2, <2>3
<1>8. ASSUME NEW j \in Places, Of(js2[j], {"end"}, c)
      PROVE  fs2[js2[j].user].callId # c /\ (js2[j].user = a => ~TellsAccepted(dn2[a], c))
  <2>1. CASE js2[j].user = u
    BY <1>5, <2>1
  <2>2. CASE js2[j].user # u
    <3>1. js2[j] = js[j] /\ Of(js[j], {"end"}, c)
      BY <1>1, <1>3, <1>8, <2>2
    <3>2. fs[js[j].user].callId # c /\ (js[j].user = a => ~TellsAccepted(dn[a], c)) /\ js[j].user \in {a, b}
      BY <3>1 DEF Turn
    <3> QED
      BY <1>4, <2>2, <3>1, <3>2 DEF FewerAccepted
  <2> QED
    BY <2>1, <2>2
<1> QED
  BY <1>5, <1>6, <1>7, <1>8 DEF Turn

\* The initiator hears that the call is accepted.
LEMMA TurnHeard ==
  ASSUME NEW c, NEW r, NEW fs, NEW fs2, NEW js, NEW js2, NEW dn, NEW dn2, Turn(c, r, fs, js, dn),
         NEW a, NEW b, a = r.initiator, b = r.recipient, a # b,
         NEW kind, kind \notin Turning, NEW u, Sends(js, js2, kind, u, c),
         TellsAccepted(dn[a], c), ~TellsAccepted(dn2[a], c), TellsOnce(dn2[a], c),
         fs2[b] = fs[b], dn2[b] = dn[b],
         \A j \in Places : Of(js[j], {"end"}, c) => js[j].user \in {a, b}
  PROVE  Turn(c, r, fs2, js2, dn2)
<1>1. \A i \in Places : js2[i] = js[i] \/ js2[i].kind \notin Turning
  BY NoJobIs DEF Sends, Turning
<1>2. \A i \in Places : \A kinds \in SUBSET Turning : Of(js2[i], kinds, c) => js2[i] = js[i] /\ Of(js[i], kinds, c)
  BY <1>1 DEF Of
<1>3. {"accept", "reject"} \in SUBSET Turning /\ {"end"} \in SUBSET Turning
  BY DEF Turning
<1>4. ~Before(fs[b], c) /\ ~TellsAccepted(dn[b], c) /\ \A j \in Places : ~Of(js[j], {"accept", "reject"}, c)
  BY DEF Turn
<1>5. ASSUME NEW j \in Places, Of(js2[j], {"end"}, c)
      PROVE  fs2[js2[j].user].callId # c /\ js2[j].user # a
  <2>1. js2[j] = js[j] /\ Of(js[j], {"end"}, c)
    BY <1>2, <1>3, <1>5
  <2>2. fs[js[j].user].callId # c /\ js[j].user # a /\ js[j].user \in {a, b}
    BY <2>1 DEF Turn
  <2> QED
    BY <2>1, <2>2
<1>6. \A j \in Places : ~Of(js2[j], {"accept", "reject"}, c)
  BY <1>2, <1>3, <1>4
<1> QED
  BY <1>4, <1>5, <1>6 DEF Turn

\* The recipient hears of the call.
LEMMA TurnRings ==
  ASSUME NEW c, NEW r, NEW fs, NEW fs2, NEW js, NEW dn, NEW dn2, Turn(c, r, fs, js, dn),
         NEW a, NEW b, a = r.initiator, b = r.recipient, a # b, r.status # "active",
         NotInHand(c, js), fs[a].callId # c, fs2[a] = fs[a], ~TellsAccepted(dn[a], c),
         dn2[a] = dn[a], FewerAccepted(c, dn[b], dn2[b])
  PROVE  Turn(c, r, fs2, js, dn2)
<1>1. \A j \in Places : \A kinds : ~Of(js[j], kinds, c)
  BY DEF NotInHand, Of
<1>2. ~TellsAccepted(dn2[b], c) /\ TellsOnce(dn2[a], c)
  BY DEF Turn, FewerAccepted
<1> QED
  BY <1>1, <1>2 DEF Turn

\* Who ends call c is a side of it.
EndsByParties(c, r, js) == \A j \in Places : Of(js[j], {"end"}, c) => js[j].user \in {r.initiator, r.recipient}

\* The others see nothing of a step of u.
OnlyOf(u, fs, fs2, dn, dn2) == \A v \in Users \ {u} : fs2[v] = fs[v] /\ dn2[v] = dn[v]

\* If u is about to hear of call c, nothing is known of it.
FirstHeard(u, c, r, fs, js, dn) ==
  dn[u] # <<>> /\ Head(dn[u]).what = "incoming" /\ Head(dn[u]).call = c =>
    /\ r.status # "active" /\ NotInHand(c, js) /\ fs[r.initiator].callId # c
    /\ ~TellsAccepted(dn[r.initiator], c) /\ u = r.recipient

\* The steps of a side of the call that had one thing to do at a time.
LEMMA TurnOwn ==
  ASSUME NEW c, c # 0, NEW r, NEW fs, NEW fs2, NEW js, NEW js2, NEW dn, NEW dn2, Turn(c, r, fs, js, dn),
         NEW a \in Users, NEW b \in Users, a = r.initiator, b = r.recipient, a # b, NEW u \in {a, b},
         NEW ready, Does(u, fs[u], fs2[u], js, js2, dn[u], dn2[u], ready), ready, Proper(fs[u]),
         dn[u] \in Seq(Messages), fs[u].isIncoming /\ fs[u].callId = c => u = b,
         OnlyOf(u, fs, fs2, dn, dn2), EndsByParties(c, r, js), FirstHeard(u, c, r, fs, js, dn)
  PROVE  Turn(c, r, fs2, js2, dn2)
<1> DEFINE f == fs[u]
           g == fs2[u]
           q == dn[u]
           q2 == dn2[u]
           Goal == Turn(c, r, fs2, js2, dn2)
<1>1. FewerAccepted(c, q, q2)
  BY DoesHear, HeardFewer
<1>2. \A v \in {a, b} : v # u => fs2[v] = fs[v] /\ dn2[v] = dn[v]
  BY DEF OnlyOf
<1>3. \A v \in {a, b} : FewerAccepted(c, dn[v], dn2[v])
  <2>1. \A v \in {a, b} : v # u => FewerAccepted(c, dn[v], dn2[v])
    BY <1>2 DEF FewerAccepted
  <2> QED
    BY <1>1, <2>1
<1>4. \A j \in Places : Of(js[j], {"end"}, c) => js[j].user \in {a, b}
  BY DEF EndsByParties
<1>5. ASSUME JobsTurn(c, r, js, js2), LessShown(c, f, g) PROVE Goal
  <2>1. \A v \in {a, b} : v # u => LessShown(c, fs[v], fs2[v])
    BY <1>2 DEF LessShown
  <2>2. \A v \in {r.initiator, r.recipient} : LessShown(c, fs[v], fs2[v]) /\ FewerAccepted(c, dn[v], dn2[v])
    BY <1>3, <1>5, <2>1
  <2>3. SameSides(r, r)
    BY DEF SameSides
  <2> QED
    BY <1>5, <1>4, <2>2, <2>3, TurnKept
<1>6. js2 = js => JobsTurn(c, r, js, js2)
  BY DEF JobsTurn, Of
<1>7. ASSUME NEW kind \in {"accept", "reject"}, Sends(js, js2, kind, u, c), Before(f, c), f.isIncoming,
             ~Before(g, c), kind = "reject" => g.callId # c, q2 = q
      PROVE  Goal
  <2>1. u = b
    BY <1>7 DEF Before
  <2> QED
    BY <1>2, <1>7, <2>1, TurnAnswers
<1>8. CASE Initiates(u, f, g, js, js2, q, q2, ready)
  <2>1. g.callId = 0
    BY <1>8 DEF Initiates, Is, Idle
  <2> QED
    BY <1>5, <1>6, <1>8, <2>1 DEF Initiates, LessShown, Before
<1>9. CASE Accepts(u, f, g, js, js2, q, q2)
  <2>1. g.callId = f.callId /\ Rings(f)
    BY <1>9 DEF Accepts, Is
  <2> QED
    BY <1>5, <1>6, <1>9, <2>1 DEF Accepts, LessShown, Before
<1>10. CASE Rejects(u, f, g, js, js2, q, q2)
  <2>1. g.callId = 0 /\ Rings(f) /\ f.isIncoming /\ q2 = q /\ Sends(js, js2, "reject", u, f.callId)
    BY <1>10 DEF Rejects, Is, Rings
  <2>2. CASE f.callId = c
    BY <1>7, <2>1, <2>2 DEF Before
  <2>3. CASE f.callId # c
    BY <1>5, <2>1, <2>3, SendsTurn DEF LessShown, Before
  <2> QED
    BY <2>2, <2>3
<1>11. CASE EndsCall(u, f, g, js, js2, q, q2, ready)
  <2>1. g.callId = 0
    BY <1>11 DEF EndsCall, Is
  <2>2. CASE f.callId = c
    <3>1. Sends(js, js2, "end", u, c)
      BY <1>11, <2>2 DEF EndsCall
    <3> QED
      BY <1>3, <1>2, <1>4, <2>1, <2>2, <3>1, TurnEnds
  <2>3. CASE f.callId # c
    <3>1. Thins(js, js2) \/ Sends(js, js2, "end", u, f.callId)
      BY <1>11 DEF EndsCall
    <3> QED
      BY <1>5, <2>1, <2>3, <3>1, SendsTurn DEF LessShown, Before
  <2> QED
    BY <2>2, <2>3
<1>12. ASSUME NEW w \in f.waits
       PROVE  /\ f.waits = {w} /\ f.waits \ {w} = {} /\ f.status \notin {"idle", "ringing"}
              /\ IF w.call = 0 THEN f.callId = 0 /\ ~f.isIncoming ELSE w.call = f.callId /\ f.isIncoming
  BY DEF Proper
<1>13. CASE DialGoesOut(u, f, g, js, js2, q, q2)
  <2>1. PICK w \in f.waits : w.call = 0 /\ g.callId = f.callId /\ Sends(js, js2, "start", u, 0)
    BY <1>13 DEF DialGoesOut, Is
  <2>2. g.callId = 0
    BY <1>12, <2>1
  <2> QED
    BY <1>5, <2>1, <2>2, SendsTurn DEF LessShown, Before
<1>14. CASE DialIsDropped(u, f, g, js, js2, q, q2)
  <2>1. PICK w \in f.waits : w.call = 0 /\ g.callId = f.callId /\ js2 = js
    BY <1>14 DEF DialIsDropped, Is
  <2>2. g.callId = 0
    BY <1>12, <2>1
  <2> QED
    BY <1>5, <1>6, <2>1, <2>2 DEF LessShown, Before
<1>15. CASE AcceptGoesOut(u, f, g, js, js2, q, q2)
  <2>1. PICK w \in f.waits : /\ w.call # 0 /\ Is(g, f.status, w.call, f.isIncoming, Filming(f), f.waits \ {w})
                             /\ Sends(js, js2, "accept", u, w.call) /\ q2 = q
    BY <1>15 DEF AcceptGoesOut
  <2>2. f.callId = w.call /\ f.isIncoming /\ f.status # "ringing" /\ f.waits # {}
    BY <1>12, <2>1
  <2>3. g.callId = w.call /\ g.waits = {} /\ g.status # "ringing"
    BY <1>12, <2>1 DEF Is
  <2>4. CASE w.call = c
    <3>1. Before(f, c) /\ ~Before(g, c)
      BY <2>2, <2>3, <2>4 DEF Before, Rings
    <3> QED
      BY <1>7, <2>1, <2>2, <2>4, <3>1
  <2>5. CASE w.call # c
    BY <1>5, <2>1, <2>3, <2>5, SendsTurn DEF LessShown, Before
  <2> QED
    BY <2>4, <2>5
<1>16. CASE AcceptIsDropped(u, f, g, js, js2, q, q2)
  <2>1. PICK w \in f.waits : w.call # 0 /\ g.callId = 0 /\ Sends(js, js2, "reject", u, w.call) /\ q2 = q
    BY <1>16 DEF AcceptIsDropped, Is
  <2>2. f.callId = w.call /\ f.isIncoming /\ f.waits # {}
    BY <1>12, <2>1
  <2>3. CASE w.call = c
    <3>1. Before(f, c) /\ ~Before(g, c)
      BY <2>1, <2>2, <2>3 DEF Before
    <3> QED
      BY <1>7, <2>1, <2>2, <2>3, <3>1
  <2>4. CASE w.call # c
    BY <1>5, <2>1, <2>4, SendsTurn DEF LessShown, Before
  <2> QED
    BY <2>3, <2>4
<1>17. CASE HearsIncoming(u, f, g, js, js2, q, q2, ready)
  <2>1. q # <<>> /\ Head(q).what = "incoming" /\ g.callId = Head(q).call /\ js2 = js
    BY <1>17 DEF HearsIncoming, HearsNext, Is
  <2>2. CASE Head(q).call = c
    <3>1. r.status # "active" /\ NotInHand(c, js) /\ fs[a].callId # c /\ ~TellsAccepted(dn[a], c) /\ u = b
      BY <2>1, <2>2 DEF FirstHeard
    <3>2. fs2[a] = fs[a] /\ dn2[a] = dn[a] /\ FewerAccepted(c, dn[b], dn2[b])
      BY <1>1, <1>2, <3>1
    <3>3. Turn(c, r, fs2, js, dn2)
      BY <3>1, <3>2, TurnRings
    <3> QED
      BY <2>1, <3>3
  <2>3. CASE Head(q).call # c
    BY <1>5, <1>6, <2>1, <2>3 DEF LessShown, Before
  <2> QED
    BY <2>2, <2>3
<1>18. CASE HearsAccepted(u, f, g, js, js2, q, q2, ready)
  <2>1. /\ q # <<>> /\ q2 = Tail(q) /\ Head(q).what = "accepted" /\ g.callId = Head(q).call
        /\ Sends(js, js2, "offer", u, Head(q).call)
    BY <1>18 DEF HearsAccepted, HearsNext, Is
  <2>2. "offer" \notin Turning
    BY DEF Turning
  <2>3. CASE Head(q).call = c
    <3>1. AcceptedIs(Head(q), c)
      BY <2>1, <2>3 DEF AcceptedIs
    <3>2. /\ TellsAccepted(q, c) /\ (TellsOnce(q, c) => TellsOnce(q2, c))
          /\ TellsOnce(q, c) => ~TellsAccepted(q2, c)
      BY <2>1, <3>1, Tailed
    <3>3. u = a
      BY <3>2 DEF Turn
    <3>4. TellsOnce(dn[a], c)
      BY DEF Turn
    <3>5. TellsAccepted(dn[a], c) /\ ~TellsAccepted(dn2[a], c) /\ TellsOnce(dn2[a], c)
      BY <3>2, <3>3, <3>4
    <3>6. fs2[b] = fs[b] /\ dn2[b] = dn[b] /\ Sends(js, js2, "offer", u, c)
      BY <1>2, <2>1, <2>3, <3>3
    <3> QED
      BY <1>4, <2>2, <3>5, <3>6, TurnHeard
  <2>4. CASE Head(q).call # c
    BY <1>5, <2>1, <2>2, <2>4, SendsTurn DEF LessShown, Before
  <2> QED
    BY <2>3, <2>4
<1>19. CASE HearsMedia(u, f, g, js, js2, q, q2)
  <2>1. PICK status \in {f.status, "active"} : Is(g, status, f.callId, f.isIncoming, f.camera, f.waits)
    BY <1>19 DEF HearsMedia
  <2>2. LessShown(c, f, g)
    BY <2>1 DEF LessShown, Before, Is, Rings
  <2>3. JobsTurn(c, r, js, js2)
    BY <1>6, <1>19, SendsTurn DEF HearsMedia, Turning
  <2> QED
    BY <1>5, <2>2, <2>3
<1> QED
  BY <1>8, <1>9, <1>10, <1>11, <1>13, <1>14, <1>15, <1>16, <1>17, <1>18, <1>19 DEF Does

\* The steps of any browser, for a call of which both sides had one thing to do
\* at a time.
LEMMA TurnBrowser ==
  ASSUME Fits, Single, Unheard, NEW c \in DOMAIN rows, Turn(c, rows[c], fe, jobs, down), NEW u \in Users,
         Does(u, fe[u], fe'[u], jobs, jobs', down[u], down'[u], u \in calm'),
         \A v \in Users \ {u} : fe'[v] = fe[v] /\ down'[v] = down[v], calm' \subseteq calm,
         Parties(rows[c]) \subseteq calm'
  PROVE  Turn(c, rows[c], fe', jobs', down')
<1>1. /\ RowsOK(rows) /\ JobsOK(jobs, rows) /\ DownOK(down, rows) /\ FeOK(fe, rows)
      /\ down \in [Users -> Seq(Messages)] /\ fe \in [Users -> Browsers]
  BY DEF Fits, DownOK, FeOK
<1>2. PICK r, a, b : r = rows[c] /\ a = r.initiator /\ b = r.recipient
  OBVIOUS
<1>3. a \in Users /\ b \in Users /\ a # b /\ Parties(rows[c]) = {a, b} /\ c \in Nat /\ c # 0
  <2>1. c \in Nat /\ c # 0
    BY <1>1 DEF RowsOK
  <2>2. rows[c] \in Sessions /\ rows[c].recipient \in Users \ {rows[c].initiator}
    BY <1>1 DEF RowsOK
  <2>3. a \in Users /\ Nobody \notin Users
    BY <1>2, <2>2, UsersAssumption DEF Sessions
  <2> QED
    BY <1>2, <2>1, <2>2, <2>3 DEF Parties
<1>4. EndsByParties(c, r, jobs)
  <2> SUFFICES ASSUME NEW j \in Places, Of(jobs[j], {"end"}, c) PROVE jobs[j].user \in {a, b}
    BY <1>2 DEF EndsByParties
  <2>1. jobs[j].kind \in Turning /\ jobs[j] # NoJob /\ jobs[j].call = c
    BY NoJobIs DEF Of, Turning
  <2> QED
    BY <1>1, <1>3, <2>1, JobAt
<1>5. PICK g, q2, js2 : g = fe' /\ q2 = down' /\ js2 = jobs'
  OBVIOUS
<1>6. OnlyOf(u, fe, g, down, q2)
  BY <1>5 DEF OnlyOf
<1>7. Does(u, fe[u], g[u], jobs, js2, down[u], q2[u], u \in calm') /\ Turn(c, r, fe, jobs, down)
  BY <1>2, <1>5
<1>8. down[u] # <<>> => 1 \in DOMAIN down[u] /\ Head(down[u]) = down[u][1] /\ MessageOK(Head(down[u]), u, rows)
  <2>1. down[u] \in Seq(Messages)
    BY <1>1
  <2>2. down[u] # <<>> => 1 \in DOMAIN down[u] /\ Head(down[u]) = down[u][1]
    BY <2>1
  <2> QED
    BY <1>1, <2>2 DEF DownOK
<1>9. CASE u \in {a, b}
  <2>1. u \in calm' /\ u \in calm
    BY <1>3, <1>9
  <2>2. Proper(fe[u]) /\ (fe[u].isIncoming /\ fe[u].callId = c => u = b)
    BY <1>2, <2>1 DEF Single
  <2>3. ASSUME down[u] # <<>>, Head(down[u]).what = "incoming", Head(down[u]).call = c
        PROVE  /\ r.status # "active" /\ NotInHand(c, jobs) /\ fe[a].callId # c /\ ~TellsAccepted(down[a], c) /\ u = b
    <3>1. rows[c].status = "pending" /\ NamedOnlyAt(c, u, 1, down) /\ Unnamed(c, jobs, fe)
      BY <1>8, <2>3 DEF Unheard
    <3>2. u = b
      BY <1>2, <1>8, <2>3 DEF MessageOK
    <3>3. ~TellsAccepted(down[a], c)
      BY <1>3, <3>1, <3>2 DEF TellsAccepted, AcceptedIs, NamedOnlyAt
    <3> QED
      BY <1>2, <1>3, <3>1, <3>2, <3>3 DEF Unnamed, NotShown
  <2>4. down[u] \in Seq(Messages) /\ FirstHeard(u, c, r, fe, jobs, down)
    BY <1>1, <1>2, <2>3 DEF FirstHeard
  <2>5. Turn(c, r, g, js2, q2)
    BY <1>2, <1>3, <1>4, <1>6, <1>7, <1>9, <2>1, <2>2, <2>4, TurnOwn
  <2> QED
    BY <1>2, <1>5, <2>5
<1>10. CASE u \notin {a, b}
  <2>1. NotShown(c, fe[u])
    BY <1>1, <1>3, <1>10 DEF FeOK, BrowserOK, NotShown
  <2>2. JobsTurn(c, r, jobs, js2)
    BY <1>3, <1>7, <2>1, DoesTurn
  <2>3. \A v \in {r.initiator, r.recipient} : LessShown(c, fe[v], g[v]) /\ FewerAccepted(c, down[v], q2[v])
    BY <1>2, <1>3, <1>6, <1>10 DEF LessShown, FewerAccepted, OnlyOf
  <2>4. SameSides(r, r)
    BY DEF SameSides
  <2>5. Turn(c, r, g, js2, q2)
    BY <1>4, <1>7, <2>2, <2>3, <2>4, TurnKept DEF EndsByParties
  <2> QED
    BY <1>2, <1>5, <2>5
<1> QED
  BY <1>9, <1>10

\* Nothing is known of a call: nobody has its turn.
LEMMA TurnOfNone ==
  ASSUME NEW c, NEW r, NEW fs, NEW js, NEW dn, r.initiator \in Users, r.recipient \in Users, Unnamed(c, js, fs),
         \A v \in {r.initiator, r.recipient} : \A i \in DOMAIN dn[v] : AcceptedIs(dn[v][i], c) => FALSE
  PROVE  Turn(c, r, fs, js, dn)
<1>1. \A v \in {r.initiator, r.recipient} : ~TellsAccepted(dn[v], c) /\ TellsOnce(dn[v], c)
  BY DEF TellsAccepted, TellsOnce
<1>2. \A j \in Places : \A kinds : ~Of(js[j], kinds, c)
  BY DEF Unnamed, NotInHand, Of
<1>3. ~Before(fs[r.recipient], c)
  BY DEF Unnamed, NotShown, Before
<1> QED
  BY <1>1, <1>2, <1>3 DEF Turn

\* The server tells the initiator that the call is accepted.
LEMMA TurnAccepted ==
  ASSUME NEW c, NEW r, NEW r2, NEW fs, NEW js, NEW js2, NEW dn, NEW dn2, Turn(c, r, fs, js, dn),
         SameSides(r, r2), r.initiator # r.recipient, NEW j \in Places, Of(js[j], {"accept"}, c),
         js2[j] = NoJob, \A i \in Places \ {j} : js2[i] = js[i],
         dn2[r.recipient] = dn[r.recipient],
         ~TellsAccepted(dn[r.initiator], c) => TellsOnce(dn2[r.initiator], c)
  PROVE  Turn(c, r2, fs, js2, dn2)
<1> DEFINE a == r.initiator
           b == r.recipient
<1>1. Of(js[j], {"accept", "reject"}, c) /\ Of(js[j], Turning, c)
  BY DEF Of, Turning
<1>2. /\ js[j].user = b /\ ~TellsAccepted(dn[a], c) /\ fs[a].callId # c
      /\ \A i \in Places : Of(js[i], {"accept", "reject"}, c) => i = j
      /\ \A i \in Places : Of(js[i], {"end"}, c) => js[i].user = b
  BY <1>1 DEF Turn
<1>3. ~Before(fs[b], c) /\ ~TellsAccepted(dn[b], c)
  BY <1>1 DEF Turn
<1>4. \A i \in Places : \A kinds \in SUBSET Turning : Of(js2[i], kinds, c) => i # j /\ js2[i] = js[i] /\ Of(js[i], kinds, c)
  BY NoJobIs DEF Of, Turning
<1>5. {"accept", "reject"} \in SUBSET Turning /\ {"end"} \in SUBSET Turning
  BY DEF Turning
<1>6. \A i \in Places : ~Of(js2[i], {"accept", "reject"}, c)
  BY <1>2, <1>4, <1>5
<1>7. ASSUME NEW i \in Places, Of(js2[i], {"end"}, c) PROVE fs[js2[i].user].callId # c /\ js2[i].user # a
  <2>1. js2[i] = js[i] /\ Of(js[i], {"end"}, c)
    BY <1>4, <1>5, <1>7
  <2>2. fs[js[i].user].callId # c
    BY <2>1 DEF Turn
  <2> QED
    BY <1>2, <2>1, <2>2
<1>8. r2.initiator = a /\ r2.recipient = b
  BY DEF SameSides
<1> QED
  BY <1>2, <1>3, <1>6, <1>7, <1>8 DEF Turn

\* What is sent tells nobody that call c is accepted.
LEMMA OtherMail ==
  ASSUME DownOK(down, rows), NEW v, NEW what \in {"incoming", "accepted", "rejected", "ended", "offer", "answer"},
         NEW call \in Nat, Notify(v, what, call), NEW c, what = "accepted" => call # c, NEW x \in Users
  PROVE  FewerAccepted(c, down[x], down'[x])
<1>1. PICK m : m = [what |-> what, call |-> call]
  OBVIOUS
<1>2. m \in Messages /\ m.what = what /\ m.call = call /\ Mailed(v, m)
  BY <1>1, NotifyAdds
<1>3. ~AcceptedIs(m, c)
  BY <1>2 DEF AcceptedIs
<1>4. down[x] \in Seq(Messages)
  BY DEF DownOK
<1>5. PICK q2 : q2 = down'[x]
  OBVIOUS
<1>6. CASE q2 = Append(down[x], m)
  <2>1. /\ TellsAccepted(q2, c) => TellsAccepted(down[x], c) \/ AcceptedIs(m, c)
        /\ TellsOnce(down[x], c) /\ (AcceptedIs(m, c) => ~TellsAccepted(down[x], c)) => TellsOnce(q2, c)
    BY <1>2, <1>4, <1>6, Appended
  <2> QED
    BY <1>3, <1>5, <2>1 DEF FewerAccepted
<1>7. CASE q2 = down[x]
  BY <1>5, <1>7 DEF FewerAccepted
<1> QED
  BY <1>2, <1>5, <1>6, <1>7 DEF Mailed

\* A message that goes on keeps the turn it is about.
LEMMA MovesTurn ==
  ASSUME NEW j \in Places, JobsOK(jobs, rows), jobs[j] # NoJob, NEW js2, NEW c, NEW r,
         c = jobs[j].call => r = rows[c],
         Moves(jobs[j], js2[j], rows) \/ js2[j] = NoJob, \A i \in Places \ {j} : js2[i] = jobs[i]
  PROVE  JobsTurn(c, r, jobs, js2)
<1> DEFINE w == jobs[j]
           x == js2[j]
<1>1. \A i \in Places : i # j => js2[i] = jobs[i]
  OBVIOUS
<1>2. ASSUME Of(x, Turning, c)
      PROVE  /\ x.kind = w.kind /\ w.call = c /\ x.user = w.user
             /\ x.kind = "accept" /\ x.at = "update" /\ r.status # "active" => "status" \in x.cols
  <2>1. x # NoJob
    BY <1>2, NoJobIs DEF Of, Turning
  <2>2. /\ x.kind = w.kind /\ x.user = w.user /\ x.call = w.call
        /\ x.at = "update" => x.cols = Differing(rows[w.call], w.seen, StatusOf(w.kind))
    BY <2>1 DEF Moves
  <2>3. w.call = c /\ r = rows[c]
    BY <1>2, <2>2 DEF Of
  <2>4. ASSUME x.kind = "accept", x.at = "update", r.status # "active" PROVE "status" \in x.cols
    <3>1. x.cols = Differing(r, w.seen, "active")
      BY <2>2, <2>3, <2>4 DEF StatusOf
    <3>2. w.seen \in Sessions \union {NoSession}
      <4>1. w \in Jobs
        BY JobAt
      <4> QED
        BY <4>1 DEF Jobs
    <3>3. WithStatus(w.seen, "active")["status"] = "active"
      BY <3>2 DEF WithStatus, Sessions, NoSession
    <3> QED
      BY <2>4, <3>1, <3>3 DEF Differing, Columns
  <2> QED
    BY <2>2, <2>3, <2>4
<1> HIDE DEF w, x
<1>3. ASSUME NEW i \in Places, Of(js2[i], Turning, c)
      PROVE  /\ js2[i].kind = jobs[i].kind /\ jobs[i].call = c /\ js2[i].user = jobs[i].user
             /\ js2[i].kind = "accept" /\ js2[i].at = "update" /\ r.status # "active" =>
                  (jobs[i].at = "update" /\ js2[i].cols = jobs[i].cols) \/ "status" \in js2[i].cols
  <2>1. CASE i = j
    BY <1>2, <1>3, <2>1 DEF w, x
  <2>2. CASE i # j
    BY <1>1, <1>3, <2>2 DEF Of
  <2> QED
    BY <2>1, <2>2
<1> QED
  BY <1>3 DEF JobsTurn

\* The sides of a call.
LEMMA PartiesAre ==
  ASSUME Fits, NEW c \in DOMAIN rows
  PROVE  /\ rows[c] \in Sessions /\ rows[c].initiator \in Users /\ rows[c].recipient \in Users
         /\ rows[c].initiator # rows[c].recipient
         /\ Parties(rows[c]) = {rows[c].initiator, rows[c].recipient}
         /\ c \in Nat /\ c # 0
         /\ EndsByParties(c, rows[c], jobs)
<1>1. RowsOK(rows) /\ JobsOK(jobs, rows)
  BY DEF Fits
<1>2. c \in Nat /\ c # 0 /\ rows[c] \in Sessions /\ rows[c].recipient \in Users \ {rows[c].initiator}
  BY <1>1 DEF RowsOK
<1>3. rows[c].initiator \in Users /\ Nobody \notin Users
  BY <1>2, UsersAssumption DEF Sessions
<1>4. Parties(rows[c]) = {rows[c].initiator, rows[c].recipient}
  BY <1>2, <1>3 DEF Parties
<1>5. EndsByParties(c, rows[c], jobs)
  <2> SUFFICES ASSUME NEW j \in Places, Of(jobs[j], {"end"}, c) PROVE jobs[j].user \in Parties(rows[c])
    BY <1>4 DEF EndsByParties
  <2>1. jobs[j].kind \in Turning /\ jobs[j] # NoJob /\ jobs[j].call = c
    BY NoJobIs DEF Of, Turning
  <2> QED
    BY <1>1, <2>1, JobAt
<1> QED
  BY <1>2, <1>3, <1>4, <1>5

\* A save that does not make the call active leaves it active only if it was.
LEMMA WritesStatus ==
  ASSUME Fits, NEW j \in Places, NEW kind \in Turning, Writes(j, kind), NEW c, c = jobs[j].call
  PROVE  /\ c \in DOMAIN rows /\ jobs[j].kind = kind /\ jobs[j].at = "update" /\ jobs[j] # NoJob
         /\ rows'[c].status = IF "status" \in jobs[j].cols THEN StatusOf(kind) ELSE rows[c].status
<1>1. RowsOK(rows) /\ JobsOK(jobs, rows) /\ jobs[j].kind = kind /\ jobs[j].at = "update"
  BY DEF Fits, Writes
<1>2. jobs[j] # NoJob
  BY <1>1, NoJobIs
<1>3. jobs[j] \in Jobs /\ jobs[j].seen \in Sessions /\ c \in DOMAIN rows
  BY <1>1, <1>2, JobAt DEF Turning
<1>4. jobs[j].cols \in SUBSET Columns
  BY <1>3 DEF Jobs
<1>5. StatusOf(kind) \in Statuses
  BY DEF StatusOf, Turning, Statuses
<1>6. rows[c] \in Sessions /\ rows \in Seq(Sessions)
  BY <1>1, <1>3 DEF RowsOK
<1>7. PICK new : new = Saved(rows[c], jobs[j].seen, StatusOf(kind), jobs[j].cols)
  OBVIOUS
<1>8. new.status = IF "status" \in jobs[j].cols THEN StatusOf(kind) ELSE rows[c].status
  BY <1>3, <1>4, <1>5, <1>6, <1>7, SavedFacts
<1>9. rows' = [rows EXCEPT ![c] = new]
  BY <1>7 DEF Writes
<1> QED
  BY <1>1, <1>2, <1>3, <1>6, <1>8, <1>9

\* The steps of the gateway, for any call.
LEMMA TurnGateway ==
  ASSUME Fits, NEW j \in Places, Gateway(j) \/ Fail(j), NEW c \in DOMAIN rows, Turn(c, rows[c], fe, jobs, down)
  PROVE  Turn(c, rows'[c], fe', jobs', down')
<1>1. /\ DownOK(down, rows) /\ RowsOK(rows) /\ JobsOK(jobs, rows)
      /\ down \in [Users -> Seq(Messages)] /\ jobs \in [Places -> Jobs \union {NoJob}]
  BY DEF Fits, DownOK, JobsOK
<1>2. /\ fe' = fe /\ jobs[j] # NoJob
      /\ \A i \in Places \ {j} : jobs'[i] = jobs[i]
      /\ \/ InsertStart(j) \/ Accepted(j) \/ CallEnded(j) \/ CallRejected(j)
         \/ rows' = rows /\ down' = down /\ Moves(jobs[j], jobs'[j], rows)
         \/ rows' = rows /\ jobs'[j] = NoJob /\ Tells(jobs[j])
         \/ rows' = rows /\ down' = down /\ jobs'[j] = NoJob
  BY GatewayStep
<1>3. PICK r, r2, js2, dn2 : r = rows[c] /\ r2 = rows'[c] /\ js2 = jobs' /\ dn2 = down'
  OBVIOUS
<1>4. SameSides(r, r2)
  BY <1>3, GatewayFits DEF Kept, SameSides
<1>5. r.initiator \in Users /\ r.recipient \in Users /\ r.initiator # r.recipient /\ EndsByParties(c, r, jobs)
  BY <1>3, PartiesAre
<1>6. ASSUME r2.status = "active" => r.status = "active", JobsTurn(c, r, jobs, js2),
             \A x \in Users : FewerAccepted(c, down[x], dn2[x])
      PROVE  Turn(c, r2, fe, js2, dn2)
  <2>1. \A v \in {r.initiator, r.recipient} : LessShown(c, fe[v], fe[v]) /\ FewerAccepted(c, down[v], dn2[v])
    BY <1>5, <1>6 DEF LessShown
  <2>2. Turn(c, r, fe, jobs, down)
    BY <1>3
  <2> QED
    BY <1>4, <1>5, <1>6, <2>1, <2>2, TurnKept DEF EndsByParties
<1>7. dn2 = down => \A x \in Users : FewerAccepted(c, down[x], dn2[x])
  BY DEF FewerAccepted
<1>8. \A i \in Places \ {j} : js2[i] = jobs[i]
  BY <1>2, <1>3
<1>9. Moves(jobs[j], js2[j], rows) \/ js2[j] = NoJob => JobsTurn(c, r, jobs, js2)
  BY <1>1, <1>2, <1>3, <1>8, MovesTurn
<1>10. JobDone(j) => js2[j] = NoJob
  BY <1>1, <1>3 DEF JobDone
<1>11. jobs[j].call \in Nat /\ jobs[j].kind \in Kinds
  BY <1>1, <1>2 DEF Jobs
<1>12. ASSUME NEW v, NEW what \in {"incoming", "accepted", "rejected", "ended", "offer", "answer"}, NEW call \in Nat,
              Notify(v, what, call), what = "accepted" => call # c
       PROVE  \A x \in Users : FewerAccepted(c, down[x], dn2[x])
  BY <1>1, <1>3, <1>12, OtherMail
<1>13. ASSUME NEW kind \in Turning, Writes(j, kind)
       PROVE  /\ c # jobs[j].call => r2 = r
              /\ c = jobs[j].call /\ kind # "accept" => (r2.status = "active" => r.status = "active")
              /\ jobs[j].kind = kind
  <2>1. \A d \in DOMAIN rows : d # jobs[j].call => rows'[d] = rows[d]
    BY <1>13, WritesFits
  <2>2. c = jobs[j].call => rows'[c].status = IF "status" \in jobs[j].cols THEN StatusOf(kind) ELSE rows[c].status
    BY <1>13, WritesStatus
  <2>3. kind # "accept" => StatusOf(kind) # "active"
    BY DEF StatusOf, Turning
  <2>4. jobs[j].kind = kind
    BY <1>13 DEF Writes
  <2> QED
    BY <1>3, <2>1, <2>2, <2>3, <2>4
<1>14. ASSUME InsertStart(j) PROVE Turn(c, r2, fe, js2, dn2)
  <2>1. r2 = r
    <3>1. jobs[j].at = "insert"
      BY <1>14 DEF InsertStart
    <3>2. jobs[j].user \in Users /\ jobs[j].to \in Users \ {jobs[j].user}
      BY <1>1, <1>2, <3>1, JobAt
    <3>3. PICK new : new = NewSession(jobs[j].user, jobs[j].to, FALSE)
      OBVIOUS
    <3>4. new \in Sessions /\ rows \in Seq(Sessions)
      BY <1>1, <3>2, <3>3 DEF NewSession, NoSession, Sessions, Statuses, RowsOK
    <3>5. rows' = Append(rows, new)
      BY <1>14, <3>3 DEF InsertStart
    <3> QED
      BY <1>3, <3>4, <3>5
  <2>2. js2[j] = NoJob
    BY <1>10, <1>14 DEF InsertStart
  <2>3. PICK n : n = Len(rows) + 1
    OBVIOUS
  <2>4. n \in Nat /\ Notify(jobs[j].to, "incoming", n)
    BY <1>1, <1>14, <2>3 DEF InsertStart, RowsOK
  <2> QED
    BY <1>6, <1>9, <1>12, <2>1, <2>2, <2>4
<1>15. ASSUME Accepted(j) PROVE Turn(c, r2, fe, js2, dn2)
  <2>1. Writes(j, "accept") /\ JobDone(j) /\ Notify(OtherParty(jobs[j]), "accepted", jobs[j].call)
    BY <1>15 DEF Accepted
  <2>2. (c # jobs[j].call => r2 = r) /\ jobs[j].kind = "accept"
    BY <1>13, <2>1 DEF Turning
  <2>3. js2[j] = NoJob
    BY <1>10, <2>1
  <2>4. CASE c # jobs[j].call
    <3>1. \A x \in Users : FewerAccepted(c, down[x], dn2[x])
      BY <1>11, <1>12, <2>1, <2>4
    <3> QED
      BY <1>6, <1>9, <2>2, <2>3, <2>4, <3>1
  <2>5. CASE c = jobs[j].call
    <3>1. Of(jobs[j], {"accept"}, c) /\ Of(jobs[j], {"accept", "reject"}, c)
      BY <2>2, <2>5 DEF Of
    <3>2. Turn(c, r, fe, jobs, down)
      BY <1>3
    <3>3. jobs[j].user = r.recipient
      BY <3>1, <3>2 DEF Turn
    <3>4. OtherParty(jobs[j]) = r.initiator
      BY <1>3, <1>5, <2>5, <3>3 DEF OtherParty, OtherSide
    <3>5. PICK m : m = [what |-> "accepted", call |-> c]
      OBVIOUS
    <3>6. m \in Messages /\ Mailed(r.initiator, m)
      <4>1. PICK v, what : v = r.initiator /\ what = "accepted"
        OBVIOUS
      <4>2. Notify(v, what, c)
        BY <2>1, <2>5, <3>4, <4>1
      <4>3. what \in {"incoming", "accepted", "rejected", "ended", "offer", "answer"} /\ c \in Nat
        BY <1>11, <2>5, <4>1
      <4>4. m = [what |-> what, call |-> c]
        BY <3>5, <4>1
      <4>5. DownOK(down, rows)
        BY <1>1
      <4>6. m \in Messages /\ Mailed(v, m)
        BY <4>2, <4>3, <4>4, <4>5, NotifyAdds
      <4> QED
        BY <4>1, <4>6
    <3>7. dn2[r.recipient] = down[r.recipient]
      BY <1>3, <1>5, <3>6 DEF Mailed
    <3>8. ~TellsAccepted(down[r.initiator], c) => TellsOnce(dn2[r.initiator], c)
      <4>1. PICK q, q2 : q = down[r.initiator] /\ q2 = dn2[r.initiator]
        OBVIOUS
      <4>2. q2 = q \/ q2 = Append(q, m)
        BY <1>3, <1>5, <3>6, <4>1 DEF Mailed
      <4>3. TellsOnce(q, c) /\ q \in Seq(Messages)
        BY <1>1, <1>5, <3>2, <4>1 DEF Turn
      <4>4. q2 = Append(q, m) => (TellsOnce(q, c) /\ (AcceptedIs(m, c) => ~TellsAccepted(q, c)) => TellsOnce(q2, c))
        BY <3>6, <4>3, Appended
      <4> QED
        BY <4>1, <4>2, <4>3, <4>4
    <3> QED
      BY <1>4, <1>5, <1>8, <2>3, <3>1, <3>2, <3>7, <3>8, TurnAccepted
  <2> QED
    BY <2>4, <2>5
<1>16. ASSUME CallEnded(j) PROVE Turn(c, r2, fe, js2, dn2)
  <2>1. Writes(j, "end") /\ JobDone(j) /\ Notify(OtherParty(jobs[j]), "ended", 0)
    BY <1>16 DEF CallEnded
  <2>2. r2.status = "active" => r.status = "active"
    BY <1>13, <2>1 DEF Turning
  <2>3. \A x \in Users : FewerAccepted(c, down[x], dn2[x])
    BY <1>12, <2>1
  <2> QED
    BY <1>6, <1>9, <1>10, <2>1, <2>2, <2>3
<1>17. ASSUME CallRejected(j) PROVE Turn(c, r2, fe, js2, dn2)
  <2>1. Writes(j, "reject") /\ JobGoes(j, "notify") /\ dn2 = down
    BY <1>3, <1>17 DEF CallRejected
  <2>2. (r2.status = "active" => r.status = "active") /\ jobs[j].kind = "reject"
    BY <1>13, <2>1 DEF Turning
  <2>3. PICK w : w = [jobs[j] EXCEPT !.at = "notify"]
    OBVIOUS
  <2>4. js2[j] = w /\ jobs[j] \in Jobs
    BY <1>1, <1>2, <1>3, <2>1, <2>3 DEF JobGoes
  <2>5. w.kind = jobs[j].kind /\ w.user = jobs[j].user /\ w.call = jobs[j].call /\ w.at = "notify"
    BY <2>3, <2>4 DEF Jobs
  <2>6. Moves(jobs[j], js2[j], rows)
    BY <2>4, <2>5 DEF Moves
  <2> QED
    BY <1>6, <1>7, <1>9, <2>1, <2>2, <2>6
<1>18. ASSUME rows' = rows, down' = down, Moves(jobs[j], jobs'[j], rows) \/ jobs'[j] = NoJob
       PROVE  Turn(c, r2, fe, js2, dn2)
  <2>1. r2 = r /\ dn2 = down /\ (Moves(jobs[j], js2[j], rows) \/ js2[j] = NoJob)
    BY <1>3, <1>18
  <2> QED
    BY <1>6, <1>7, <1>9, <2>1
<1>19. ASSUME rows' = rows, jobs'[j] = NoJob, Tells(jobs[j]) PROVE Turn(c, r2, fe, js2, dn2)
  <2>1. r2 = r /\ js2[j] = NoJob
    BY <1>3, <1>19
  <2>2. PICK v, what, call : /\ what \in {"rejected", "offer", "answer"}
                             /\ call \in {0, jobs[j].call} /\ Notify(v, what, call)
    BY <1>19 DEF Tells
  <2>3. call \in Nat
    BY <1>11, <2>2
  <2>4. \A x \in Users : FewerAccepted(c, down[x], dn2[x])
    BY <1>12, <2>2, <2>3
  <2> QED
    BY <1>6, <1>9, <2>1, <2>4
<1>20. Turn(c, r2, fe, js2, dn2)
  BY <1>2, <1>14, <1>15, <1>16, <1>17, <1>18, <1>19
<1> QED
  BY <1>2, <1>3, <1>20

\* A call that has just been dialled is named by nobody but the news of it.
LEMMA TurnNew ==
  ASSUME Fits, NEW j \in Places, InsertStart(j), NEW c \in DOMAIN rows', c \notin DOMAIN rows
  PROVE  Turn(c, rows'[c], fe', jobs', down')
<1>1. /\ DownOK(down, rows) /\ RowsOK(rows) /\ JobsOK(jobs, rows) /\ FeOK(fe, rows)
      /\ down \in [Users -> Seq(Messages)] /\ jobs \in [Places -> Jobs \union {NoJob}]
  BY DEF Fits, DownOK, JobsOK
<1>2. jobs[j].at = "insert" /\ jobs[j] # NoJob
  BY NoJobIs DEF InsertStart
<1>3. jobs[j].user \in Users /\ jobs[j].to \in Users \ {jobs[j].user}
  BY <1>1, <1>2, JobAt
<1>4. PICK new : new = NewSession(jobs[j].user, jobs[j].to, FALSE)
  OBVIOUS
<1>5. new \in Sessions /\ new.initiator = jobs[j].user /\ new.recipient = jobs[j].to /\ rows \in Seq(Sessions)
  BY <1>1, <1>3, <1>4 DEF NewSession, NoSession, Sessions, Statuses, RowsOK
<1>6. rows' = Append(rows, new)
  BY <1>4 DEF InsertStart
<1>7. PICK n : n = Len(rows) + 1
  OBVIOUS
<1>8. n \in Nat /\ n # 0 /\ n \notin DOMAIN rows /\ c = n /\ rows'[c] = new
  BY <1>5, <1>6, <1>7
<1>9. fe' = fe /\ jobs' = [jobs EXCEPT ![j] = NoJob]
  BY DEF InsertStart, JobDone
<1>10. Unnamed(c, jobs', fe')
  <2>1. \A i \in Places : jobs[i].call \in DOMAIN rows \/ jobs[i].call = 0
    BY <1>1 DEF JobsOK, JobOK, NoJob
  <2>2. \A i \in Places : jobs'[i].call # c
    BY <1>1, <1>8, <1>9, <2>1, NoJobIs
  <2>3. \A v \in Users : fe[v].callId # c /\ \A w \in fe[v].waits : w.call # c
    BY <1>1, <1>8 DEF FeOK, BrowserOK
  <2> QED
    BY <1>9, <2>2, <2>3 DEF Unnamed, NotInHand, NotShown
<1>11. PICK m : m = [what |-> "incoming", call |-> n]
  OBVIOUS
<1>12. m \in Messages /\ m.what = "incoming" /\ Mailed(jobs[j].to, m)
  <2>1. PICK v, what : v = jobs[j].to /\ what = "incoming"
    OBVIOUS
  <2>2. Notify(v, what, n) /\ DownOK(down, rows)
    BY <1>1, <1>7, <2>1 DEF InsertStart
  <2>3. /\ n \in Nat /\ m = [what |-> what, call |-> n]
        /\ what \in {"incoming", "accepted", "rejected", "ended", "offer", "answer"}
    BY <1>8, <1>11, <2>1
  <2>4. m \in Messages /\ m.what = what /\ Mailed(v, m)
    BY <2>2, <2>3, NotifyAdds
  <2> QED
    BY <2>1, <2>4
<1>13. ASSUME NEW x \in Users, NEW k \in DOMAIN down'[x], AcceptedIs(down'[x][k], c) PROVE FALSE
  <2>1. down[x] \in Seq(Messages)
    BY <1>1
  <2>2. k \in DOMAIN down[x] /\ down'[x][k] = down[x][k]
    <3>1. CASE down'[x] = down[x]
      BY <3>1
    <3>2. CASE down'[x] = Append(down[x], m)
      BY <1>12, <1>13, <2>1, <3>2 DEF AcceptedIs
    <3> QED
      BY <1>12, <3>1, <3>2 DEF Mailed
  <2>3. MessageOK(down[x][k], x, rows)
    BY <1>1, <2>2 DEF DownOK
  <2> QED
    BY <1>8, <1>13, <2>2, <2>3 DEF MessageOK, AcceptedIs
<1>14. PICK js, fs, dn : js = jobs' /\ fs = fe' /\ dn = down'
  OBVIOUS
<1>15. new.initiator \in Users /\ new.recipient \in Users
  BY <1>3, <1>5
<1>16. \A v \in {new.initiator, new.recipient} : \A i \in DOMAIN dn[v] : AcceptedIs(dn[v][i], c) => FALSE
  BY <1>13, <1>14, <1>15
<1>17. Turn(c, new, fs, js, dn)
  BY <1>10, <1>14, <1>15, <1>16, TurnOfNone
<1> QED
  BY <1>8, <1>14, <1>17

\* Whoever had one thing to do at a time did so before; and new rows come only
\* from a call that is dialled.
LEMMA CalmerRows ==
  ASSUME Fits, [CallNext]_callVars
  PROVE  /\ calm' \subseteq calm
         /\ DOMAIN rows' = DOMAIN rows \/ \E j \in Places : InsertStart(j)
<1>1. ASSUME NEW u \in Users,
             \/ \E v \in Users \ {u} : InitiateCall(u, v)
             \/ AcceptCall(u) \/ RejectCall(u) \/ HangUp(u) \/ PeerFails(u)
             \/ Hear(u) \/ Settle(u)
      PROVE  calm' \subseteq calm /\ rows' = rows
  BY <1>1, BrowserStep
<1>2. ASSUME NEW j \in Places, Gateway(j) \/ Fail(j)
      PROVE  calm' = calm /\ (DOMAIN rows' = DOMAIN rows \/ InsertStart(j))
  <2>1. ASSUME NEW kind \in Turning, Writes(j, kind) PROVE DOMAIN rows' = DOMAIN rows
    BY <2>1, WritesFits
  <2>2. Accepted(j) \/ CallEnded(j) \/ CallRejected(j) => DOMAIN rows' = DOMAIN rows
    BY <2>1 DEF Accepted, CallEnded, CallRejected, Turning
  <2> QED
    BY <1>2, <2>2, GatewayStep
<1>3. ASSUME NEW u \in Users, Drop(u) \/ Reconnect(u) PROVE calm' = calm /\ rows' = rows
  BY <1>3 DEF Drop, Reconnect, callHistory
<1>4. CASE UNCHANGED callVars
  BY <1>4 DEF callVars
<1> QED
  BY <1>1, <1>2, <1>3, <1>4 DEF CallNext, Places

\* Every step keeps InTurn.
LEMMA InTurnStep ==
  ASSUME Fits, Single, Unheard, InTurn, Kept(rows, rows'), [CallNext]_callVars
  PROVE  InTurn'
<1> SUFFICES ASSUME NEW c \in DOMAIN rows', Parties(rows'[c]) \subseteq calm'
             PROVE  Turn(c, rows'[c], fe', jobs', down')
  BY DEF InTurn, Calmly
<1>1. CASE c \notin DOMAIN rows
  BY <1>1, CalmerRows, TurnNew
<1>2. CASE c \in DOMAIN rows
  <2>1. Parties(rows'[c]) = Parties(rows[c]) /\ calm' \subseteq calm
    BY <1>2, CalmerRows DEF Kept, Parties
  <2>2. Turn(c, rows[c], fe, jobs, down) /\ Parties(rows[c]) \subseteq calm'
    BY <1>2, <2>1 DEF InTurn, Calmly
  <2>3. ASSUME NEW u \in Users,
               \/ \E v \in Users \ {u} : InitiateCall(u, v)
               \/ AcceptCall(u) \/ RejectCall(u) \/ HangUp(u) \/ PeerFails(u)
               \/ Hear(u) \/ Settle(u)
        PROVE  Turn(c, rows'[c], fe', jobs', down')
    <3>1. /\ Does(u, fe[u], fe'[u], jobs, jobs', down[u], down'[u], u \in calm')
          /\ \A v \in Users \ {u} : fe'[v] = fe[v] /\ down'[v] = down[v]
          /\ rows' = rows
      BY <2>3, BrowserStep
    <3>2. Turn(c, rows[c], fe', jobs', down')
      BY <1>2, <2>1, <2>2, <3>1, TurnBrowser
    <3> QED
      BY <3>1, <3>2
  <2>4. ASSUME NEW j \in Places, Gateway(j) \/ Fail(j) PROVE Turn(c, rows'[c], fe', jobs', down')
    BY <1>2, <2>2, <2>4, TurnGateway
  <2>5. ASSUME NEW u \in Users, Drop(u) PROVE Turn(c, rows'[c], fe', jobs', down')
    <3>1. rows' = rows /\ fe' = fe
      BY <2>5 DEF Drop
    <3>2. PICK r, js2, dn2 : r = rows[c] /\ js2 = jobs' /\ dn2 = down'
      OBVIOUS
    <3>3. \A i \in Places : js2[i] = jobs[i] \/ js2[i] = NoJob
      BY <2>5, <3>2 DEF Drop, Without, Places
    <3>4. JobsTurn(c, r, jobs, js2)
      BY <3>3, NoJobIs DEF JobsTurn, Of, Turning
    <3>5. r.initiator \in Users /\ r.recipient \in Users /\ EndsByParties(c, r, jobs)
      BY <1>2, <3>2, PartiesAre
    <3>6. \A v \in Users : dn2[v] = down[v] \/ dn2[v] = <<>>
      BY <2>5, <3>2 DEF Drop, Fits, DownOK
    <3>7. \A v \in Users : FewerAccepted(c, down[v], dn2[v])
      BY <3>6 DEF FewerAccepted, TellsAccepted, TellsOnce
    <3>8. \A v \in {r.initiator, r.recipient} : LessShown(c, fe[v], fe[v]) /\ FewerAccepted(c, down[v], dn2[v])
      BY <3>5, <3>7 DEF LessShown
    <3>9. SameSides(r, r) /\ Turn(c, r, fe, jobs, down)
      BY <2>2, <3>2 DEF SameSides
    <3>10. Turn(c, r, fe, js2, dn2)
      BY <3>4, <3>5, <3>8, <3>9, TurnKept DEF EndsByParties
    <3> QED
      BY <3>1, <3>2, <3>10
  <2>6. ASSUME NEW u \in Users, Reconnect(u) PROVE Turn(c, rows'[c], fe', jobs', down')
    BY <2>2, <2>6 DEF Reconnect
  <2>7. CASE UNCHANGED callVars
    BY <2>2, <2>7 DEF callVars
  <2> QED
    BY <2>3, <2>4, <2>5, <2>6, <2>7 DEF CallNext, Places
<1> QED
  BY <1>1, <1>2

-----------------------------------------------------------------------------
(* Who shows a call that is over is going to be told.                      *)

\* What says that call c is over goes on saying it.
EndsStay(c, js, js2) ==
  \A i \in Places : Of(js[i], {"end"}, c) => Of(js2[i], {"end"}, c) /\ js2[i].user = js[i].user

OverStays(c, q, q2) ==
  (TellsOver(q) => TellsOver(q2)) /\ (TellsOverAfter(q, c) => TellsOverAfter(q2, c))

\* Who is going to be told of an end still is.
LEMMA EndsForStay ==
  ASSUME NEW c, NEW js, NEW js2, EndsStay(c, js, js2), NEW u
  PROVE  EndsFor(u, c, js) => EndsFor(u, c, js2)
BY DEF EndsFor, EndsStay

\* The same calls shown, and nothing taken back: who was going to be told is.
LEMMA ToldKept ==
  ASSUME NEW c, NEW r, NEW fs, NEW js, NEW js2, NEW dn, NEW dn2, Told(c, r, fs, js, dn),
         EndsStay(c, js, js2), \A v \in {r.initiator, r.recipient} : OverStays(c, dn[v], dn2[v])
  PROVE  Told(c, r, fs, js2, dn2)
<1>1. \A u : EndsFor(u, c, js) => EndsFor(u, c, js2)
  BY EndsForStay
<1>2. \A v \in {r.initiator, r.recipient} : TellsOver(dn[v]) => TellsOver(dn2[v])
  BY DEF OverStays
<1>3. TellsOverAfter(dn[r.initiator], c) => TellsOverAfter(dn2[r.initiator], c)
  BY DEF OverStays
<1> QED
  BY <1>1, <1>2, <1>3 DEF Told

\* No browser takes back that it ends a call.
LEMMA DoesEnds ==
  ASSUME NEW u, NEW f, NEW g, NEW js, NEW js2, NEW q, NEW q2, NEW ready,
         Does(u, f, g, js, js2, q, q2, ready), NEW c
  PROVE  EndsStay(c, js, js2)
<1>1. js2 = js => EndsStay(c, js, js2)
  BY DEF EndsStay
<1>2. Thins(js, js2) => EndsStay(c, js, js2)
  BY DEF EndsStay, Of, Thins, Turning
<1>3. ASSUME NEW kind, NEW call, Sends(js, js2, kind, u, call) PROVE EndsStay(c, js, js2)
  BY <1>3 DEF EndsStay, Of, Sends, Turning
<1>4. CASE Rejects(u, f, g, js, js2, q, q2)
  BY <1>3, <1>4 DEF Rejects
<1>5. CASE EndsCall(u, f, g, js, js2, q, q2, ready)
  BY <1>2, <1>3, <1>5 DEF EndsCall
<1>6. CASE DialGoesOut(u, f, g, js, js2, q, q2)
  BY <1>3, <1>6 DEF DialGoesOut
<1>7. CASE AcceptGoesOut(u, f, g, js, js2, q, q2)
  BY <1>3, <1>7 DEF AcceptGoesOut
<1>8. CASE AcceptIsDropped(u, f, g, js, js2, q, q2)
  BY <1>3, <1>8 DEF AcceptIsDropped
<1>9. CASE HearsAccepted(u, f, g, js, js2, q, q2, ready)
  BY <1>3, <1>9 DEF HearsAccepted
<1>10. CASE HearsMedia(u, f, g, js, js2, q, q2)
  BY <1>1, <1>3, <1>10 DEF HearsMedia
<1> QED
  BY <1>1, <1>4, <1>5, <1>6, <1>7, <1>8, <1>9, <1>10
  DEF Does, Initiates, Accepts, DialIsDropped, HearsIncoming

\* A side of the call that had one thing to do at a time shows c afterwards only
\* if it is going to be told that it is over.
LEMMA ToldOwn ==
  ASSUME NEW c, c # 0, NEW a, NEW u, NEW f, NEW g, NEW js, NEW js2, NEW q \in Seq(Messages), NEW q2, NEW ready,
         Does(u, f, g, js, js2, q, q2, ready), ready, Proper(f),
         f.callId = c => TellsOver(q) \/ EndsFor(u, c, js),
         u = a => TellsOverAfter(q, c) \/ EndsFor(a, c, js),
         u # a => ~TellsAccepted(q, c),
         q # <<>> /\ Head(q).what = "incoming" => Head(q).call # c
  PROVE  /\ g.callId = c => TellsOver(q2) \/ EndsFor(u, c, js2)
         /\ u = a => TellsOverAfter(q2, c) \/ EndsFor(a, c, js2)
<1>1. \A v : EndsFor(v, c, js) => EndsFor(v, c, js2)
  BY DoesEnds, EndsForStay
<1>2. q2 = q \/ (q # <<>> /\ q2 = Tail(q))
  BY DoesHear
<1>3. q # <<>> /\ q2 = Tail(q) =>
        /\ TellsOver(q) /\ ~IsOver(Head(q)) => TellsOver(q2)
        /\ TellsOverAfter(q, c) => TellsOverAfter(q2, c)
        /\ TellsOverAfter(q, c) /\ AcceptedIs(Head(q), c) => TellsOver(q2)
        /\ AcceptedIs(Head(q), c) => TellsAccepted(q, c)
  BY Tailed
<1>4. u = a => TellsOverAfter(q2, c) \/ EndsFor(a, c, js2)
  BY <1>1, <1>2, <1>3
<1>5. ASSUME g.callId = c, f.callId = c, q2 = q \/ (q # <<>> /\ q2 = Tail(q) /\ ~IsOver(Head(q)))
      PROVE  TellsOver(q2) \/ EndsFor(u, c, js2)
  BY <1>1, <1>3, <1>5
<1>6. ASSUME NEW w \in f.waits
      PROVE  IF w.call = 0 THEN f.callId = 0 ELSE w.call = f.callId
  BY DEF Proper
<1> SUFFICES g.callId = c => TellsOver(q2) \/ EndsFor(u, c, js2)
  BY <1>4
<1>7. CASE Initiates(u, f, g, js, js2, q, q2, ready)
  BY <1>7 DEF Initiates, Is, Idle
<1>8. CASE Accepts(u, f, g, js, js2, q, q2)
  <2>1. g.callId = f.callId /\ q2 = q
    BY <1>8 DEF Accepts, Is
  <2> QED
    BY <1>5, <2>1
<1>9. CASE Rejects(u, f, g, js, js2, q, q2) \/ EndsCall(u, f, g, js, js2, q, q2, ready) \/ AcceptIsDropped(u, f, g, js, js2, q, q2)
  BY <1>9 DEF Rejects, EndsCall, AcceptIsDropped, Is
<1>10. CASE DialGoesOut(u, f, g, js, js2, q, q2) \/ DialIsDropped(u, f, g, js, js2, q, q2)
  BY <1>6, <1>10 DEF DialGoesOut, DialIsDropped, Is
<1>11. CASE AcceptGoesOut(u, f, g, js, js2, q, q2)
  <2>1. g.callId = f.callId /\ q2 = q
    BY <1>6, <1>11 DEF AcceptGoesOut, Is
  <2> QED
    BY <1>5, <2>1
<1>12. CASE HearsIncoming(u, f, g, js, js2, q, q2, ready)
  BY <1>12 DEF HearsIncoming, HearsNext, Is
<1>13. CASE HearsAccepted(u, f, g, js, js2, q, q2, ready)
  <2>1. q # <<>> /\ q2 = Tail(q) /\ Head(q).what = "accepted" /\ g.callId = Head(q).call
    BY <1>13 DEF HearsAccepted, HearsNext, Is
  <2>2. g.callId = c => AcceptedIs(Head(q), c)
    BY <2>1 DEF AcceptedIs
  <2> QED
    BY <1>1, <1>3, <2>1, <2>2
<1>14. CASE HearsMedia(u, f, g, js, js2, q, q2)
  <2>1. g.callId = f.callId /\ q # <<>> /\ q2 = Tail(q) /\ ~IsOver(Head(q))
    BY <1>14 DEF HearsMedia, HearsNext, Is, IsOver
  <2> QED
    BY <1>5, <2>1
<1> QED
  BY <1>7, <1>8, <1>9, <1>10, <1>11, <1>12, <1>13, <1>14 DEF Does

\* The steps of any browser, for a call of which both sides had one thing to do
\* at a time.
LEMMA ToldBrowser ==
  ASSUME Fits, Single, Unheard, NEW c \in DOMAIN rows, Turn(c, rows[c], fe, jobs, down),
         Told(c, rows[c], fe, jobs, down), NEW u \in Users,
         Does(u, fe[u], fe'[u], jobs, jobs', down[u], down'[u], u \in calm'),
         \A v \in Users \ {u} : fe'[v] = fe[v] /\ down'[v] = down[v], calm' \subseteq calm,
         Parties(rows[c]) \subseteq calm'
  PROVE  Told(c, rows[c], fe', jobs', down')
<1>1. DownOK(down, rows) /\ down \in [Users -> Seq(Messages)]
  BY DEF Fits, DownOK
<1>2. PICK r, a, b : r = rows[c] /\ a = r.initiator /\ b = r.recipient
  OBVIOUS
<1>3. a \in Users /\ b \in Users /\ a # b /\ Parties(rows[c]) = {a, b} /\ c # 0
  BY <1>2, PartiesAre
<1>4. PICK g, q2, js2 : g = fe' /\ q2 = down' /\ js2 = jobs'
  OBVIOUS
<1>5. Does(u, fe[u], g[u], jobs, js2, down[u], q2[u], u \in calm')
  BY <1>4
<1>6. EndsStay(c, jobs, js2)
  BY <1>5, DoesEnds
<1>7. \A v : EndsFor(v, c, jobs) => EndsFor(v, c, js2)
  BY <1>6, EndsForStay
<1>8. \A v \in {a, b} : v # u => g[v] = fe[v] /\ q2[v] = down[v]
  BY <1>3, <1>4
<1> SUFFICES ASSUME r.status \in Final
             PROVE  /\ \A v \in {a, b} : g[v].callId = c => TellsOver(q2[v]) \/ EndsFor(v, c, js2)
                    /\ TellsOverAfter(q2[a], c) \/ EndsFor(a, c, js2)
  BY <1>2, <1>4 DEF Told
<1>9. /\ \A v \in {a, b} : fe[v].callId = c => TellsOver(down[v]) \/ EndsFor(v, c, jobs)
      /\ TellsOverAfter(down[a], c) \/ EndsFor(a, c, jobs)
  BY <1>2 DEF Told
<1>10. CASE u \notin {a, b}
  BY <1>7, <1>8, <1>9, <1>10
<1>11. CASE u \in {a, b}
  <2>1. u \in calm' /\ u \in calm
    BY <1>3, <1>11
  <2>2. Proper(fe[u]) /\ down[u] \in Seq(Messages)
    BY <1>1, <2>1 DEF Single
  <2>3. u # a => ~TellsAccepted(down[u], c)
    BY <1>2, <1>11 DEF Turn
  <2>4. down[u] # <<>> /\ Head(down[u]).what = "incoming" => Head(down[u]).call # c
    <3>1. down[u] # <<>> => 1 \in DOMAIN down[u] /\ Head(down[u]) = down[u][1]
      BY <2>2
    <3>2. "pending" \notin Final
      BY DEF Final
    <3> QED
      BY <1>2, <3>1, <3>2 DEF Unheard
  <2>5. /\ fe[u].callId = c => TellsOver(down[u]) \/ EndsFor(u, c, jobs)
        /\ u = a => TellsOverAfter(down[u], c) \/ EndsFor(a, c, jobs)
    BY <1>9, <1>11
  <2>6. PICK f, q, gu, qu : f = fe[u] /\ q = down[u] /\ gu = g[u] /\ qu = q2[u]
    OBVIOUS
  <2>7. /\ gu.callId = c => TellsOver(qu) \/ EndsFor(u, c, js2)
        /\ u = a => TellsOverAfter(qu, c) \/ EndsFor(a, c, js2)
    <3>1. Does(u, f, gu, jobs, js2, q, qu, u \in calm') /\ Proper(f) /\ q \in Seq(Messages)
      BY <1>5, <2>2, <2>6
    <3>2. /\ f.callId = c => TellsOver(q) \/ EndsFor(u, c, jobs)
          /\ u = a => TellsOverAfter(q, c) \/ EndsFor(a, c, jobs)
          /\ u # a => ~TellsAccepted(q, c)
          /\ q # <<>> /\ Head(q).what = "incoming" => Head(q).call # c
      BY <2>3, <2>4, <2>5, <2>6
    <3> QED
      BY <1>3, <2>1, <3>1, <3>2, ToldOwn
  <2> QED
    BY <1>3, <1>7, <1>8, <1>9, <1>11, <2>6, <2>7
<1> QED
  BY <1>10, <1>11

\* What is sent does not hide that a call is over.
LEMMA MailTold ==
  ASSUME DownOK(down, rows), NEW v, NEW what \in {"incoming", "accepted", "rejected", "ended", "offer", "answer"},
         NEW call \in Nat, Notify(v, what, call), NEW c, what = "accepted" => call # c, NEW x \in Users
  PROVE  OverStays(c, down[x], down'[x])
<1>1. PICK m : m = [what |-> what, call |-> call]
  OBVIOUS
<1>2. m \in Messages /\ m.what = what /\ m.call = call /\ Mailed(v, m)
  BY <1>1, NotifyAdds
<1>3. ~AcceptedIs(m, c)
  BY <1>2 DEF AcceptedIs
<1>4. down[x] \in Seq(Messages)
  BY DEF DownOK
<1>5. PICK q2 : q2 = down'[x]
  OBVIOUS
<1>6. CASE q2 = Append(down[x], m)
  <2>1. /\ TellsOver(down[x]) => TellsOver(q2)
        /\ TellsOverAfter(down[x], c) /\ ~AcceptedIs(m, c) => TellsOverAfter(q2, c)
    BY <1>2, <1>4, <1>6, Appended, ZenonT(40)
  <2> QED
    BY <1>3, <1>5, <2>1 DEF OverStays
<1>7. CASE q2 = down[x]
  BY <1>5, <1>7 DEF OverStays
<1> QED
  BY <1>2, <1>5, <1>6, <1>7 DEF Mailed

\* Who is sent word that a call is over is told after all it has been sent.
LEMMA OverAdded ==
  ASSUME NEW q \in Seq(Messages), NEW m \in Messages, IsOver(m), NEW c, NEW q2, q2 = Append(q, m)
  PROVE  TellsOver(q2) /\ TellsOverAfter(q2, c)
BY Appended

\* One side ends the call: the other is told.
LEMMA ToldEnded ==
  ASSUME Fits, NEW j \in Places, Writes(j, "end"), Notify(OtherParty(jobs[j]), "ended", 0),
         \A u \in Users : online[u], NEW c \in DOMAIN rows, c = jobs[j].call, Turn(c, rows[c], fe, jobs, down),
         NEW r2, SameSides(rows[c], r2), NEW js2, NEW dn2, dn2 = down'
  PROVE  Told(c, r2, fe, js2, dn2)
<1>1. DownOK(down, rows) /\ JobsOK(jobs, rows) /\ down \in [Users -> Seq(Messages)]
  BY DEF Fits, DownOK
<1>2. PICK r, a, b : r = rows[c] /\ a = r.initiator /\ b = r.recipient
  OBVIOUS
<1>3. a \in Users /\ b \in Users /\ a # b /\ EndsByParties(c, r, jobs)
  BY <1>2, PartiesAre
<1>4. Of(jobs[j], {"end"}, c)
  BY DEF Of, Writes
<1>5. PICK x, y : x = jobs[j].user /\ y = OtherParty(jobs[j])
  OBVIOUS
<1>6. x \in {a, b} /\ y = IF x = a THEN b ELSE a
  <2>1. x \in {a, b}
    BY <1>2, <1>3, <1>4, <1>5 DEF EndsByParties
  <2> QED
    BY <1>2, <1>3, <1>5, <2>1 DEF OtherParty, OtherSide
<1>7. y \in Users /\ x \in Users /\ x # y
  BY <1>3, <1>6
<1>8. PICK m : m = [what |-> "ended", call |-> 0]
  OBVIOUS
<1>9. m \in Messages /\ IsOver(m) /\ Mailed(y, m)
  <2>1. PICK what, call : what = "ended" /\ call = 0
    OBVIOUS
  <2>2. /\ what \in {"incoming", "accepted", "rejected", "ended", "offer", "answer"} /\ call \in Nat
        /\ m = [what |-> what, call |-> call]
    BY <1>8, <2>1
  <2>3. Notify(y, what, call)
    BY <1>5, <2>1
  <2>4. DownOK(down, rows)
    BY <1>1
  <2>5. m \in Messages /\ m.what = what /\ Mailed(y, m)
    BY <2>2, <2>3, <2>4, NotifyAdds
  <2> QED
    BY <2>1, <2>5 DEF IsOver
<1>10. PICK q2 : q2 = dn2[y]
  OBVIOUS
<1>11. TellsOver(q2) /\ TellsOverAfter(q2, c)
  <2>1. PICK q : q = down[y]
    OBVIOUS
  <2>2. q2 = Append(q, m) /\ q \in Seq(Messages) /\ m \in Messages /\ IsOver(m)
    BY <1>1, <1>7, <1>9, <1>10, <2>1 DEF Mailed
  <2> QED
    BY <2>2, OverAdded
<1>12. dn2[x] = down[x]
  BY <1>7, <1>9 DEF Mailed
<1>13. fe[x].callId # c /\ (x = a => ~TellsAccepted(down[a], c))
  BY <1>2, <1>4, <1>5 DEF Turn
<1>14. \A v \in {a, b} : fe[v].callId = c => TellsOver(dn2[v])
  BY <1>6, <1>10, <1>11, <1>13
<1>15. TellsOverAfter(dn2[a], c)
  <2>1. CASE x = a
    BY <1>12, <1>13, <2>1 DEF TellsAccepted, TellsOverAfter
  <2>2. CASE x # a
    BY <1>6, <1>10, <1>11, <2>2
  <2> QED
    BY <2>1, <2>2
<1>16. r2.initiator = a /\ r2.recipient = b
  BY <1>2 DEF SameSides
<1> QED
  BY <1>14, <1>15, <1>16 DEF Told

\* The steps of the gateway, when nothing was lost.
LEMMA ToldGateway ==
  ASSUME Fits, NEW j \in Places, Gateway(j) \/ Fail(j), drops' = 0, \A u \in Users : online[u],
         NEW c \in DOMAIN rows, Turn(c, rows[c], fe, jobs, down), Told(c, rows[c], fe, jobs, down)
  PROVE  Told(c, rows'[c], fe', jobs', down')
<1>1. /\ DownOK(down, rows) /\ RowsOK(rows) /\ JobsOK(jobs, rows)
      /\ down \in [Users -> Seq(Messages)] /\ jobs \in [Places -> Jobs \union {NoJob}]
  BY DEF Fits, DownOK, JobsOK
<1>2. /\ fe' = fe /\ jobs[j] # NoJob
      /\ \A i \in Places \ {j} : jobs'[i] = jobs[i]
      /\ \/ InsertStart(j) \/ Accepted(j) \/ CallEnded(j) \/ CallRejected(j)
         \/ rows' = rows /\ down' = down /\ Moves(jobs[j], jobs'[j], rows)
         \/ rows' = rows /\ jobs'[j] = NoJob /\ Tells(jobs[j])
  BY GatewayStep
<1>3. PICK r, r2, js2, dn2 : r = rows[c] /\ r2 = rows'[c] /\ js2 = jobs' /\ dn2 = down'
  OBVIOUS
<1>4. SameSides(r, r2)
  BY <1>3, GatewayFits DEF Kept, SameSides
<1>5. r.initiator \in Users /\ r.recipient \in Users
  BY <1>3, PartiesAre
<1>6. ASSUME r2 = r, EndsStay(c, jobs, js2), \A x \in Users : OverStays(c, down[x], dn2[x])
      PROVE  Told(c, r2, fe, js2, dn2)
  <2>1. \A v \in {r.initiator, r.recipient} : OverStays(c, down[v], dn2[v])
    BY <1>5, <1>6
  <2>2. Told(c, r, fe, jobs, down)
    BY <1>3
  <2>3. Told(c, r, fe, js2, dn2)
    BY <1>6, <2>1, <2>2, ToldKept
  <2> QED
    BY <1>6, <2>3
<1>7. dn2 = down => \A x \in Users : OverStays(c, down[x], dn2[x])
  BY DEF OverStays
<1>8. \A i \in Places \ {j} : js2[i] = jobs[i]
  BY <1>2, <1>3
<1>9. ASSUME jobs[j].kind # "end" \/ jobs[j].call # c \/ (js2[j].kind = "end" /\ js2[j].call = c /\ js2[j].user = jobs[j].user)
      PROVE  EndsStay(c, jobs, js2)
  BY <1>8, <1>9 DEF EndsStay, Of
<1>10. jobs[j].call \in Nat
  BY <1>1, <1>2 DEF Jobs
<1>11. ASSUME NEW v, NEW what \in {"incoming", "accepted", "rejected", "ended", "offer", "answer"}, NEW call \in Nat,
              Notify(v, what, call), what = "accepted" => call # c
       PROVE  \A x \in Users : OverStays(c, down[x], dn2[x])
  BY <1>1, <1>3, <1>11, MailTold
<1>12. ASSUME NEW kind \in Turning, Writes(j, kind)
       PROVE  (c # jobs[j].call => r2 = r) /\ jobs[j].kind = kind
  <2>1. \A d \in DOMAIN rows : d # jobs[j].call => rows'[d] = rows[d]
    BY <1>12, WritesFits
  <2> QED
    BY <1>3, <1>12, <2>1 DEF Writes
<1>13. ASSUME InsertStart(j) PROVE Told(c, r2, fe, js2, dn2)
  <2>1. jobs[j].at = "insert"
    BY <1>13 DEF InsertStart
  <2>2. jobs[j].user \in Users /\ jobs[j].to \in Users \ {jobs[j].user} /\ jobs[j].kind = "start"
    BY <1>1, <1>2, <2>1, JobAt
  <2>3. PICK new : new = NewSession(jobs[j].user, jobs[j].to, FALSE)
    OBVIOUS
  <2>4. new \in Sessions /\ rows \in Seq(Sessions)
    BY <1>1, <2>2, <2>3 DEF NewSession, NoSession, Sessions, Statuses, RowsOK
  <2>5. rows' = Append(rows, new)
    BY <1>13, <2>3 DEF InsertStart
  <2>6. r2 = r
    BY <1>3, <2>4, <2>5
  <2>7. PICK n : n = Len(rows) + 1
    OBVIOUS
  <2>8. n \in Nat /\ Notify(jobs[j].to, "incoming", n)
    BY <1>1, <1>13, <2>7 DEF InsertStart, RowsOK
  <2>9. \A x \in Users : OverStays(c, down[x], dn2[x])
    BY <1>11, <2>8
  <2> QED
    BY <1>6, <1>9, <2>2, <2>6, <2>9
<1>14. ASSUME Accepted(j) PROVE Told(c, r2, fe, js2, dn2)
  <2>1. Writes(j, "accept") /\ Notify(OtherParty(jobs[j]), "accepted", jobs[j].call)
    BY <1>14 DEF Accepted
  <2>2. (c # jobs[j].call => r2 = r) /\ jobs[j].kind = "accept"
    BY <1>12, <2>1 DEF Turning
  <2>3. CASE c # jobs[j].call
    <3>1. \A x \in Users : OverStays(c, down[x], dn2[x])
      BY <1>10, <1>11, <2>1, <2>3
    <3> QED
      BY <1>6, <1>9, <2>2, <2>3, <3>1
  <2>4. CASE c = jobs[j].call
    <3>1. Of(jobs[j], {"accept", "reject"}, c) /\ jobs[j].at = "update"
      BY <2>1, <2>2, <2>4 DEF Of, Writes
    <3>2. "status" \in jobs[j].cols
      BY <2>2, <3>1 DEF Turn
    <3>3. rows'[c].status = IF "status" \in jobs[j].cols THEN StatusOf("accept") ELSE rows[c].status
      BY <2>1, <2>4, WritesStatus DEF Turning
    <3>4. r2.status \notin Final
      BY <1>3, <3>2, <3>3 DEF StatusOf, Final
    <3> QED
      BY <3>4 DEF Told
  <2> QED
    BY <2>3, <2>4
<1>15. ASSUME CallEnded(j) PROVE Told(c, r2, fe, js2, dn2)
  <2>1. Writes(j, "end") /\ Notify(OtherParty(jobs[j]), "ended", 0)
    BY <1>15 DEF CallEnded
  <2>2. c # jobs[j].call => r2 = r
    BY <1>12, <2>1 DEF Turning
  <2>3. CASE c # jobs[j].call
    <3>1. \A x \in Users : OverStays(c, down[x], dn2[x])
      BY <1>11, <2>1
    <3> QED
      BY <1>6, <1>9, <2>2, <2>3, <3>1
  <2>4. CASE c = jobs[j].call
    BY <1>3, <1>4, <2>1, <2>4, ToldEnded
  <2> QED
    BY <2>3, <2>4
<1>16. ASSUME CallRejected(j) PROVE Told(c, r2, fe, js2, dn2)
  <2>1. Writes(j, "reject") /\ dn2 = down
    BY <1>3, <1>16 DEF CallRejected
  <2>2. (c # jobs[j].call => r2 = r) /\ jobs[j].kind = "reject"
    BY <1>12, <2>1 DEF Turning
  <2>3. CASE c # jobs[j].call
    BY <1>6, <1>7, <1>9, <2>1, <2>2, <2>3
  <2>4. CASE c = jobs[j].call
    <3>1. Of(jobs[j], {"accept", "reject"}, c)
      BY <2>2, <2>4 DEF Of
    <3>2. fe[r.initiator].callId # c /\ ~TellsAccepted(down[r.initiator], c) /\ fe[r.recipient].callId # c
      BY <1>3, <2>2, <3>1 DEF Turn
    <3>3. TellsOverAfter(dn2[r.initiator], c)
      BY <2>1, <3>2 DEF TellsAccepted, TellsOverAfter
    <3>4. r2.initiator = r.initiator /\ r2.recipient = r.recipient
      BY <1>4 DEF SameSides
    <3> QED
      BY <3>2, <3>3, <3>4 DEF Told
  <2> QED
    BY <2>3, <2>4
<1>17. ASSUME rows' = rows, down' = down, Moves(jobs[j], jobs'[j], rows) PROVE Told(c, r2, fe, js2, dn2)
  <2>1. r2 = r /\ dn2 = down /\ Moves(jobs[j], js2[j], rows)
    BY <1>3, <1>17
  <2>2. EndsStay(c, jobs, js2)
    BY <1>9, <2>1 DEF Moves
  <2> QED
    BY <1>6, <1>7, <2>1, <2>2
<1>18. ASSUME rows' = rows, jobs'[j] = NoJob, Tells(jobs[j]) PROVE Told(c, r2, fe, js2, dn2)
  <2>1. r2 = r /\ jobs[j].kind # "end"
    BY <1>3, <1>18 DEF Tells
  <2>2. PICK v, what, call : /\ what \in {"rejected", "offer", "answer"}
                             /\ call \in {0, jobs[j].call} /\ Notify(v, what, call)
    BY <1>18 DEF Tells
  <2>3. call \in Nat
    BY <1>10, <2>2
  <2>4. \A x \in Users : OverStays(c, down[x], dn2[x])
    BY <1>11, <2>2, <2>3
  <2> QED
    BY <1>6, <1>9, <2>1, <2>4
<1>19. Told(c, r2, fe, js2, dn2)
  BY <1>2, <1>13, <1>14, <1>15, <1>16, <1>17, <1>18
<1> QED
  BY <1>2, <1>3, <1>19

\* Every step keeps AllTold.
LEMMA AllToldStep ==
  ASSUME Fits, Single, Unheard, InTurn, AllTold, Kept(rows, rows'), [CallNext]_callVars
  PROVE  AllTold'
<1> SUFFICES ASSUME drops' = 0
             PROVE  /\ \A u \in Users : online'[u]
                    /\ \A c \in DOMAIN rows' : Parties(rows'[c]) \subseteq calm' => Told(c, rows'[c], fe', jobs', down')
  BY DEF AllTold, Calmly
<1>1. drops \in Nat
  BY BoundsAssumption DEF Fits
<1>2. ASSUME NEW u \in Users, Drop(u) PROVE FALSE
  BY <1>1, <1>2 DEF Drop
<1>3. drops' = drops \/ drops' # 0
  <2>1. ASSUME NEW j \in Places, Gateway(j) \/ Fail(j) PROVE drops' = drops \/ drops' # 0
    BY <2>1, GatewayStep DEF InsertStart, Accepted, CallEnded, CallRejected, Writes
  <2>2. ASSUME NEW u \in Users,
               \/ \E v \in Users \ {u} : InitiateCall(u, v)
               \/ AcceptCall(u) \/ RejectCall(u) \/ HangUp(u) \/ PeerFails(u)
               \/ Hear(u) \/ Settle(u)
        PROVE  drops' = drops
    BY <2>2, BrowserStep
  <2>3. ASSUME NEW u \in Users, Reconnect(u) PROVE drops' = drops
    BY <2>3 DEF Reconnect
  <2>4. CASE UNCHANGED callVars
    BY <2>4 DEF callVars
  <2> QED
    BY <1>2, <2>1, <2>2, <2>3, <2>4 DEF CallNext, Places
<1>4. /\ \A u \in Users : online[u]
      /\ \A c \in DOMAIN rows : Calmly(c) => Told(c, rows[c], fe, jobs, down)
  BY <1>3 DEF AllTold
<1>5. ASSUME NEW u \in Users, Reconnect(u) PROVE FALSE
  BY <1>4, <1>5 DEF Reconnect
<1>6. \A u \in Users : online'[u]
  <2>1. online' = online
    <3>1. ASSUME NEW j \in Places, Gateway(j) \/ Fail(j) PROVE online' = online
      BY <3>1, GatewayStep
    <3>2. ASSUME NEW u \in Users,
                 \/ \E v \in Users \ {u} : InitiateCall(u, v)
                 \/ AcceptCall(u) \/ RejectCall(u) \/ HangUp(u) \/ PeerFails(u)
                 \/ Hear(u) \/ Settle(u)
          PROVE  online' = online
      BY <3>2, BrowserStep
    <3>3. CASE UNCHANGED callVars
      BY <3>3 DEF callVars
    <3> QED
      BY <1>2, <1>5, <3>1, <3>2, <3>3 DEF CallNext, Places
  <2> QED
    BY <1>4, <2>1
<1>7. ASSUME NEW c \in DOMAIN rows', Parties(rows'[c]) \subseteq calm' PROVE Told(c, rows'[c], fe', jobs', down')
  <2>1. CASE c \notin DOMAIN rows
    <3>1. PICK j \in Places : InsertStart(j)
      BY <2>1, CalmerRows
    <3>2. jobs[j].at = "insert" /\ jobs[j] # NoJob /\ JobsOK(jobs, rows)
      BY <3>1, NoJobIs DEF InsertStart, Fits
    <3>3. jobs[j].user \in Users /\ jobs[j].to \in Users \ {jobs[j].user}
      BY <3>2, JobAt
    <3>4. PICK new : new = NewSession(jobs[j].user, jobs[j].to, FALSE)
      OBVIOUS
    <3>5. new \in Sessions /\ new.status = "pending" /\ rows \in Seq(Sessions)
      BY <3>3, <3>4 DEF NewSession, NoSession, Sessions, Statuses, RowsOK, Fits
    <3>6. rows' = Append(rows, new)
      BY <3>1, <3>4 DEF InsertStart
    <3>7. rows'[c] = new
      BY <2>1, <3>5, <3>6
    <3> QED
      BY <3>5, <3>7 DEF Told, Final
  <2>2. CASE c \in DOMAIN rows
    <3>1. Parties(rows'[c]) = Parties(rows[c]) /\ calm' \subseteq calm
      BY <2>2, CalmerRows DEF Kept, Parties
    <3>2. /\ Turn(c, rows[c], fe, jobs, down) /\ Told(c, rows[c], fe, jobs, down)
          /\ Parties(rows[c]) \subseteq calm'
      BY <1>4, <1>7, <2>2, <3>1 DEF InTurn, Calmly
    <3>3. ASSUME NEW u \in Users,
                 \/ \E v \in Users \ {u} : InitiateCall(u, v)
                 \/ AcceptCall(u) \/ RejectCall(u) \/ HangUp(u) \/ PeerFails(u)
                 \/ Hear(u) \/ Settle(u)
          PROVE  Told(c, rows'[c], fe', jobs', down')
      <4>1. /\ Does(u, fe[u], fe'[u], jobs, jobs', down[u], down'[u], u \in calm')
            /\ \A v \in Users \ {u} : fe'[v] = fe[v] /\ down'[v] = down[v]
            /\ rows' = rows
        BY <3>3, BrowserStep
      <4>2. Told(c, rows[c], fe', jobs', down')
        BY <2>2, <3>1, <3>2, <4>1, ToldBrowser
      <4> QED
        BY <4>1, <4>2
    <3>4. ASSUME NEW j \in Places, Gateway(j) \/ Fail(j) PROVE Told(c, rows'[c], fe', jobs', down')
      BY <1>4, <2>2, <3>2, <3>4, ToldGateway
    <3>5. CASE UNCHANGED callVars
      BY <3>2, <3>5 DEF callVars
    <3> QED
      BY <1>2, <1>5, <3>3, <3>4, <3>5 DEF CallNext, Places
  <2> QED
    BY <2>1, <2>2
<1> QED
  BY <1>6, <1>7

-----------------------------------------------------------------------------
(* Theorems.                                                               *)

\* The invariant holds when nobody has dialled.
LEMMA CallInvInit == CallInit => CallInv
<1> SUFFICES ASSUME CallInit PROVE CallInv
  OBVIOUS
<1>1. /\ rows = <<>> /\ jobs = [j \in Places |-> NoJob] /\ down = [u \in Users |-> <<>>]
      /\ online = [u \in Users |-> TRUE] /\ fe = [u \in Users |-> Idle]
      /\ dialled = 0 /\ drops = 0 /\ calm = Users /\ crossed = {}
  BY DEF CallInit, Places
<1>2. Idle \in Browsers /\ Idle.callId = 0 /\ ~Idle.isIncoming /\ Idle.camera = "off" /\ Idle.waits = {}
      /\ Idle.status = "idle"
  BY DEF Idle, Browsers
<1>3. Fits
  <2>1. RowsOK(rows) /\ Kept(rows, rows)
    BY <1>1 DEF RowsOK, Kept
  <2>2. JobsOK(jobs, rows)
    BY <1>1, NoJobIs DEF JobsOK
  <2>3. DownOK(down, rows)
    BY <1>1 DEF DownOK
  <2>4. FeOK(fe, rows)
    BY <1>1, <1>2 DEF FeOK, BrowserOK
  <2>5. dialled \in 0..MaxCalls /\ drops \in 0..MaxDrops
    BY <1>1, BoundsAssumption DEF MaxCalls
  <2> QED
    BY <1>1, <1>2, <2>1, <2>2, <2>3, <2>4, <2>5 DEF Fits
<1>4. Lone
  BY <1>1, NoJobIs DEF Lone, UpdatingJob
<1>5. Single
  BY <1>1, <1>2 DEF Single, Proper, Rings
<1>6. Unheard
  BY <1>1 DEF Unheard
<1>7. InTurn
  BY <1>1 DEF InTurn
<1>8. AllTold
  BY <1>1 DEF AllTold
<1> QED
  BY <1>3, <1>4, <1>5, <1>6, <1>7, <1>8, FitsIs DEF CallInv

\* The parts of the types, one step later.
LEMMA FitsNext == Fits' => (CallTypeOK /\ CallsPlaced)'
<1>1. Fits => CallTypeOK /\ CallsPlaced
  BY FitsIs
<1> QED
  BY <1>1, PTL

\* Every step keeps the invariant.
LEMMA CallInvNext == CallInv /\ [CallNext]_callVars => CallInv'
<1> SUFFICES ASSUME CallInv, [CallNext]_callVars PROVE CallInv'
  OBVIOUS
<1>1. Fits /\ Lone /\ Single /\ Unheard /\ InTurn /\ AllTold
  BY FitsIs DEF CallInv
<1>2. Fits' /\ Kept(rows, rows')
  BY <1>1, FitsStep
<1>3. (CallTypeOK /\ CallsPlaced)'
  BY <1>2, FitsNext
<1>4. Lone'
  BY <1>1, <1>2, LoneStep
<1>5. Single'
  BY <1>1, <1>2, SingleStep
<1>6. Unheard'
  BY <1>1, UnheardStep
<1>7. InTurn'
  BY <1>1, <1>2, InTurnStep
<1>8. AllTold'
  BY <1>1, <1>2, AllToldStep
<1> QED
  BY <1>3, <1>4, <1>5, <1>6, <1>7, <1>8 DEF CallInv

\* The inductive invariant of video calls, for any users, dials and bounds.
THEOREM CallInvariant == CallSpec => []CallInv
BY CallInvInit, CallInvNext, PTL DEF CallSpec

\* Whatever VideoCallService, the gateway and the table hold is of its type; every
\* call a message or a browser names exists, and a browser that shows an incoming
\* call knows which one it is.
THEOREM CallTypeCorrect == CallSpec => []CallTypeOK
<1>1. CallInv => CallTypeOK
  BY DEF CallInv
<1> QED
  BY <1>1, CallInvariant, PTL

\* A browser that shows no call has its camera off, unless a second call, or the
\* end of one, came while a call was going on or waited for the camera: endCall
\* stops the stream of localStream, and rejectCall, which does not, runs only
\* without one.
THEOREM CameraReleased == CallSpec => []CalmCameraReleased
<1>1. CallInv => CalmCameraReleased
  BY DEF CallInv, Single, Proper, CalmCameraReleased
<1> QED
  BY <1>1, CallInvariant, PTL

\* When nothing is lost and nothing is under way any more, no browser shows a call
\* that is over, if both sides of the call had one thing to do at a time: the
\* video-call:ended and video-call:rejected that reach a browser reach it after
\* the video-call:accepted of the same call.
THEOREM ToldAtLast == CallSpec => []ToldWhenQuiet
<1>1. CallInv => ToldWhenQuiet
  <2> SUFFICES ASSUME CallInv, drops = 0, CallsQuiet, \A u \in Users : down[u] = <<>>, NEW u \in Users,
                      NEW c, c = fe[u].callId, c # 0, Parties(rows[c]) \subseteq calm
               PROVE  rows[c].status \notin Final
    BY DEF ToldWhenQuiet
  <2>1. Fits /\ AllTold
    BY FitsIs DEF CallInv
  <2>2. c \in DOMAIN rows /\ u \in Parties(rows[c])
    BY <2>1 DEF Fits, FeOK, BrowserOK
  <2>3. Told(c, rows[c], fe, jobs, down)
    BY <2>1, <2>2 DEF AllTold, Calmly
  <2>4. ~TellsOver(down[u])
    BY DEF TellsOver
  <2>5. ~EndsFor(u, c, jobs)
    BY NoJobIs DEF EndsFor, Of, CallsQuiet, Places
  <2>6. u \in {rows[c].initiator, rows[c].recipient}
    BY <2>1, <2>2, PartiesAre
  <2> QED
    BY <2>3, <2>4, <2>5, <2>6 DEF Told
<1> QED
  BY <1>1, CallInvariant, PTL

\* updateSessionStatus takes no time of a session from it, nor its duration,
\* unless two updates of the session overlapped.
THEOREM TimesStay == CallSpec => CalmTimesStay
<1>1. ASSUME CallInv, [CallNext]_callVars
      PROVE  [\A c \in DOMAIN rows \ crossed' : \A t \in Columns \ {"status"} : rows[c][t] => rows'[c][t]]_callVars
  <2>1. Fits /\ Lone
    BY <1>1, FitsIs DEF CallInv
  <2> QED
    BY <1>1, <2>1, LoneStep
<1> QED
  BY <1>1, CallInvariant, PTL DEF CallSpec, CalmTimesStay

-----------------------------------------------------------------------------
(***************************************************************************)
(* LiveStream.                                                             *)
(***************************************************************************)
(* The inductive invariant.                                                *)

Hands == 1..MaxHand

Rowed == {"load", "select", "update", "router", "transport", "object", "session"}

\* What a handler knows where it stands: its session exists, and what it has
\* found is there to be used.
Fit(w, ids) ==
  /\ w.at \in {"insert", "router", "transport", "active"} \/ w.kind = "produce" => w.user \in Users
  /\ w.at \in Rowed => w.call \in ids
  /\ w.at \in Updating => w.kind \in {"join", "produce", "reject", "end"}
  /\ w.at \in {"select", "update"} => w.seen \in Sessions
  /\ w.at = "transport" \/ w.kind = "consume" => w.source \in Ids
  /\ w.at = "object" => w.transport \in Transports
  /\ w.at = "insert" => w.to \in Users

Placed ==
  /\ \A t \in transports : t.call \in DOMAIN rows
  /\ \A j \in Hands : Fit(hand[j], DOMAIN rows)

\* Unless two handlers were at it at once, the call for which a router is being
\* created has none.
Routing ==
  \A j \in Hands :
    hand[j].at = "router" /\ hand[j].call \notin raced =>
      /\ routers[hand[j].call] = 0
      /\ \A i \in Hands : hand[i].at = "router" /\ hand[i].call = hand[j].call => i = j

\* What a user has open is on the lists that his disconnection goes through,
\* and it is only for a user who is there that something is made; unless
\* something was being made when he went.
Owned ==
  \A u \in Users \ late :
    /\ \A t \in transports : t.owner = u => t.id \in userTransports[u]
    /\ \A p \in producers : p.owner = u => p.id \in userProducers[u]
    /\ ~OnLine(u) => ~Making(u) /\ \A m \in transports \union producers : m.owner # u

\* The status from which a handler of this kind sets out.
From(kind, status) ==
  /\ kind = "join" => status = "pending"
  /\ kind = "produce" => StartsActive(status)

\* Unless two updates of a session overlapped, the one that is under way finds
\* the row in a status from which it sets out.
Steady ==
  \A j \in Hands :
    hand[j].at \in Updating /\ hand[j].call \notin crossed =>
      /\ \A i \in Hands : hand[i].at \in Updating /\ hand[i].call = hand[j].call => i = j
      /\ From(hand[j].kind, rows[hand[j].call].status)

\* An update about to write writes the status, or the row has it already.
Writing ==
  \A j \in Hands :
    hand[j].at = "update" /\ hand[j].call \notin crossed =>
      "status" \in hand[j].cols \/ rows[hand[j].call].status = NewStatus(hand[j].kind)

Ender(j, c) == hand[j].kind = "end" /\ hand[j].call = c /\ hand[j].at \in Updating

\* The one session a user was in when he went is over, or is being ended.
Leaving ==
  \A u \in Users :
    /\ left[u] \subseteq DOMAIN rows
    /\ \A c \in left[u] \ crossed :
         left[u] = {c} => rows[c].status \in Final \/ \E j \in Hands : Ender(j, c)

LiveInv ==
  /\ LiveTypeOK
  /\ Placed
  /\ CalmRoutersKnown
  /\ Routing
  /\ Owned
  /\ Steady
  /\ Writing
  /\ Leaving

-----------------------------------------------------------------------------
(* Lemmas about the operators.                                             *)

\* What a handler is given to remember has its type.
LEMMA WorkTyped ==
  ASSUME NEW kind \in {"start", "join", "create", "produce", "consume", "reject", "end"},
         NEW u \in Users \union {Nobody}, NEW c \in 0..MaxSessions,
         NEW at \in {"insert", "router", "transport", "object", "session", "active", "load",
                     "select", "update"}
  PROVE  /\ For(kind, u, c, at) \in Work
         /\ For(kind, u, c, at).kind = kind
         /\ For(kind, u, c, at).user = u
         /\ For(kind, u, c, at).call = c
         /\ For(kind, u, c, at).at = at
         /\ For(kind, u, c, at) # NoWork
<1>1. 0 \in 0..MaxObjects
  BY MediaAssumption
<1>2. For(kind, u, c, at) \in Work
  BY <1>1 DEF For, NoWork, Work
<1>3. /\ For(kind, u, c, at).kind = kind
      /\ For(kind, u, c, at).user = u
      /\ For(kind, u, c, at).call = c
      /\ For(kind, u, c, at).at = at
  BY DEF For, NoWork
<1>4. NoWork.kind = "none"
  BY DEF NoWork
<1>5. QED
  BY <1>2, <1>3, <1>4

\* Nor has it to name a user: neither an end nor a consumer is asked for whom it is.
LEMMA NobodyTyped ==
  ASSUME NEW kind \in {"start", "join", "create", "produce", "consume", "reject", "end"},
         NEW c \in 0..MaxSessions,
         NEW at \in {"insert", "router", "transport", "object", "session", "active", "load",
                     "select", "update"}
  PROVE  /\ For(kind, Nobody, c, at) \in Work
         /\ For(kind, Nobody, c, at).kind = kind
         /\ For(kind, Nobody, c, at).user = Nobody
         /\ For(kind, Nobody, c, at).call = c
         /\ For(kind, Nobody, c, at).at = at
         /\ For(kind, Nobody, c, at) # NoWork
<1>1. Nobody \in Users \union {Nobody}
  OBVIOUS
<1>2. QED
  BY <1>1, WorkTyped

\* What its save leaves in the table is a row.
LEMMA SavedTyped ==
  ASSUME NEW row \in Sessions, NEW s \in Sessions, NEW status \in Statuses, NEW cols \in SUBSET Columns
  PROVE  /\ Saved(row, s, status, cols) \in Sessions
         /\ Saved(row, s, status, cols).status \in {row.status, status}
<1> DEFINE e == WithStatus(s, status)
<1>1. e \in Sessions
  BY EntityTyped
<1>2. e.status = status
  BY DEF WithStatus, Sessions
<1>3. DOMAIN row = {"initiator", "recipient", "isLiveStream", "status", "startedAt", "endedAt", "duration"}
  BY DEF Sessions
<1>4. Saved(row, s, status, cols)
        = [initiator |-> row.initiator, recipient |-> row.recipient, isLiveStream |-> row.isLiveStream,
           status |-> IF "status" \in cols THEN e.status ELSE row.status,
           startedAt |-> IF "startedAt" \in cols THEN e.startedAt ELSE row.startedAt,
           endedAt |-> IF "endedAt" \in cols THEN e.endedAt ELSE row.endedAt,
           duration |-> IF "duration" \in cols THEN e.duration ELSE row.duration]
  BY <1>3 DEF Saved, Columns, Sessions
<1> HIDE DEF e
<1>5. QED
  BY <1>1, <1>2, <1>4 DEF Sessions

\* The columns a save writes are columns.
LEMMA ColumnsTyped ==
  ASSUME NEW row, NEW s, NEW status
  PROVE  Differing(row, s, status) \subseteq Columns
BY DEF Differing, Columns

\* A new session is a row.
LEMMA NewTyped ==
  ASSUME NEW from \in Users, NEW to \in Users \union {Nobody}, NEW live \in BOOLEAN
  PROVE  NewSession(from, to, live) \in Sessions
BY DEF NewSession, NoSession, Sessions, Statuses

\* A row that is added leaves the others as they are.
LEMMA RowAppended ==
  ASSUME NEW q \in Seq(Sessions), NEW s \in Sessions
  PROVE  \A c \in DOMAIN q : Append(q, s)[c] = q[c]
BY AppendProperties, LenProperties

\* A socket is of a user.
LEMMA TabsTyped == \A s \in Sockets : Tabs[s] \in Users
BY TabsAssumption DEF Sockets

-----------------------------------------------------------------------------
(* Types.                                                                  *)

Ats == {"insert", "router", "transport", "object", "session", "active", "load", "select", "update"}

\* What a handler takes, is done with or goes on to.
LEMMA HandTyped ==
  ASSUME hand \in [Hands -> Work \union {NoWork}], NEW j \in Hands
  PROVE  /\ \A w \in Work \union {NoWork} : Takes(j, w) => hand' \in [Hands -> Work \union {NoWork}]
         /\ Done(j) => hand' \in [Hands -> Work \union {NoWork}]
         /\ \A at \in Ats : hand[j] \in Work /\ Goes(j, at) => hand' \in [Hands -> Work \union {NoWork}]
<1>1. \A w \in Work \union {NoWork} : Takes(j, w) => hand' \in [Hands -> Work \union {NoWork}]
  BY DEF Takes
<1>2. Done(j) => hand' \in [Hands -> Work \union {NoWork}]
  BY DEF Done
<1>3. ASSUME NEW at \in Ats, hand[j] \in Work, Goes(j, at)
      PROVE  hand' \in [Hands -> Work \union {NoWork}]
  <2>1. [hand[j] EXCEPT !.at = at] \in Work
    BY <1>3 DEF Work, Ats
  <2>2. hand' = [hand EXCEPT ![j] = [hand[j] EXCEPT !.at = at]]
    BY <1>3 DEF Goes
  <2>3. QED
    BY <2>1, <2>2
<1>4. QED
  BY <1>1, <1>2, <1>3

\* A handler that stands somewhere has work, and its place and kind are of it.
LEMMA AtWork ==
  ASSUME hand \in [Hands -> Work \union {NoWork}], NEW j \in Hands,
         hand[j].at # "idle" \/ hand[j].kind # "none"
  PROVE  hand[j] \in Work /\ hand[j] # NoWork
BY DEF NoWork

\* What concerns the media, what the users have open, and the handlers.
MediaTyped ==
  /\ routers \in [CallIds -> 0..MaxObjects]
  /\ openRouters \subseteq Routers /\ transports \subseteq Transports
  /\ producers \subseteq Producers /\ consumers \subseteq Consumers
  /\ made \in 0..MaxObjects

TrackedTyped ==
  /\ userTransports \in [Users -> SUBSET (1..made)]
  /\ userProducers \in [Users -> SUBSET (1..made)]

RestTyped ==
  /\ rows \in Seq(Sessions) /\ Len(rows) <= MaxSessions
  /\ asked \in 0..MaxRequests /\ crashes \in 0..MaxCrashes
  /\ used \in 0..Len(Tabs) /\ up \subseteq 1..used
  /\ raced \subseteq CallIds /\ late \subseteq Users /\ crossed \subseteq CallIds
  /\ left \in [Users -> SUBSET CallIds]

HandsTyped == hand \in [Hands -> Work \union {NoWork}]

\* The media change as MediaServer says, with objects of their types.
LEMMA MediaStep ==
  ASSUME LiveTypeOK, Placed, LiveNext
  PROVE  MediaTyped' /\ TrackedTyped'
<1> USE MediaAssumption DEF CallIds, Ids
<1>1. CASE UNCHANGED <<media, tracked>>
  BY <1>1 DEF LiveTypeOK, MediaTyped, TrackedTyped, media, tracked
<1>2. ASSUME NEW j \in Hands, RouterCreated(j)
      PROVE  MediaTyped' /\ TrackedTyped'
  <2>1. hand[j].call \in CallIds
    BY <1>2 DEF RouterCreated, Placed, Fit, Rowed, LiveTypeOK
  <2>2. made + 1 \in 1..MaxObjects /\ made' = made + 1
    BY <1>2 DEF RouterCreated, RouterMade, MayMake, LiveTypeOK
  <2>3. [id |-> made + 1, call |-> hand[j].call] \in Routers
    BY <2>1, <2>2 DEF Routers
  <2>4. MediaTyped'
    BY <1>2, <2>1, <2>2, <2>3 DEF RouterCreated, RouterMade, LiveTypeOK, MediaTyped
  <2>5. TrackedTyped'
    BY <1>2, <2>2 DEF RouterCreated, LiveTypeOK, TrackedTyped, tracked
  <2>6. QED
    BY <2>4, <2>5
<1>3. ASSUME NEW j \in Hands, TransportCreated(j)
      PROVE  MediaTyped' /\ TrackedTyped'
  <2>1. hand[j].call \in CallIds /\ hand[j].user \in Users /\ hand[j].source \in Ids
    BY <1>3, AtWork DEF TransportCreated, At, Placed, Fit, Rowed, LiveTypeOK, Hands
  <2>2. made + 1 \in 1..MaxObjects /\ made' = made + 1
    BY <1>3 DEF TransportCreated, TransportMade, MayMake, LiveTypeOK
  <2>3. [id |-> made + 1, call |-> hand[j].call, owner |-> hand[j].user, router |-> hand[j].source]
          \in Transports
    BY <2>1, <2>2 DEF Transports
  <2>4. MediaTyped'
    BY <1>3, <2>2, <2>3, SMTT(40) DEF TransportCreated, TransportMade, LiveTypeOK, MediaTyped
  <2>5. TrackedTyped'
    BY <1>3, <2>1, <2>2 DEF TransportCreated, Tracked, LiveTypeOK, TrackedTyped
  <2>6. QED
    BY <2>4, <2>5
<1>4. ASSUME NEW j \in Hands, ProducerCreated(j)
      PROVE  MediaTyped' /\ TrackedTyped'
  <2> DEFINE t == hand[j].transport
  <2>1. t \in Transports /\ hand[j].user \in Users /\ hand[j].call \in CallIds
    BY <1>4, AtWork DEF ProducerCreated, At, Placed, Fit, Rowed, LiveTypeOK, Hands
  <2>2. made + 1 \in 1..MaxObjects /\ made' = made + 1
    BY <1>4 DEF ProducerCreated, ProducerMade, MayMake, LiveTypeOK
  <2>3. [id |-> made + 1, call |-> hand[j].call, owner |-> hand[j].user, router |-> t.router,
         transport |-> t.id] \in Producers
    BY <2>1, <2>2 DEF Transports, Producers
  <2>4. MediaTyped'
    BY <1>4, <2>2, <2>3, SMTT(40) DEF ProducerCreated, ProducerMade, LiveTypeOK, MediaTyped
  <2>5. TrackedTyped'
    BY <1>4, <2>1, <2>2 DEF ProducerCreated, Tracked, LiveTypeOK, TrackedTyped
  <2>6. QED
    BY <2>4, <2>5
<1>5. ASSUME NEW j \in Hands, ConsumerCreated(j)
      PROVE  MediaTyped' /\ TrackedTyped'
  <2>1. hand[j].transport \in Transports /\ hand[j].source \in Ids
    BY <1>5, AtWork DEF ConsumerCreated, At, Placed, Fit, LiveTypeOK, Hands
  <2>2. [transport |-> hand[j].transport.id, producer |-> hand[j].source] \in Consumers
    BY <2>1 DEF Transports, Consumers
  <2>3. QED
    BY <1>5, <2>2 DEF ConsumerCreated, ConsumerMade, LiveTypeOK, MediaTyped, TrackedTyped, tracked
<1>6. ASSUME NEW j \in Hands, SaveSession(j)
      PROVE  MediaTyped' /\ TrackedTyped'
  <2>1. CASE UNCHANGED media
    BY <1>6, <2>1 DEF SaveSession, LiveTypeOK, MediaTyped, TrackedTyped, tracked, media
  <2>2. CASE CleanedUp(hand[j].call)
    <3>1. routers' \in [CallIds -> 0..MaxObjects] /\ made' = made
      <4>1. routers' = [routers EXCEPT ![hand[j].call] = 0] /\ made' = made
        BY <2>2 DEF CleanedUp
      <4>2. routers \in [CallIds -> 0..MaxObjects] /\ 0 \in 0..MaxObjects
        BY DEF LiveTypeOK
      <4>3. QED
        BY <4>1, <4>2
    <3>2. QED
      BY <1>6, <2>2, <3>1 DEF SaveSession, CleanedUp, LiveTypeOK, MediaTyped, TrackedTyped, tracked
  <2>3. QED
    BY <1>6, <2>1, <2>2 DEF SaveSession
<1>7. ASSUME NEW j \in Hands, NEW s \in up, Disconnect(j, s)
      PROVE  MediaTyped' /\ TrackedTyped'
  BY <1>7, TabsTyped DEF Disconnect, Closed, LiveTypeOK, MediaTyped, TrackedTyped, Sockets
<1>8. CASE Crash
  BY <1>8 DEF Crash, WorkerDied, LiveTypeOK, MediaTyped, TrackedTyped
<1>9. ASSUME NEW j \in Hands, Handler(j)
      PROVE  MediaTyped' /\ TrackedTyped'
  BY <1>1, <1>2, <1>3, <1>4, <1>5, <1>6, <1>9
    DEF Handler, InsertSession, LoadSession, SelectSession, Refused, CheckProduced, FindActive
<1>10. ASSUME NEW j \in Hands, Request(j)
       PROVE  UNCHANGED <<media, tracked>>
  BY <1>10 DEF Request, StartSession, JoinSession, RejectSession, EndSession, Ends, LeaveRoom,
               LeaveLiveStreamRoom, CreateTransport, Produce, Consume
<1>11. ASSUME Connect \/ \E u \in Users : CreateRoom(u)
       PROVE  UNCHANGED <<media, tracked>>
  BY <1>11 DEF CreateRoom, Connect
<1>12. QED
  BY <1>1, <1>7, <1>8, <1>9, <1>10, <1>11 DEF LiveNext, Hands

\* Whatever a handler takes up has its type.
LEMMA HandStep ==
  ASSUME LiveTypeOK, Placed, LiveNext
  PROVE  HandsTyped'
<1> USE DEF Hands
<1>0. hand \in [Hands -> Work \union {NoWork}]
  BY DEF LiveTypeOK
<1>1. CASE UNCHANGED hand
  BY <1>0, <1>1 DEF HandsTyped
<1>2. ASSUME NEW j \in Hands, Done(j)
      PROVE  HandsTyped'
  BY <1>0, <1>2, HandTyped DEF HandsTyped
<1>3. ASSUME NEW j \in Hands, NEW at \in Ats, hand[j] \in Work, Goes(j, at)
      PROVE  HandsTyped'
  BY <1>0, <1>3, HandTyped DEF HandsTyped
<1>4. ASSUME NEW j \in Hands, NEW w \in Work, Takes(j, w)
      PROVE  HandsTyped'
  BY <1>0, <1>4, HandTyped DEF HandsTyped
<1>5. \A c \in DOMAIN rows : c \in 0..MaxSessions /\ rows[c] \in Sessions
  BY MediaAssumption DEF LiveTypeOK
<1>6. ASSUME NEW j \in Hands, Handler(j)
      PROVE  HandsTyped'
  <2>1. CASE InsertSession(j) \/ TransportCreated(j) \/ SaveSession(j) \/ Refused(j) \/ ConsumerCreated(j)
    BY <1>2, <2>1 DEF InsertSession, TransportCreated, SaveSession, Refused, ConsumerCreated
  <2>2. CASE LoadSession(j)
    <3>1. hand[j] \in Work /\ rows[hand[j].call] \in Sessions
      BY <1>0, <1>5, <2>2, AtWork DEF LoadSession, Placed, Fit, Rowed
    <3>2. [hand[j] EXCEPT !.at = "select", !.seen = rows[hand[j].call]] \in Work
      BY <3>1 DEF Work
    <3>3. Takes(j, [hand[j] EXCEPT !.at = "select", !.seen = rows[hand[j].call]])
      BY <2>2, <1>0 DEF LoadSession, Takes
    <3>4. QED
      BY <1>4, <3>2, <3>3
  <2>3. CASE SelectSession(j)
    <3> DEFINE cols == Differing(rows[hand[j].call], hand[j].seen, NewStatus(hand[j].kind))
    <3>1. hand[j] \in Work /\ cols \subseteq Columns
      BY <1>0, <2>3, AtWork, ColumnsTyped DEF SelectSession
    <3>2. Takes(j, [hand[j] EXCEPT !.at = "update", !.cols = cols])
      BY <2>3, <1>0 DEF SelectSession, Takes
    <3> HIDE DEF cols
    <3>3. [hand[j] EXCEPT !.at = "update", !.cols = cols] \in Work
      BY <3>1 DEF Work
    <3>4. QED
      BY <1>4, <3>2, <3>3
  <2>4. CASE RouterCreated(j)
    <3>1. hand[j] \in Work /\ made + 1 \in 0..MaxObjects
      BY <1>0, <2>4, AtWork, MediaAssumption DEF RouterCreated, RouterMade, MayMake, LiveTypeOK
    <3>2. [hand[j] EXCEPT !.at = "transport", !.source = made + 1] \in Work
      BY <3>1 DEF Work
    <3>3. Takes(j, [hand[j] EXCEPT !.at = "transport", !.source = made + 1])
      BY <2>4, <1>0 DEF RouterCreated, Takes
    <3>4. QED
      BY <1>4, <3>2, <3>3
  <2>5. CASE ProducerCreated(j) \/ CheckProduced(j)
    BY <1>0, <1>2, <1>3, <2>5, AtWork DEF ProducerCreated, CheckProduced, At, Ats
  <2>6. CASE FindActive(j)
    <3>1. hand[j].user \in Users
      BY <1>0, <2>6, AtWork DEF FindActive, At, Placed, Fit
    <3>2. \A c \in DOMAIN rows : For("end", hand[j].user, c, "load") \in Work
      BY <1>5, <3>1, WorkTyped
    <3>3. QED
      BY <1>2, <1>4, <2>6, <3>2 DEF FindActive
  <2>7. QED
    BY <1>6, <2>1, <2>2, <2>3, <2>4, <2>5, <2>6 DEF Handler
<1>7. ASSUME NEW j \in Hands, Request(j)
      PROVE  HandsTyped'
  <2>1. PICK u \in Users :
          \/ \E v \in Users \ {u} : StartSession(j, u, v)
          \/ \E c \in DOMAIN rows :
               \/ JoinSession(j, u, c) \/ RejectSession(j, u, c) \/ EndSession(j, c)
               \/ LeaveRoom(j, u, c) \/ LeaveLiveStreamRoom(j, u, c)
               \/ CreateTransport(j, u, c)
          \/ \E c \in DOMAIN rows, t \in transports : Produce(j, u, c, t)
          \/ \E c \in DOMAIN rows, t \in transports, q \in producers : Consume(j, u, c, t, q)
    BY <1>7 DEF Request
  <2>2. ASSUME NEW v \in Users \ {u}, StartSession(j, u, v)
        PROVE  HandsTyped'
    <3>1. For("start", u, 0, "insert") \in Work
      BY WorkTyped, MediaAssumption
    <3>2. [For("start", u, 0, "insert") EXCEPT !.to = v] \in Work
      BY <3>1 DEF Work
    <3>3. QED
      BY <1>4, <2>2, <3>2 DEF StartSession
  <2>3. ASSUME NEW c \in DOMAIN rows, JoinSession(j, u, c)
        PROVE  HandsTyped'
    BY <1>4, <1>5, <2>3, WorkTyped DEF JoinSession
  <2>4. ASSUME NEW c \in DOMAIN rows, NEW kind \in {"reject", "end"},
               Takes(j, [For(kind, Nobody, c, "select") EXCEPT !.seen = rows[c]])
        PROVE  HandsTyped'
    <3>1. For(kind, Nobody, c, "select") \in Work /\ rows[c] \in Sessions
      BY <1>5, NobodyTyped
    <3>2. [For(kind, Nobody, c, "select") EXCEPT !.seen = rows[c]] \in Work
      BY <3>1 DEF Work
    <3>3. QED
      BY <1>4, <2>4, <3>2
  <2>5. ASSUME NEW c \in DOMAIN rows, CreateTransport(j, u, c)
        PROVE  HandsTyped'
    <3> DEFINE at == IF routers[c] = 0 THEN "router" ELSE "transport"
    <3>1. For("create", u, c, at) \in Work /\ routers[c] \in 0..MaxObjects
      BY <1>5, WorkTyped DEF LiveTypeOK, CallIds
    <3>2. [For("create", u, c, at) EXCEPT !.source = routers[c]] \in Work
      BY <3>1 DEF Work
    <3>3. QED
      BY <1>4, <2>5, <3>2 DEF CreateTransport
  <2>6. ASSUME NEW c \in DOMAIN rows, NEW t \in transports, NEW id \in 0..MaxObjects,
               Takes(j, [For("consume", Nobody, c, "object") EXCEPT !.transport = t, !.source = id])
        PROVE  HandsTyped'
    <3>1. For("consume", Nobody, c, "object") \in Work /\ t \in Transports
      BY <1>5, NobodyTyped DEF LiveTypeOK
    <3>2. [For("consume", Nobody, c, "object") EXCEPT !.transport = t, !.source = id] \in Work
      BY <3>1 DEF Work
    <3>3. QED
      BY <1>4, <2>6, <3>2
  <2>7. ASSUME NEW c \in DOMAIN rows, NEW t \in transports, Produce(j, u, c, t)
        PROVE  HandsTyped'
    <3>1. For("produce", u, c, "object") \in Work /\ t \in Transports
      BY <1>5, WorkTyped DEF Placed, Fit, LiveTypeOK
    <3>2. [For("produce", u, c, "object") EXCEPT !.transport = t] \in Work
      BY <3>1 DEF Work
    <3>3. QED
      BY <1>4, <2>7, <3>2 DEF Produce
  <2>8. ASSUME NEW c \in DOMAIN rows, NEW t \in transports, NEW q \in producers,
               Consume(j, u, c, t, q)
        PROVE  HandsTyped'
    <3>1. q.id \in 0..MaxObjects
      BY DEF LiveTypeOK, Producers, Ids
    <3>2. QED
      BY <2>6, <2>8, <3>1 DEF Consume
  <2>9. QED
    BY <2>1, <2>2, <2>3, <2>4, <2>5, <2>7, <2>8
      DEF RejectSession, EndSession, LeaveRoom, LeaveLiveStreamRoom, Ends
<1>8. ASSUME NEW j \in Hands, NEW s \in up, Disconnect(j, s)
      PROVE  HandsTyped'
  <2>1. Tabs[s] \in Users
    BY TabsTyped DEF LiveTypeOK, Sockets
  <2>2. For("end", Tabs[s], 0, "active") \in Work
    BY <2>1, WorkTyped, MediaAssumption
  <2>3. QED
    BY <1>4, <1>8, <2>2 DEF Disconnect
<1>9. CASE Crash
  BY <1>9 DEF Crash, HandsTyped
<1>10. ASSUME Connect \/ \E u \in Users : CreateRoom(u)
       PROVE  UNCHANGED hand
  BY <1>10 DEF CreateRoom, Connect
<1>11. QED
  BY <1>1, <1>6, <1>7, <1>8, <1>9, <1>10 DEF LiveNext

\* A step leaves the sessions alone, adds one or writes one.
LEMMA RowsStep ==
  ASSUME LiveTypeOK, Placed, LiveNext
  PROVE  /\ rows' \in Seq(Sessions) /\ Len(rows') <= MaxSessions
         /\ DOMAIN rows \subseteq DOMAIN rows'
         /\ \A c \in DOMAIN rows : rows'[c] # rows[c] =>
              \E j \in Hands : /\ SaveSession(j) /\ hand[j].call = c
                               /\ rows'[c].status \in {rows[c].status, NewStatus(hand[j].kind)}
<1> USE DEF Hands
<1>0. rows \in Seq(Sessions) /\ Len(rows) <= MaxSessions /\ Len(rows) \in Nat
      /\ DOMAIN rows = 1..Len(rows) /\ \A c \in DOMAIN rows : rows[c] \in Sessions
  BY LenProperties, ElementOfSeq DEF LiveTypeOK
<1> DEFINE Same == /\ rows' \in Seq(Sessions) /\ Len(rows') <= MaxSessions
                   /\ DOMAIN rows \subseteq DOMAIN rows'
                   /\ \A c \in DOMAIN rows : rows'[c] = rows[c]
<1>1. ASSUME NEW s \in Sessions, rows' = Append(rows, s), Len(rows) < MaxSessions
      PROVE  Same
  <2>1. rows' \in Seq(Sessions) /\ Len(rows') = Len(rows) + 1 /\ DOMAIN rows' = 1..Len(rows) + 1
        /\ \A c \in 1..Len(rows) : rows'[c] = rows[c]
    BY <1>0, <1>1, AppendProperties, LenProperties
  <2>2. QED
    BY <1>0, <1>1, <2>1, MediaAssumption
<1>2. CASE UNCHANGED rows
  BY <1>0, <1>2
<1>3. ASSUME NEW j \in Hands, InsertSession(j)
      PROVE  Same
  <2>1. hand[j].user \in Users /\ hand[j].to \in Users
    BY <1>3, AtWork DEF InsertSession, At, Placed, Fit, LiveTypeOK
  <2>2. QED
    BY <1>1, <1>3, <2>1, NewTyped DEF InsertSession
<1>4. ASSUME NEW u \in Users, CreateRoom(u)
      PROVE  Same
  BY <1>1, <1>4, NewTyped DEF CreateRoom, NewRoom
<1>5. ASSUME NEW j \in Hands, SaveSession(j)
      PROVE  /\ rows' \in Seq(Sessions) /\ Len(rows') = Len(rows) /\ DOMAIN rows' = DOMAIN rows
             /\ \A c \in DOMAIN rows : rows'[c] # rows[c] =>
                  /\ hand[j].call = c
                  /\ rows'[c].status \in {rows[c].status, NewStatus(hand[j].kind)}
  <2> DEFINE c0 == hand[j].call
             new == Saved(rows[c0], hand[j].seen, NewStatus(hand[j].kind), hand[j].cols)
  <2>1. /\ hand[j] \in Work /\ c0 \in DOMAIN rows /\ hand[j].seen \in Sessions
        /\ hand[j].kind \in {"join", "produce", "reject", "end"}
    BY <1>5, AtWork DEF SaveSession, Placed, Fit, Rowed, Updating, LiveTypeOK
  <2>2. NewStatus(hand[j].kind) \in Statuses /\ hand[j].cols \in SUBSET Columns
    BY <2>1 DEF NewStatus, Statuses, Work
  <2>3. new \in Sessions /\ new.status \in {rows[c0].status, NewStatus(hand[j].kind)}
    BY <1>0, <2>1, <2>2, SavedTyped
  <2>4. rows' = [rows EXCEPT ![c0] = new]
    BY <1>5 DEF SaveSession
  <2> HIDE DEF new, c0
  <2>5. rows' \in Seq(Sessions) /\ Len(rows') = Len(rows) /\ DOMAIN rows' = DOMAIN rows
    BY <1>0, <2>1, <2>3, <2>4, ExceptSeq DEF c0
  <2>6. QED
    BY <2>3, <2>4, <2>5 DEF c0
<1>6. ASSUME NEW j \in Hands, Handler(j), ~InsertSession(j), ~SaveSession(j)
      PROVE  UNCHANGED rows
  BY <1>6 DEF Handler, LoadSession, SelectSession, RouterCreated, TransportCreated, Refused,
              ProducerCreated, CheckProduced, ConsumerCreated, FindActive
<1>7. ASSUME NEW j \in Hands, Request(j)
      PROVE  UNCHANGED rows
  BY <1>7 DEF Request, StartSession, JoinSession, RejectSession, EndSession, Ends, LeaveRoom,
              LeaveLiveStreamRoom, CreateTransport, Produce, Consume
<1>8. ASSUME NEW j \in Hands, NEW s \in up, Disconnect(j, s)
      PROVE  UNCHANGED rows
  BY <1>8 DEF Disconnect
<1>9. CASE Connect \/ Crash
  BY <1>2, <1>9 DEF Connect, Crash
<1>10. QED
  BY <1>0, <1>2, <1>3, <1>4, <1>5, <1>6, <1>7, <1>8, <1>9 DEF LiveNext

\* The bounds, the sockets and the history variables keep their types.
LEMMA RestStep ==
  ASSUME LiveTypeOK, Placed, LiveNext
  PROVE  RestTyped'
<1> USE DEF Hands
<1>1. rows' \in Seq(Sessions) /\ Len(rows') <= MaxSessions
  BY RowsStep
<1>2. Len(Tabs) \in Nat /\ \A c \in DOMAIN rows : c \in CallIds
  BY TabsAssumption, LenProperties, MediaAssumption DEF LiveTypeOK, CallIds
<1>3. \A s \in up : Tabs[s] \in Users
  BY TabsTyped, <1>2 DEF LiveTypeOK, Sockets
<1> DEFINE Others == /\ asked' \in 0..MaxRequests /\ crashes' \in 0..MaxCrashes
                     /\ used' \in 0..Len(Tabs) /\ up' \subseteq 1..used'
                     /\ raced' \subseteq CallIds /\ late' \subseteq Users /\ crossed' \subseteq CallIds
                     /\ left' \in [Users -> SUBSET CallIds]
<1>4. ASSUME UNCHANGED <<used, up, bounds, liveHistory>>
      PROVE  Others
  BY <1>4 DEF LiveTypeOK, bounds, liveHistory
<1>5. ASSUME NEW c \in CallIds, Crosses(c)
      PROVE  crossed' \subseteq CallIds
  BY <1>5 DEF Crosses, LiveTypeOK
<1>6. ASSUME NEW j \in Hands, Handler(j)
      PROVE  Others
  <2>1. CASE CheckProduced(j)
    <3>1. hand[j].call \in CallIds
      BY <1>2, <2>1 DEF CheckProduced, At, Placed, Fit, Rowed
    <3>2. crossed' \subseteq CallIds
      BY <1>5, <2>1, <3>1 DEF CheckProduced, LiveTypeOK
    <3>3. QED
      BY <2>1, <3>2 DEF CheckProduced, LiveTypeOK, bounds
  <2>2. CASE FindActive(j)
    <3>1. hand[j].user \in Users
      BY <2>2, AtWork DEF FindActive, At, Placed, Fit, LiveTypeOK
    <3>2. crossed' \subseteq CallIds
      BY <1>2, <1>5, <2>2 DEF FindActive, LiveTypeOK
    <3>3. left' \in [Users -> SUBSET CallIds]
      BY <1>2, <2>2, <3>1 DEF FindActive, LiveTypeOK
    <3>4. QED
      BY <2>2, <3>2, <3>3 DEF FindActive, LiveTypeOK, bounds
  <2>3. QED
    BY <1>4, <1>6, <2>1, <2>2
      DEF Handler, InsertSession, LoadSession, SelectSession, SaveSession, RouterCreated,
          TransportCreated, Refused, ProducerCreated, ConsumerCreated
<1>7. ASSUME NEW j \in Hands, Request(j)
      PROVE  Others
  <2>1. ASSUME Asks
        PROVE  asked' \in 0..MaxRequests
    BY <2>1, TabsAssumption DEF Asks, LiveTypeOK
  <2>2. PICK u \in Users :
          \/ \E v \in Users \ {u} : StartSession(j, u, v)
          \/ \E c \in DOMAIN rows :
               \/ JoinSession(j, u, c) \/ RejectSession(j, u, c) \/ EndSession(j, c)
               \/ LeaveRoom(j, u, c) \/ LeaveLiveStreamRoom(j, u, c)
               \/ CreateTransport(j, u, c)
          \/ \E c \in DOMAIN rows, t \in transports : Produce(j, u, c, t)
          \/ \E c \in DOMAIN rows, t \in transports, q \in producers : Consume(j, u, c, t, q)
    BY <1>7 DEF Request
  <2>3. ASSUME NEW c \in DOMAIN rows,
               JoinSession(j, u, c) \/ RejectSession(j, u, c) \/ Ends(j, c)
        PROVE  Others
    <3>1. crossed' \subseteq CallIds
      BY <1>2, <1>5, <2>3 DEF JoinSession, RejectSession, Ends
    <3>2. QED
      BY <2>1, <2>3, <3>1 DEF JoinSession, RejectSession, Ends, LiveTypeOK
  <2>4. ASSUME NEW c \in DOMAIN rows, CreateTransport(j, u, c)
        PROVE  Others
    <3>1. raced' \subseteq CallIds
      BY <1>2, <2>4 DEF CreateTransport, LiveTypeOK
    <3>2. QED
      BY <2>1, <2>4, <3>1 DEF CreateTransport, LiveTypeOK
  <2>5. CASE (\E v \in Users \ {u} : StartSession(j, u, v)) \/ (\E c \in DOMAIN rows, t \in transports : Produce(j, u, c, t))
    BY <2>1, <2>5 DEF StartSession, Produce, LiveTypeOK, liveHistory
  <2>6. CASE \E c \in DOMAIN rows, t \in transports, q \in producers : Consume(j, u, c, t, q)
    BY <1>4, <2>6 DEF Consume
  <2>7. QED
    BY <2>2, <2>3, <2>4, <2>5, <2>6 DEF EndSession, LeaveRoom, LeaveLiveStreamRoom
<1>8. ASSUME NEW j \in Hands, NEW s \in up, Disconnect(j, s)
      PROVE  Others
  BY <1>3, <1>8 DEF Disconnect, LiveTypeOK, bounds
<1>9. ASSUME NEW u \in Users, CreateRoom(u)
      PROVE  Others
  BY <1>9, TabsAssumption DEF CreateRoom, Asks, LiveTypeOK, liveHistory
<1>10. ASSUME Connect
       PROVE  Others
  <2>1. used' = used + 1 /\ used + 1 \in 0..Len(Tabs) /\ up' = up \union {used + 1}
    BY <1>2, <1>10 DEF Connect, LiveTypeOK
  <2>2. up' \subseteq 1..used'
    BY <2>1 DEF LiveTypeOK
  <2>3. QED
    BY <1>10, <2>1, <2>2 DEF Connect, LiveTypeOK, bounds, liveHistory
<1>11. ASSUME Crash
       PROVE  Others
  BY <1>11, TabsAssumption DEF Crash, LiveTypeOK
<1>12. QED
  BY <1>1, <1>6, <1>7, <1>8, <1>9, <1>10, <1>11 DEF LiveNext, RestTyped

\* A session that a handler turns to exists, and goes on existing.
LEMMA PlacedStep ==
  ASSUME LiveTypeOK, Placed, LiveNext
  PROVE  Placed'
<1> USE DEF Hands
<1> DEFINE ids == DOMAIN rows
           AllFit == \A i \in Hands : Fit(hand'[i], DOMAIN rows')
           AllThere == \A t \in transports' : t.call \in DOMAIN rows'
<1>1. ids \subseteq DOMAIN rows'
  BY RowsStep
<1>2. /\ hand \in [Hands -> Work \union {NoWork}]
      /\ \A c \in ids : c \in 0..MaxSessions /\ rows[c] \in Sessions
  BY MediaAssumption DEF LiveTypeOK
<1>3. /\ \A t \in transports : t.call \in DOMAIN rows'
      /\ \A i \in Hands : Fit(hand[i], ids) /\ Fit(hand[i], DOMAIN rows')
  BY <1>1 DEF Placed, Fit
<1>4. Fit(NoWork, DOMAIN rows')
  BY DEF Fit, NoWork, Rowed, Updating
<1>5. ASSUME NEW j \in Hands, NEW w, Takes(j, w), Fit(w, ids)
      PROVE  AllFit
  <2>1. Fit(w, DOMAIN rows')
    BY <1>1, <1>5 DEF Fit
  <2>2. QED
    BY <1>2, <1>3, <1>5, <2>1 DEF Takes
<1>6. ASSUME NEW j \in Hands, Done(j)
      PROVE  AllFit
  BY <1>2, <1>3, <1>4, <1>6 DEF Done
<1>7. ASSUME UNCHANGED hand
      PROVE  AllFit
  BY <1>3, <1>7
<1>8. ASSUME transports' \subseteq transports
      PROVE  AllThere
  BY <1>3, <1>8
<1> HIDE DEF AllFit, AllThere
<1>9. ASSUME NEW j \in Hands, Handler(j)
      PROVE  AllFit /\ AllThere
  <2>1. CASE InsertSession(j) \/ Refused(j) \/ ConsumerCreated(j)
    BY <1>6, <1>8, <2>1 DEF InsertSession, Refused, ConsumerCreated, ConsumerMade, media
  <2>2. CASE SaveSession(j)
    BY <1>6, <1>8, <2>2 DEF SaveSession, CleanedUp, media
  <2>3. CASE LoadSession(j)
    <3> DEFINE w == [hand[j] EXCEPT !.at = "select", !.seen = rows[hand[j].call]]
    <3>1. hand[j] \in Work /\ Fit(hand[j], ids) /\ hand[j].call \in ids
      BY <1>2, <1>3, <2>3, AtWork DEF LoadSession, Fit, Rowed
    <3>2. Takes(j, w)
      BY <2>3, <1>2 DEF LoadSession, Takes
    <3>3. Fit(w, ids)
      BY <1>2, <2>3, <3>1, AtWork DEF LoadSession, Fit, Work, Rowed, Updating
    <3>4. QED
      BY <1>5, <1>8, <2>3, <3>2, <3>3 DEF LoadSession, media
  <2>4. CASE SelectSession(j)
    <3> DEFINE cols == Differing(rows[hand[j].call], hand[j].seen, NewStatus(hand[j].kind))
               w == [hand[j] EXCEPT !.at = "update", !.cols = cols]
    <3>1. Takes(j, w)
      BY <2>4, <1>2 DEF SelectSession, Takes
    <3> HIDE DEF cols
    <3>2. hand[j] \in Work /\ Fit(hand[j], ids) /\ hand[j].at = "select"
      BY <1>2, <1>3, <2>4, AtWork DEF SelectSession
    <3>3. Fit(w, ids)
      BY <3>2, AtWork, <1>2 DEF Fit, Work, Rowed, Updating
    <3>4. QED
      BY <1>5, <1>8, <2>4, <3>1, <3>3 DEF SelectSession, media
  <2>5. CASE RouterCreated(j)
    <3> DEFINE w == [hand[j] EXCEPT !.at = "transport", !.source = made + 1]
    <3>1. hand[j] \in Work /\ Fit(hand[j], ids) /\ hand[j].at = "router" /\ hand[j] # NoWork
      BY <1>2, <1>3, <2>5, AtWork DEF RouterCreated
    <3>2. made + 1 \in Ids /\ transports' = transports
      BY <2>5, MediaAssumption DEF RouterCreated, RouterMade, MayMake, LiveTypeOK, Ids
    <3>3. Takes(j, w)
      BY <2>5, <1>2 DEF RouterCreated, Takes
    <3>4. Fit(w, ids)
      BY <3>1, <3>2 DEF Fit, Work, Rowed, Updating
    <3>5. QED
      BY <1>5, <1>8, <3>2, <3>3, <3>4
  <2>6. CASE TransportCreated(j)
    <3>1. hand[j].call \in DOMAIN rows'
      BY <1>3, <2>6 DEF TransportCreated, At, Fit, Rowed
    <3>2. QED
      BY <1>3, <1>6, <2>6, <3>1 DEF TransportCreated, TransportMade, AllThere
  <2>7. CASE ProducerCreated(j)
    <3> DEFINE w == [hand[j] EXCEPT !.at = "session"]
    <3>1. hand[j] \in Work /\ Fit(hand[j], ids) /\ hand[j].at = "object" /\ hand[j].kind = "produce"
          /\ hand[j] # NoWork
      BY <1>2, <1>3, <2>7, AtWork DEF ProducerCreated, At
    <3>2. Takes(j, w)
      BY <2>7, <1>2 DEF ProducerCreated, Goes, Takes
    <3>3. Fit(w, ids)
      BY <3>1 DEF Fit, Work, Rowed, Updating
    <3>4. QED
      BY <1>5, <1>8, <2>7, <3>2, <3>3 DEF ProducerCreated, ProducerMade
  <2>8. CASE CheckProduced(j)
    <3> DEFINE w == [hand[j] EXCEPT !.at = "load"]
    <3>1. hand[j] \in Work /\ Fit(hand[j], ids) /\ hand[j].at = "session" /\ hand[j].kind = "produce"
          /\ hand[j] # NoWork
      BY <1>2, <1>3, <2>8, AtWork DEF CheckProduced, At
    <3>2. Takes(j, w) \/ Done(j)
      BY <2>8, <1>2 DEF CheckProduced, Goes, Takes
    <3>3. Fit(w, ids)
      BY <3>1 DEF Fit, Work, Rowed, Updating
    <3>4. QED
      BY <1>5, <1>6, <1>8, <2>8, <3>2, <3>3 DEF CheckProduced, media
  <2>9. CASE FindActive(j)
    <3>1. hand[j].user \in Users
      BY <1>2, <1>3, <2>9, AtWork DEF FindActive, At, Fit
    <3>2. \A c \in ids : Fit(For("end", hand[j].user, c, "load"), ids)
      BY <1>2, <3>1, WorkTyped DEF Fit, Rowed, Updating
    <3>3. QED
      BY <1>5, <1>6, <1>8, <2>9, <3>2 DEF FindActive, media
  <2>10. QED
    BY <1>9, <2>1, <2>2, <2>3, <2>4, <2>5, <2>6, <2>7, <2>8, <2>9 DEF Handler
<1>10. ASSUME NEW j \in Hands, Request(j)
       PROVE  AllFit /\ AllThere
  <2>1. UNCHANGED media
    BY <1>10 DEF Request, StartSession, JoinSession, RejectSession, EndSession, Ends, LeaveRoom,
                 LeaveLiveStreamRoom, CreateTransport, Produce, Consume
  <2>2. AllThere
    BY <1>8, <2>1 DEF media
  <2>3. PICK u \in Users :
          \/ \E v \in Users \ {u} : StartSession(j, u, v)
          \/ \E c \in DOMAIN rows :
               \/ JoinSession(j, u, c) \/ RejectSession(j, u, c) \/ EndSession(j, c)
               \/ LeaveRoom(j, u, c) \/ LeaveLiveStreamRoom(j, u, c)
               \/ CreateTransport(j, u, c)
          \/ \E c \in DOMAIN rows, t \in transports : Produce(j, u, c, t)
          \/ \E c \in DOMAIN rows, t \in transports, q \in producers : Consume(j, u, c, t, q)
    BY <1>10 DEF Request
  <2>4. ASSUME NEW v \in Users \ {u}, StartSession(j, u, v)
        PROVE  AllFit
    <3> DEFINE w == [For("start", u, 0, "insert") EXCEPT !.to = v]
    <3>1. Fit(w, ids)
      BY WorkTyped, MediaAssumption DEF Fit, Rowed, Updating, Work
    <3>2. QED
      BY <1>5, <2>4, <3>1 DEF StartSession
  <2>5. ASSUME NEW c \in DOMAIN rows, JoinSession(j, u, c)
        PROVE  AllFit
    <3>1. Fit(For("join", u, c, "load"), ids)
      BY <1>2, WorkTyped DEF Fit, Rowed, Updating
    <3>2. QED
      BY <1>5, <2>5, <3>1 DEF JoinSession
  <2>6. ASSUME NEW c \in DOMAIN rows, NEW kind \in {"reject", "end"},
               Takes(j, [For(kind, Nobody, c, "select") EXCEPT !.seen = rows[c]])
        PROVE  AllFit
    <3>1. Fit([For(kind, Nobody, c, "select") EXCEPT !.seen = rows[c]], ids)
      BY <1>2, NobodyTyped DEF Fit, Rowed, Updating, Work
    <3>2. QED
      BY <1>5, <2>6, <3>1
  <2>7. ASSUME NEW c \in DOMAIN rows, CreateTransport(j, u, c)
        PROVE  AllFit
    <3> DEFINE at == IF routers[c] = 0 THEN "router" ELSE "transport"
               w == [For("create", u, c, at) EXCEPT !.source = routers[c]]
    <3>1. routers[c] \in 0..MaxObjects /\ For("create", u, c, at) \in Work
          /\ For("create", u, c, at).at = at /\ For("create", u, c, at).user = u
          /\ For("create", u, c, at).call = c /\ For("create", u, c, at).kind = "create"
      BY <1>2, WorkTyped DEF LiveTypeOK, CallIds
    <3>2. w.at = at /\ w.user = u /\ w.call = c /\ w.kind = "create" /\ w.source = routers[c]
      BY <3>1 DEF Work
    <3>3. routers[c] # 0 => routers[c] \in Ids
      BY <3>1, MediaAssumption DEF Ids
    <3>4. Fit(w, ids)
      BY <3>2, <3>3 DEF Fit, Rowed, Updating
    <3>5. QED
      BY <1>5, <2>7, <3>4 DEF CreateTransport
  <2>8. ASSUME NEW c \in DOMAIN rows, NEW t \in transports, NEW id \in 0..MaxObjects, id \in Ids,
               Takes(j, [For("consume", Nobody, c, "object") EXCEPT !.transport = t, !.source = id])
        PROVE  AllFit
    <3>1. For("consume", Nobody, c, "object") \in Work /\ t \in Transports
          /\ For("consume", Nobody, c, "object").kind = "consume"
          /\ For("consume", Nobody, c, "object").at = "object"
          /\ For("consume", Nobody, c, "object").call = c
      BY <1>2, NobodyTyped DEF LiveTypeOK
    <3>2. Fit([For("consume", Nobody, c, "object") EXCEPT !.transport = t, !.source = id], ids)
      BY <2>8, <3>1 DEF Fit, Rowed, Updating, Work
    <3>3. QED
      BY <1>5, <2>8, <3>2
  <2>9. ASSUME NEW c \in DOMAIN rows, NEW t \in transports, Produce(j, u, c, t)
        PROVE  AllFit
    <3>1. For("produce", u, c, "object") \in Work /\ t \in Transports
          /\ For("produce", u, c, "object").kind = "produce"
          /\ For("produce", u, c, "object").user = u
          /\ For("produce", u, c, "object").at = "object"
          /\ For("produce", u, c, "object").call = c
      BY <1>2, WorkTyped DEF Placed, LiveTypeOK
    <3>2. Fit([For("produce", u, c, "object") EXCEPT !.transport = t], ids)
      BY <3>1 DEF Fit, Rowed, Updating, Work
    <3>3. QED
      BY <1>5, <2>9, <3>2 DEF Produce
  <2>10. ASSUME NEW c \in DOMAIN rows, NEW t \in transports, NEW q \in producers,
               Consume(j, u, c, t, q)
         PROVE  AllFit
    <3>1. q.id \in 0..MaxObjects /\ q.id \in Ids
      BY MediaAssumption DEF LiveTypeOK, Producers, Ids
    <3>2. QED
      BY <2>8, <2>10, <3>1 DEF Consume
  <2>11. AllFit
    BY <2>3, <2>4, <2>5, <2>6, <2>7, <2>9, <2>10
      DEF RejectSession, EndSession, LeaveRoom, LeaveLiveStreamRoom, Ends
  <2>12. QED
    BY <2>2, <2>11
<1>11. ASSUME NEW j \in Hands, NEW s \in up, Disconnect(j, s)
       PROVE  AllFit /\ AllThere
  <2>1. Tabs[s] \in Users
    BY TabsTyped DEF LiveTypeOK, Sockets
  <2>2. Fit(For("end", Tabs[s], 0, "active"), ids)
    BY <2>1, WorkTyped, MediaAssumption, SMTT(40) DEF Fit, Rowed, Updating
  <2>3. QED
    BY <1>5, <1>8, <1>11, <2>2 DEF Disconnect, Closed
<1>12. ASSUME Crash
       PROVE  AllFit /\ AllThere
  BY <1>4, <1>8, <1>12 DEF Crash, WorkerDied, AllFit
<1>13. ASSUME Connect \/ \E u \in Users : CreateRoom(u)
       PROVE  AllFit /\ AllThere
  BY <1>7, <1>8, <1>13 DEF CreateRoom, Connect, media
<1>14. QED
  BY <1>9, <1>10, <1>11, <1>12, <1>13 DEF LiveNext, Placed, AllFit, AllThere

\* The types are inductive, given where the handlers stand.
LEMMA TypeStep ==
  ASSUME LiveTypeOK, Placed, [LiveNext]_liveVars
  PROVE  LiveTypeOK' /\ Placed'
<1>1. CASE LiveNext
  BY <1>1, MediaStep, HandStep, RestStep, PlacedStep
    DEF MediaTyped, TrackedTyped, HandsTyped, RestTyped, LiveTypeOK, Hands
<1>2. CASE UNCHANGED liveVars
  BY <1>2 DEF liveVars, media, tracked, bounds, liveHistory, LiveTypeOK, Placed, Fit
<1>3. QED
  BY <1>1, <1>2

-----------------------------------------------------------------------------
(* Routers.                                                                *)

\* A step that changes no router and starts no creation keeps what is known of
\* them.
LEMMA RoutersKept ==
  ASSUME CalmRoutersKnown, Routing, UNCHANGED <<routers, openRouters>>, raced \subseteq raced',
         \A i \in Hands : hand'[i].at = "router" => hand'[i] = hand[i]
  PROVE  CalmRoutersKnown' /\ Routing'
BY DEF CalmRoutersKnown, Routing

\* The routers that are open stay known to the service: a call gets a second
\* one only when two handlers were creating it at once.
LEMMA RoutingStep ==
  ASSUME LiveTypeOK, Placed, CalmRoutersKnown, Routing, [LiveNext]_liveVars
  PROVE  CalmRoutersKnown' /\ Routing'
<1> USE DEF Hands
<1>1. /\ hand \in [Hands -> Work \union {NoWork}]
      /\ routers \in [CallIds -> 0..MaxObjects]
      /\ \A o \in openRouters : o.id \in Ids /\ o.call \in CallIds
      /\ \A c \in DOMAIN rows : c \in CallIds
      /\ made \in Nat /\ \A n \in Ids : n # 0
  BY MediaAssumption DEF LiveTypeOK, Routers, Ids, CallIds
<1>2. ASSUME NEW j \in Hands, NEW w, Takes(j, w), w.at # "router",
             UNCHANGED <<routers, openRouters>>, raced \subseteq raced'
      PROVE  CalmRoutersKnown' /\ Routing'
  BY <1>1, <1>2, RoutersKept DEF Takes
<1>3. NoWork.at = "idle"
  BY DEF NoWork
<1>4. ASSUME NEW j \in Hands, Done(j), UNCHANGED <<routers, openRouters, raced>>
      PROVE  CalmRoutersKnown' /\ Routing'
  BY <1>1, <1>3, <1>4, RoutersKept DEF Done
<1>5. ASSUME NEW j \in Hands, RouterCreated(j)
      PROVE  CalmRoutersKnown' /\ Routing'
  <2> DEFINE c == hand[j].call
             o0 == [id |-> made + 1, call |-> c]
  <2>1. c \in CallIds /\ hand[j].at = "router" /\ hand[j] \in Work
    BY <1>1, <1>5, AtWork DEF RouterCreated, Placed, Fit, Rowed
  <2>2. /\ routers' = [routers EXCEPT ![c] = made + 1]
        /\ openRouters' = openRouters \union {o0}
        /\ raced' = raced
        /\ hand' = [hand EXCEPT ![j] = [hand[j] EXCEPT !.at = "transport", !.source = made + 1]]
    BY <1>5 DEF RouterCreated, RouterMade, liveHistory
  <2>3. o0.id = made + 1 /\ o0.call = c
    OBVIOUS
  <2>4. [hand[j] EXCEPT !.at = "transport", !.source = made + 1].at = "transport"
    BY <2>1 DEF Work
  <2> HIDE DEF o0, c
  <2>5. c \notin raced => \A o \in openRouters : o.call # c
    BY <1>1, <2>1 DEF CalmRoutersKnown, Routing, c
  <2>6. CalmRoutersKnown'
    <3> SUFFICES ASSUME NEW o \in openRouters', o.call \notin raced'
                 PROVE  routers'[o.call] = o.id
      BY DEF CalmRoutersKnown
    <3>1. CASE o = o0
      BY <1>1, <2>1, <2>2, <2>3, <3>1
    <3>2. CASE o \in openRouters /\ o.call # c
      BY <1>1, <2>1, <2>2, <3>2 DEF CalmRoutersKnown
    <3>3. QED
      BY <2>2, <2>5, <3>1, <3>2
  <2>7. \A i \in Hands : hand'[i].at = "router" => hand'[i] = hand[i] /\ i # j
    BY <1>1, <2>2, <2>4
  <2>8. Routing'
    <3> SUFFICES ASSUME NEW i \in Hands, hand'[i].at = "router", hand'[i].call \notin raced'
                 PROVE  /\ routers'[hand'[i].call] = 0
                        /\ \A k \in Hands : hand'[k].at = "router" /\ hand'[k].call = hand'[i].call => k = i
      BY DEF Routing
    <3>1. hand[i].at = "router" /\ hand[i].call \notin raced /\ hand'[i] = hand[i] /\ i # j
      BY <2>2, <2>7
    <3>2. hand[i].call # c
      BY <2>1, <3>1 DEF Routing, c
    <3>3. QED
      BY <1>1, <2>2, <2>7, <3>1, <3>2 DEF Routing
  <2>9. QED
    BY <2>6, <2>8
<1>6. ASSUME NEW j \in Hands, SaveSession(j)
      PROVE  CalmRoutersKnown' /\ Routing'
  <2> DEFINE c == hand[j].call
  <2>1. c \in CallIds /\ Done(j) /\ raced' = raced
    BY <1>1, <1>6 DEF SaveSession, Placed, Fit, Rowed, liveHistory
  <2>2. CASE UNCHANGED media
    BY <1>4, <2>1, <2>2 DEF media
  <2>3. CASE CleanedUp(c)
    <3>1. /\ routers' = [routers EXCEPT ![c] = 0]
          /\ openRouters' = {o \in openRouters : o.id # routers[c]}
      BY <2>3 DEF CleanedUp
    <3>2. \A i \in Hands : hand'[i].at = "router" => hand'[i] = hand[i]
      BY <1>1, <1>3, <2>1 DEF Done
    <3> HIDE DEF c
    <3>3. CalmRoutersKnown'
      <4> SUFFICES ASSUME NEW o \in openRouters', o.call \notin raced'
                   PROVE  routers'[o.call] = o.id
        BY DEF CalmRoutersKnown
      <4>1. o \in openRouters /\ o.id # routers[c] /\ routers[o.call] = o.id
        BY <2>1, <3>1 DEF CalmRoutersKnown
      <4>2. QED
        BY <1>1, <3>1, <4>1
    <3>4. \A d \in CallIds : routers[d] = 0 => routers'[d] = 0
      BY <1>1, <2>1, <3>1
    <3>5. \A i \in Hands : hand[i].at = "router" => hand[i].call \in CallIds
      BY <1>1 DEF Placed, Fit, Rowed
    <3>6. Routing'
      BY <2>1, <3>2, <3>4, <3>5 DEF Routing
    <3>7. QED
      BY <3>3, <3>6
  <2>4. QED
    BY <1>6, <2>2, <2>3 DEF SaveSession
<1>7. ASSUME NEW j \in Hands, NEW u \in Users, NEW c \in DOMAIN rows, CreateTransport(j, u, c)
      PROVE  CalmRoutersKnown' /\ Routing'
  <2> DEFINE at == IF routers[c] = 0 THEN "router" ELSE "transport"
             w == [For("create", u, c, at) EXCEPT !.source = routers[c]]
  <2>1. c \in CallIds /\ c \in 0..MaxSessions
    BY <1>1, MediaAssumption DEF CallIds
  <2>2. w.at = at /\ w.call = c
    BY <2>1, WorkTyped DEF Work
  <2>3. /\ hand' = [hand EXCEPT ![j] = w]
        /\ raced' = raced \union
             {d \in {c} : routers[c] = 0 /\ \E i \in Hands : hand[i].call = d /\ hand[i].at = "router"}
        /\ UNCHANGED <<routers, openRouters>>
        /\ hand[j] = NoWork
    BY <1>7 DEF CreateTransport, Takes, media, Free
  <2> HIDE DEF w
  <2>4. CASE routers[c] # 0
    BY <1>2, <1>7, <2>2, <2>3, <2>4 DEF Takes
  <2>5. CASE routers[c] = 0
    <3>1. CalmRoutersKnown'
      BY <2>3 DEF CalmRoutersKnown
    <3>2. \A i \in Hands : i # j => hand'[i] = hand[i]
      BY <1>1, <2>3
    <3>3. hand'[j] = w /\ w.call = c
      BY <1>1, <2>2, <2>3
    <3>4. c \notin raced' => \A i \in Hands : ~(hand[i].call = c /\ hand[i].at = "router")
      BY <2>3, <2>5
    <3> SUFFICES ASSUME NEW i \in Hands, hand'[i].at = "router", hand'[i].call \notin raced'
                 PROVE  /\ routers'[hand'[i].call] = 0
                        /\ \A k \in Hands : hand'[k].at = "router" /\ hand'[k].call = hand'[i].call => k = i
      BY <3>1 DEF Routing
    <3>5. CASE i = j
      BY <2>3, <2>5, <3>2, <3>3, <3>4, <3>5
    <3>6. CASE i # j
      <4>1. hand'[i] = hand[i] /\ hand[i].call \notin raced
        BY <2>3, <3>2, <3>6
      <4>2. routers[hand[i].call] = 0
            /\ \A k \in Hands : hand[k].at = "router" /\ hand[k].call = hand[i].call => k = i
        BY <4>1 DEF Routing
      <4>3. hand[i].call # c
        BY <3>4, <4>1
      <4>4. QED
        BY <2>3, <3>2, <3>3, <4>1, <4>2, <4>3
    <3>7. QED
      BY <3>5, <3>6
  <2>6. QED
    BY <2>4, <2>5
<1>8. ASSUME NEW j \in Hands, NEW s \in up, Disconnect(j, s)
      PROVE  CalmRoutersKnown' /\ Routing'
  <2>1. Tabs[s] \in Users
    BY TabsTyped DEF LiveTypeOK, Sockets
  <2>2. For("end", Tabs[s], 0, "active").at # "router"
    BY <2>1, WorkTyped, MediaAssumption
  <2>3. QED
    BY <1>2, <1>8, <2>2 DEF Disconnect, Closed
<1>9. CASE Crash
  BY <1>3, <1>9 DEF Crash, WorkerDied, CalmRoutersKnown, Routing
<1>10. CASE UNCHANGED <<media, hand, raced>>
  BY <1>10, RoutersKept DEF media
<1>11. ASSUME NEW j \in Hands, Handler(j), ~RouterCreated(j), ~SaveSession(j)
       PROVE  CalmRoutersKnown' /\ Routing'
  <2>1. CASE InsertSession(j) \/ TransportCreated(j) \/ Refused(j) \/ ConsumerCreated(j)
    BY <1>4, <2>1 DEF InsertSession, TransportCreated, TransportMade, Refused, ConsumerCreated,
                      ConsumerMade, media, liveHistory
  <2>2. CASE LoadSession(j) \/ SelectSession(j) \/ ProducerCreated(j)
    <3>1. hand[j] \in Work
      BY <1>1, <2>2, AtWork DEF LoadSession, SelectSession, ProducerCreated, At
    <3>2. /\ \A seen : [hand[j] EXCEPT !.at = "select", !.seen = seen].at = "select"
          /\ \A cols : [hand[j] EXCEPT !.at = "update", !.cols = cols].at = "update"
          /\ [hand[j] EXCEPT !.at = "session"].at = "session"
      BY <3>1 DEF Work
    <3>3. UNCHANGED <<routers, openRouters, raced>>
      BY <2>2 DEF LoadSession, SelectSession, ProducerCreated, ProducerMade, media, liveHistory
    <3>4. CASE LoadSession(j)
      <4>1. Takes(j, [hand[j] EXCEPT !.at = "select", !.seen = rows[hand[j].call]])
        BY <1>1, <3>4 DEF LoadSession, Takes
      <4>2. QED
        BY <1>2, <3>2, <3>3, <4>1
    <3>5. CASE SelectSession(j)
      <4> DEFINE cols == Differing(rows[hand[j].call], hand[j].seen, NewStatus(hand[j].kind))
      <4>1. Takes(j, [hand[j] EXCEPT !.at = "update", !.cols = cols])
        BY <1>1, <3>5 DEF SelectSession, Takes
      <4> HIDE DEF cols
      <4>2. QED
        BY <1>2, <3>2, <3>3, <4>1
    <3>6. CASE ProducerCreated(j)
      <4>1. Takes(j, [hand[j] EXCEPT !.at = "session"])
        BY <1>1, <3>6 DEF ProducerCreated, Goes, Takes
      <4>2. QED
        BY <1>2, <3>2, <3>3, <4>1
    <3>7. QED
      BY <2>2, <3>4, <3>5, <3>6
  <2>3. CASE CheckProduced(j)
    <3>1. hand[j] \in Work
      BY <1>1, <2>3, AtWork DEF CheckProduced, At
    <3>2. [hand[j] EXCEPT !.at = "load"].at = "load"
      BY <3>1 DEF Work
    <3>3. UNCHANGED <<routers, openRouters, raced>> /\ (Done(j) \/ Goes(j, "load"))
      BY <2>3 DEF CheckProduced, media
    <3>4. Goes(j, "load") => Takes(j, [hand[j] EXCEPT !.at = "load"])
      BY DEF Goes, Takes
    <3>5. QED
      BY <1>2, <1>4, <3>2, <3>3, <3>4
  <2>4. CASE FindActive(j)
    <3>1. hand[j].user \in Users
      BY <1>1, <2>4, AtWork DEF FindActive, At, Placed, Fit
    <3>2. \A c \in DOMAIN rows : For("end", hand[j].user, c, "load").at # "router"
      BY <1>1, <3>1, WorkTyped, MediaAssumption DEF CallIds
    <3>3. QED
      BY <1>2, <1>4, <2>4, <3>2 DEF FindActive, media
  <2>5. QED
    BY <1>11, <2>1, <2>2, <2>3, <2>4 DEF Handler
<1>12. ASSUME NEW j \in Hands, NEW u \in Users,
              \/ \E v \in Users \ {u} : StartSession(j, u, v)
              \/ \E c \in DOMAIN rows :
                   \/ JoinSession(j, u, c) \/ RejectSession(j, u, c) \/ EndSession(j, c)
                   \/ LeaveRoom(j, u, c) \/ LeaveLiveStreamRoom(j, u, c)
              \/ \E c \in DOMAIN rows, t \in transports : Produce(j, u, c, t)
              \/ \E c \in DOMAIN rows, t \in transports, q \in producers : Consume(j, u, c, t, q)
       PROVE  CalmRoutersKnown' /\ Routing'
  <2>1. \A c \in DOMAIN rows : c \in 0..MaxSessions
    BY <1>1, MediaAssumption DEF CallIds
  <2>3. \E w : Takes(j, w) /\ w.at # "router"
    <3>1. CASE \E v \in Users \ {u} : StartSession(j, u, v)
      BY <3>1, WorkTyped, MediaAssumption DEF StartSession, Work
    <3>2. CASE \E c \in DOMAIN rows : JoinSession(j, u, c)
      BY <2>1, <3>2, WorkTyped, SMTT(40) DEF JoinSession
    <3>3. CASE \E c \in DOMAIN rows : RejectSession(j, u, c) \/ Ends(j, c)
      BY <2>1, <3>3, NobodyTyped, SMTT(40) DEF RejectSession, Ends, Work
    <3>4. CASE \E c \in DOMAIN rows, t \in transports : Produce(j, u, c, t)
      BY <2>1, <3>4, WorkTyped DEF Produce, Work
    <3>5. ASSUME NEW c \in DOMAIN rows, NEW t \in transports, NEW q \in producers,
               Consume(j, u, c, t, q)
          PROVE  \E w : Takes(j, w) /\ w.at # "router"
      <4>1. For("consume", Nobody, c, "object") \in Work
            /\ For("consume", Nobody, c, "object").at = "object"
        BY <2>1, NobodyTyped
      <4>2. [For("consume", Nobody, c, "object") EXCEPT !.transport = t, !.source = q.id].at # "router"
        BY <4>1 DEF Work
      <4>3. QED
        BY <3>5, <4>2 DEF Consume
    <3>6. QED
      BY <1>12, <3>1, <3>2, <3>3, <3>4, <3>5 DEF EndSession, LeaveRoom, LeaveLiveStreamRoom
  <2>4. UNCHANGED <<routers, openRouters, raced>>
    BY <1>12 DEF StartSession, JoinSession, RejectSession, EndSession, Ends, LeaveRoom,
                 LeaveLiveStreamRoom, Produce, Consume, media, liveHistory
  <2>5. QED
    BY <1>2, <2>3, <2>4
<1>13. ASSUME NEW j \in Hands, Request(j)
       PROVE  CalmRoutersKnown' /\ Routing'
  BY <1>7, <1>12, <1>13 DEF Request
<1>14. ASSUME Connect \/ (\E u \in Users : CreateRoom(u)) \/ UNCHANGED liveVars
       PROVE  UNCHANGED <<media, hand, raced>>
  BY <1>14 DEF CreateRoom, Connect, liveHistory, liveVars
<1>15. QED
  BY <1>5, <1>6, <1>8, <1>9, <1>10, <1>11, <1>13, <1>14 DEF LiveNext

-----------------------------------------------------------------------------
(* What a user has open.                                                   *)

\* A step that opens nothing, and nothing is left half made by, keeps what is
\* open with its owner.
LEMMA OwnersKept ==
  ASSUME Owned, UNCHANGED <<userTransports, userProducers, late>>,
         transports' \subseteq transports, producers' \subseteq producers, up \subseteq up',
         \A u \in Users : Making(u)' => Making(u) \/ OnLine(u)
  PROVE  Owned'
BY DEF Owned, OnLine

\* Handlers that go on to nothing make nothing.
LEMMA MakersKept ==
  ASSUME hand \in [Hands -> Work \union {NoWork}], NEW j \in Hands,
         \A i \in Hands \ {j} : hand'[i] = hand[i],
         hand'[j].at \in {"router", "transport", "object"} =>
           \/ hand'[j].user = Nobody
           \/ OnLine(hand'[j].user)
           \/ hand[j].at \in {"router", "transport", "object"} /\ hand[j].user = hand'[j].user
  PROVE  \A u \in Users : Making(u)' => Making(u) \/ OnLine(u)
BY UsersAssumption DEF Making, Hands

\* An object is made for a user who is there, or was being made when he went;
\* it is put on his list, and his disconnection closes what the list has.
LEMMA OwnedStep ==
  ASSUME LiveTypeOK, Placed, Owned, [LiveNext]_liveVars
  PROVE  Owned'
<1> USE DEF Hands
<1>1. /\ hand \in [Hands -> Work \union {NoWork}]
      /\ userTransports \in [Users -> SUBSET (1..made)]
      /\ userProducers \in [Users -> SUBSET (1..made)]
      /\ \A c \in DOMAIN rows : c \in 0..MaxSessions
  BY MediaAssumption DEF LiveTypeOK
<1>2. NoWork.at = "idle"
  BY DEF NoWork
<1> DEFINE Same == /\ UNCHANGED <<userTransports, userProducers, late>>
                   /\ transports' \subseteq transports /\ producers' \subseteq producers
                   /\ up \subseteq up'
<1>3. ASSUME NEW j \in Hands, NEW w, Takes(j, w), Same,
             w.at \in {"router", "transport", "object"} => w.user = Nobody \/ OnLine(w.user)
      PROVE  Owned'
  <2>1. \A i \in Hands \ {j} : hand'[i] = hand[i]
    BY <1>1, <1>3 DEF Takes
  <2>2. hand'[j] = w
    BY <1>1, <1>3 DEF Takes
  <2>3. \A u \in Users : Making(u)' => Making(u) \/ OnLine(u)
    BY <1>1, <1>3, <2>1, <2>2, MakersKept
  <2>4. QED
    BY <1>3, <2>3, OwnersKept
<1>4. ASSUME NEW j \in Hands, Done(j), Same
      PROVE  Owned'
  BY <1>2, <1>3, <1>4 DEF Done, Takes
<1>5. ASSUME UNCHANGED hand, Same
      PROVE  Owned'
  BY <1>5, OwnersKept DEF Making
<1>6. ASSUME NEW j \in Hands, TransportCreated(j)
      PROVE  Owned'
  <2> DEFINE u == hand[j].user
             t0 == [id |-> made + 1, call |-> hand[j].call, owner |-> u, router |-> hand[j].source]
  <2>1. /\ u \in Users /\ Making(u)
        /\ transports' = transports \union {t0}
        /\ userTransports' = [userTransports EXCEPT ![u] = Tracked(@, made + 1)]
        /\ UNCHANGED <<producers, userProducers, up, late>>
        /\ Done(j)
    BY <1>1, <1>6, AtWork DEF TransportCreated, TransportMade, Placed, Fit, At, Making, liveHistory
  <2>2. t0.id = made + 1 /\ t0.owner = u
    OBVIOUS
  <2>3. \A v \in Users : Making(v)' => Making(v)
    BY <1>1, <1>2, <2>1 DEF Making, Done
  <2> HIDE DEF u, t0
  <2>4. u \in late \/ OnLine(u)
    BY <2>1 DEF Owned
  <2>5. \A v \in Users : /\ userTransports[v] \subseteq userTransports'[v]
                         /\ v = u => made + 1 \in userTransports'[v]
    BY <1>1, <2>1 DEF Tracked
  <2>6. QED
    BY <2>1, <2>2, <2>3, <2>4, <2>5 DEF Owned, OnLine
<1>7. ASSUME NEW j \in Hands, ProducerCreated(j)
      PROVE  Owned'
  <2> DEFINE u == hand[j].user
             t == hand[j].transport
             p0 == [id |-> made + 1, call |-> hand[j].call, owner |-> u, router |-> t.router,
                    transport |-> t.id]
  <2>1. /\ u \in Users /\ Making(u)
        /\ producers' = producers \union {p0}
        /\ userProducers' = [userProducers EXCEPT ![u] = Tracked(@, made + 1)]
        /\ UNCHANGED <<transports, userTransports, up, late>>
        /\ Goes(j, "session")
    BY <1>1, <1>7, AtWork DEF ProducerCreated, ProducerMade, Placed, Fit, At, Making, liveHistory
  <2>2. p0.id = made + 1 /\ p0.owner = u
    OBVIOUS
  <2>3. \A v \in Users : Making(v)' => Making(v)
    <3>1. [hand[j] EXCEPT !.at = "session"].at = "session"
      BY <1>1, <1>7, AtWork DEF Work, ProducerCreated, At
    <3>2. hand' = [hand EXCEPT ![j] = [hand[j] EXCEPT !.at = "session"]]
      BY <2>1 DEF Goes
    <3>3. QED
      BY <1>1, <3>1, <3>2 DEF Making
  <2> HIDE DEF u, t, p0
  <2>4. u \in late \/ OnLine(u)
    BY <2>1 DEF Owned
  <2>5. \A v \in Users : /\ userProducers[v] \subseteq userProducers'[v]
                         /\ v = u => made + 1 \in userProducers'[v]
    BY <1>1, <2>1 DEF Tracked
  <2>6. QED
    BY <2>1, <2>2, <2>3, <2>4, <2>5 DEF Owned, OnLine
<1>8. ASSUME NEW j \in Hands, NEW s \in up, Disconnect(j, s)
      PROVE  Owned'
  <2> DEFINE u == Tabs[s]
  <2>1. /\ u \in Users
        /\ up' = up \ {s}
        /\ transports' = {t \in transports : t.id \notin userTransports[u]}
        /\ producers' = {p \in producers : p.id \notin userProducers[u]}
        /\ userTransports' = [userTransports EXCEPT ![u] = {}]
        /\ userProducers' = [userProducers EXCEPT ![u] = {}]
        /\ late' = late \union {v \in {u} : Making(v)}
        /\ Takes(j, For("end", u, 0, "active"))
    BY <1>8, TabsTyped DEF Disconnect, Closed, LiveTypeOK, Sockets
  <2>2. For("end", u, 0, "active").at = "active"
    BY <2>1, WorkTyped, MediaAssumption
  <2>3. \A v \in Users : Making(v)' => Making(v)
    BY <1>1, <2>1, <2>2 DEF Making, Takes
  <2>4. \A v \in Users : v # u => (OnLine(v)' <=> OnLine(v))
    BY <2>1 DEF OnLine
  <2> HIDE DEF u
  <2> SUFFICES ASSUME NEW v \in Users \ late'
               PROVE  /\ \A t \in transports' : t.owner = v => t.id \in userTransports'[v]
                      /\ \A p \in producers' : p.owner = v => p.id \in userProducers'[v]
                      /\ ~OnLine(v)' => /\ ~Making(v)'
                                        /\ \A m \in transports' \union producers' : m.owner # v
    BY DEF Owned, OnLine, Making
  <2>5. v \notin late
    BY <2>1
  <2>6. CASE v = u
    <3>1. \A m \in transports' \union producers' : m.owner # v
      BY <2>1, <2>5, <2>6 DEF Owned
    <3>2. ~Making(v)'
      BY <2>1, <2>3, <2>6
    <3>3. QED
      BY <3>1, <3>2
  <2>7. CASE v # u
    <3>1. userTransports'[v] = userTransports[v] /\ userProducers'[v] = userProducers[v]
      BY <1>1, <2>1, <2>7
    <3>2. /\ \A t \in transports' : t.owner = v => t.id \in userTransports'[v]
          /\ \A p \in producers' : p.owner = v => p.id \in userProducers'[v]
      BY <2>1, <2>5, <3>1 DEF Owned
    <3>3. ASSUME ~OnLine(v)'
          PROVE  ~Making(v)' /\ \A m \in transports' \union producers' : m.owner # v
      BY <2>1, <2>3, <2>4, <2>5, <2>7, <3>3 DEF Owned
    <3>4. QED
      BY <3>2, <3>3
  <2>8. QED
    BY <2>6, <2>7
<1>9. CASE Crash
  BY <1>2, <1>9 DEF Crash, WorkerDied, Owned, Making, OnLine
<1>10. ASSUME NEW j \in Hands, Handler(j), ~TransportCreated(j), ~ProducerCreated(j)
       PROVE  Owned'
  <2>1. CASE InsertSession(j) \/ Refused(j) \/ ConsumerCreated(j)
    BY <1>4, <2>1 DEF InsertSession, Refused, ConsumerCreated, ConsumerMade, media, tracked, liveHistory
  <2>2. CASE SaveSession(j)
    BY <1>4, <2>2 DEF SaveSession, CleanedUp, media, tracked, liveHistory
  <2>3. CASE LoadSession(j)
    <3>1. [hand[j] EXCEPT !.at = "select", !.seen = rows[hand[j].call]].at = "select"
      BY <1>1, <2>3, AtWork DEF Work, LoadSession
    <3>2. Takes(j, [hand[j] EXCEPT !.at = "select", !.seen = rows[hand[j].call]])
      BY <1>1, <2>3 DEF LoadSession, Takes
    <3>3. Same
      BY <2>3 DEF LoadSession, media, tracked, liveHistory
    <3> HIDE DEF Same
    <3>4. QED
      BY <1>3, <3>1, <3>2, <3>3
  <2>4. CASE SelectSession(j)
    <3> DEFINE cols == Differing(rows[hand[j].call], hand[j].seen, NewStatus(hand[j].kind))
    <3>1. [hand[j] EXCEPT !.at = "update", !.cols = cols].at = "update"
      BY <1>1, <2>4, AtWork DEF Work, SelectSession
    <3>2. Takes(j, [hand[j] EXCEPT !.at = "update", !.cols = cols])
      BY <1>1, <2>4 DEF SelectSession, Takes
    <3>3. Same
      BY <2>4 DEF SelectSession, media, tracked, liveHistory
    <3> HIDE DEF Same, cols
    <3>4. QED
      BY <1>3, <3>1, <3>2, <3>3
  <2>5. CASE RouterCreated(j)
    <3> DEFINE w == [hand[j] EXCEPT !.at = "transport", !.source = made + 1]
    <3>1. w.at = "transport" /\ w.user = hand[j].user /\ hand[j].at = "router"
      BY <1>1, <2>5, AtWork DEF Work, RouterCreated
    <3>2. hand' = [hand EXCEPT ![j] = w]
      BY <2>5 DEF RouterCreated
    <3>3. Same
      BY <2>5 DEF RouterCreated, RouterMade, tracked, liveHistory
    <3> HIDE DEF w
    <3>4. \A u \in Users : Making(u)' => Making(u) \/ OnLine(u)
      BY <1>1, <3>1, <3>2, MakersKept
    <3>5. QED
      BY <3>3, <3>4, OwnersKept
  <2>6. CASE CheckProduced(j)
    <3>1. [hand[j] EXCEPT !.at = "load"].at = "load"
      BY <1>1, <2>6, AtWork DEF Work, CheckProduced, At
    <3>2. Done(j) \/ Takes(j, [hand[j] EXCEPT !.at = "load"])
      BY <2>6 DEF CheckProduced, Goes, Takes
    <3>3. Same
      BY <2>6 DEF CheckProduced, media, tracked
    <3> HIDE DEF Same
    <3>4. QED
      BY <1>3, <1>4, <3>1, <3>2, <3>3
  <2>7. CASE FindActive(j)
    <3>1. hand[j].user \in Users
      BY <1>1, <2>7, AtWork DEF FindActive, At, Placed, Fit
    <3>2. \A c \in DOMAIN rows : For("end", hand[j].user, c, "load").at = "load"
      BY <1>1, <3>1, WorkTyped
    <3>3. Done(j) \/ \E c \in DOMAIN rows : Takes(j, For("end", hand[j].user, c, "load"))
      BY <2>7 DEF FindActive
    <3>4. Same
      BY <2>7 DEF FindActive, media, tracked
    <3> HIDE DEF Same
    <3>5. QED
      BY <1>3, <1>4, <3>2, <3>3, <3>4
  <2>8. QED
    BY <1>10, <2>1, <2>2, <2>3, <2>4, <2>5, <2>6, <2>7 DEF Handler
<1>11. ASSUME NEW j \in Hands, NEW u \in Users,
              \/ \E v \in Users \ {u} : StartSession(j, u, v)
              \/ \E c \in DOMAIN rows :
                   \/ JoinSession(j, u, c) \/ RejectSession(j, u, c) \/ EndSession(j, c)
                   \/ LeaveRoom(j, u, c) \/ LeaveLiveStreamRoom(j, u, c)
                   \/ CreateTransport(j, u, c)
              \/ \E c \in DOMAIN rows, t \in transports : Produce(j, u, c, t)
              \/ \E c \in DOMAIN rows, t \in transports, q \in producers : Consume(j, u, c, t, q)
       PROVE  Owned'
  <2>1. \A c \in DOMAIN rows : c \in 0..MaxSessions
    BY <1>1
  <2>2. \E w : Takes(j, w) /\ (w.at \in {"router", "transport", "object"} => w.user = Nobody \/ OnLine(w.user))
    <3>1. CASE \E v \in Users \ {u} : StartSession(j, u, v)
      BY <3>1, WorkTyped, MediaAssumption DEF StartSession, Work
    <3>2. CASE \E c \in DOMAIN rows : JoinSession(j, u, c)
      <4>1. \A c \in DOMAIN rows : For("join", u, c, "load").at = "load"
        BY <1>1, WorkTyped
      <4>2. QED
        BY <3>2, <4>1 DEF JoinSession
    <3>3. CASE \E c \in DOMAIN rows : RejectSession(j, u, c) \/ Ends(j, c)
      <4>1. \A c \in DOMAIN rows, kind \in {"reject", "end"} :
              /\ For(kind, Nobody, c, "select") \in Work
              /\ For(kind, Nobody, c, "select").at = "select"
        BY <1>1, NobodyTyped
      <4>2. \A c \in DOMAIN rows, kind \in {"reject", "end"} :
              [For(kind, Nobody, c, "select") EXCEPT !.seen = rows[c]].at = "select"
        BY <4>1 DEF Work
      <4>3. QED
        BY <3>3, <4>2 DEF RejectSession, Ends
    <3>4. ASSUME NEW c \in DOMAIN rows, CreateTransport(j, u, c)
          PROVE  \E w : Takes(j, w) /\ (w.at \in {"router", "transport", "object"} => w.user = Nobody \/ OnLine(w.user))
      <4> DEFINE at == IF routers[c] = 0 THEN "router" ELSE "transport"
                 w == [For("create", u, c, at) EXCEPT !.source = routers[c]]
      <4>1. For("create", u, c, at) \in Work /\ For("create", u, c, at).user = u
        BY <1>1, WorkTyped
      <4>2. w.user = u
        BY <4>1 DEF Work
      <4>3. Takes(j, w) /\ OnLine(u)
        BY <3>4 DEF CreateTransport
      <4> HIDE DEF w
      <4>4. QED
        BY <4>2, <4>3
    <3>5. ASSUME NEW c \in DOMAIN rows, NEW t \in transports, NEW q \in producers,
               Consume(j, u, c, t, q)
          PROVE  \E w : Takes(j, w) /\ (w.at \in {"router", "transport", "object"} => w.user = Nobody \/ OnLine(w.user))
      <4>1. /\ For("consume", Nobody, c, "object") \in Work
            /\ For("consume", Nobody, c, "object").user = Nobody
        BY <1>1, NobodyTyped
      <4>2. [For("consume", Nobody, c, "object") EXCEPT !.transport = t, !.source = q.id].user = Nobody
        BY <4>1 DEF Work
      <4>3. QED
        BY <3>5, <4>2 DEF Consume
    <3>6. ASSUME NEW c \in DOMAIN rows, NEW t \in transports, Produce(j, u, c, t)
          PROVE  \E w : Takes(j, w) /\ (w.at \in {"router", "transport", "object"} => w.user = Nobody \/ OnLine(w.user))
      <4>1. /\ For("produce", u, c, "object") \in Work
            /\ For("produce", u, c, "object").user = u
        BY <1>1, WorkTyped
      <4>2. [For("produce", u, c, "object") EXCEPT !.transport = t].user = u
        BY <4>1 DEF Work
      <4>3. QED
        BY <3>6, <4>2 DEF Produce
    <3>7. QED
      BY <1>11, <3>1, <3>2, <3>3, <3>4, <3>5, <3>6 DEF EndSession, LeaveRoom, LeaveLiveStreamRoom
  <2>3. Same
    BY <1>11 DEF StartSession, JoinSession, RejectSession, EndSession, Ends, LeaveRoom,
                 LeaveLiveStreamRoom, CreateTransport, Produce, Consume, media, tracked, liveHistory
  <2> HIDE DEF Same
  <2>4. QED
    BY <1>3, <2>2, <2>3
<1>12. ASSUME Connect \/ (\E u \in Users : CreateRoom(u)) \/ UNCHANGED liveVars
       PROVE  UNCHANGED hand /\ Same
  BY <1>12 DEF CreateRoom, Connect, media, tracked, liveHistory, liveVars
<1> HIDE DEF Same
<1>13. QED
  BY <1>5, <1>6, <1>7, <1>8, <1>9, <1>10, <1>11, <1>12 DEF LiveNext, Request

-----------------------------------------------------------------------------
(* Statuses.                                                               *)

\* A step that writes no row and turns to none keeps the updates in step.
LEMMA UpdatesKept ==
  ASSUME LiveTypeOK, Placed, Steady, \A c \in DOMAIN rows : rows'[c] = rows[c],
         crossed \subseteq crossed',
         \A i \in Hands : hand'[i].at \in Updating => hand'[i] = hand[i]
  PROVE  Steady'
<1>1. \A i \in Hands : hand[i].at \in Updating => hand[i].call \in DOMAIN rows
  BY DEF Placed, Fit, Rowed, Updating
<1> SUFFICES ASSUME NEW j \in Hands, hand'[j].at \in Updating, hand'[j].call \notin crossed'
             PROVE  /\ \A i \in Hands : hand'[i].at \in Updating /\ hand'[i].call = hand'[j].call => i = j
                    /\ From(hand'[j].kind, rows'[hand'[j].call].status)
  BY DEF Steady
<1>2. hand'[j] = hand[j] /\ hand[j].at \in Updating /\ hand[j].call \notin crossed
  OBVIOUS
<1>3. From(hand[j].kind, rows[hand[j].call].status)
      /\ \A i \in Hands : hand[i].at \in Updating /\ hand[i].call = hand[j].call => i = j
  BY <1>2 DEF Steady
<1>4. QED
  BY <1>1, <1>2, <1>3

\* One that turns to a row either meets nobody there or is known to cross him.
LEMMA UpdateBegun ==
  ASSUME LiveTypeOK, Placed, Steady, UNCHANGED rows, NEW j \in Hands,
         NEW w, Takes(j, w), w.at \in Updating, w.call \in DOMAIN rows,
         hand[j].at \notin Updating, Crosses(w.call),
         From(w.kind, rows[w.call].status)
  PROVE  Steady'
<1> USE DEF Hands
<1>1. /\ hand'[j] = w /\ \A i \in Hands \ {j} : hand'[i] = hand[i]
      /\ crossed' = crossed \union {d \in {w.call} : \E i \in Hands : hand[i].call = d /\ hand[i].at \in Updating}
  BY DEF Takes, Crosses, LiveTypeOK
<1>2. w.call \notin crossed' => \A i \in Hands : ~(hand[i].call = w.call /\ hand[i].at \in Updating)
  BY <1>1
<1> SUFFICES ASSUME NEW k \in Hands, hand'[k].at \in Updating, hand'[k].call \notin crossed'
             PROVE  /\ \A i \in Hands : hand'[i].at \in Updating /\ hand'[i].call = hand'[k].call => i = k
                    /\ From(hand'[k].kind, rows'[hand'[k].call].status)
  BY DEF Steady
<1>3. CASE k = j
  BY <1>1, <1>2, <1>3
<1>4. CASE k # j
  <2>1. hand'[k] = hand[k] /\ hand[k].call \notin crossed /\ hand[k].call # w.call
    BY <1>1, <1>2, <1>4
  <2>2. /\ \A i \in Hands : hand[i].at \in Updating /\ hand[i].call = hand[k].call => i = k
        /\ From(hand[k].kind, rows[hand[k].call].status)
    BY <1>4, <2>1 DEF Steady
  <2>3. QED
    BY <1>1, <2>1, <2>2
<1>5. QED
  BY <1>3, <1>4

\* Only the update that is under way writes a row, and it began from a status
\* that the row still has; so the row of a session that is over goes on being so.
LEMMA SteadyStep ==
  ASSUME LiveTypeOK, Placed, Steady, [LiveNext]_liveVars
  PROVE  /\ Steady'
         /\ \A c \in DOMAIN rows \ crossed' :
              rows[c].status \in Final => rows'[c].status \in Final
<1> USE DEF Hands
<1>1. /\ hand \in [Hands -> Work \union {NoWork}]
      /\ \A c \in DOMAIN rows : c \in 0..MaxSessions
      /\ \A i \in Hands : hand[i].at \in Updating => hand[i].call \in DOMAIN rows
  <2>1. hand \in [Hands -> Work \union {NoWork}] /\ rows \in Seq(Sessions) /\ Len(rows) <= MaxSessions
    BY DEF LiveTypeOK
  <2>2. \A c \in DOMAIN rows : c \in 0..MaxSessions
    BY <2>1, MediaAssumption
  <2>3. Updating \subseteq Rowed
    BY DEF Rowed, Updating
  <2>4. \A i \in Hands : hand[i].at \in Updating => hand[i].call \in DOMAIN rows
    BY <2>3 DEF Placed, Fit
  <2> QED
    BY <2>1, <2>2, <2>4
<1>2. NoWork.at \notin Updating
  BY DEF NoWork, Updating
<1>3. ASSUME NEW j \in Hands, NEW w, Takes(j, w), w.at \notin Updating,
             \A c \in DOMAIN rows : rows'[c] = rows[c], crossed \subseteq crossed'
      PROVE  Steady'
  BY <1>1, <1>3, UpdatesKept DEF Takes
<1>4. ASSUME NEW j \in Hands, Done(j),
             \A c \in DOMAIN rows : rows'[c] = rows[c], crossed \subseteq crossed'
      PROVE  Steady'
  BY <1>2, <1>3, <1>4 DEF Done, Takes
<1>5. ASSUME LiveNext, ~\E j \in Hands : SaveSession(j)
      PROVE  \A c \in DOMAIN rows : rows'[c] = rows[c]
  BY <1>5, RowsStep
<1>6. ASSUME NEW j \in Hands, SaveSession(j), LiveNext
      PROVE  Steady'
  <2> DEFINE c == hand[j].call
  <2>1. /\ Done(j) /\ crossed' = crossed /\ c \in DOMAIN rows /\ hand[j].at = "update"
        /\ \A d \in DOMAIN rows : d # c => rows'[d] = rows[d]
    BY <1>1, <1>6 DEF SaveSession, liveHistory, Updating
  <2>2. \A i \in Hands : hand'[i].at \in Updating => hand'[i] = hand[i] /\ i # j
    BY <1>1, <1>2, <2>1 DEF Done
  <2> SUFFICES ASSUME NEW k \in Hands, hand'[k].at \in Updating, hand'[k].call \notin crossed'
               PROVE  /\ \A i \in Hands : hand'[i].at \in Updating /\ hand'[i].call = hand'[k].call => i = k
                      /\ From(hand'[k].kind, rows'[hand'[k].call].status)
    BY DEF Steady
  <2>3. hand'[k] = hand[k] /\ k # j /\ hand[k].at \in Updating /\ hand[k].call \notin crossed
    BY <2>1, <2>2
  <2>4. /\ \A i \in Hands : hand[i].at \in Updating /\ hand[i].call = hand[k].call => i = k
        /\ From(hand[k].kind, rows[hand[k].call].status)
    BY <2>3 DEF Steady
  <2>5. hand[k].call # c /\ hand[k].call \in DOMAIN rows
    BY <1>1, <2>1, <2>3, <2>4 DEF Updating
  <2>6. QED
    BY <2>1, <2>2, <2>3, <2>4, <2>5
<1>7. ASSUME NEW j \in Hands, Handler(j), LiveNext, ~SaveSession(j)
      PROVE  Steady'
  <2>0. \A c \in DOMAIN rows : rows'[c] = rows[c]
    <3>1. CASE InsertSession(j)
      <4>1. rows \in Seq(Sessions) /\ NewSession(hand[j].user, hand[j].to, FALSE) \in Sessions
        BY <1>1, <3>1, AtWork, NewTyped DEF InsertSession, At, Placed, Fit, LiveTypeOK
      <4>2. QED
        BY <3>1, <4>1, RowAppended DEF InsertSession
    <3>2. CASE ~InsertSession(j)
      BY <1>7, <3>2 DEF Handler, LoadSession, SelectSession, RouterCreated, TransportCreated, Refused,
                        ProducerCreated, CheckProduced, ConsumerCreated, FindActive
    <3>3. QED
      BY <3>1, <3>2
  <2>1. CASE InsertSession(j) \/ TransportCreated(j) \/ Refused(j) \/ ConsumerCreated(j)
    BY <1>4, <2>0, <2>1 DEF InsertSession, TransportCreated, Refused, ConsumerCreated, liveHistory
  <2>2. CASE RouterCreated(j)
    <3>1. [hand[j] EXCEPT !.at = "transport", !.source = made + 1].at \notin Updating
      BY <1>1, <2>2, AtWork DEF Work, RouterCreated, Updating
    <3>2. Takes(j, [hand[j] EXCEPT !.at = "transport", !.source = made + 1]) /\ crossed' = crossed
      BY <1>1, <2>2 DEF RouterCreated, Takes, liveHistory
    <3>3. QED
      BY <1>3, <2>0, <3>1, <3>2
  <2>3. CASE ProducerCreated(j)
    <3>1. [hand[j] EXCEPT !.at = "session"].at \notin Updating
      BY <1>1, <2>3, AtWork DEF Work, ProducerCreated, At, Updating
    <3>2. Takes(j, [hand[j] EXCEPT !.at = "session"]) /\ crossed' = crossed
      BY <1>1, <2>3 DEF ProducerCreated, Goes, Takes, liveHistory
    <3>3. QED
      BY <1>3, <2>0, <3>1, <3>2
  <2>4. CASE LoadSession(j) \/ SelectSession(j)
    <3>1. hand[j] \in Work /\ hand[j].at \in Updating
      BY <1>1, <2>4, AtWork DEF LoadSession, SelectSession, Updating
    <3>2. UNCHANGED <<rows, crossed>>
      BY <2>4 DEF LoadSession, SelectSession, liveHistory
    <3>3. /\ \A i \in Hands \ {j} : hand'[i] = hand[i]
          /\ hand'[j].kind = hand[j].kind /\ hand'[j].call = hand[j].call
      <4>1. CASE LoadSession(j)
        BY <1>1, <3>1, <4>1 DEF LoadSession, Work
      <4>2. CASE SelectSession(j)
        <5> DEFINE cols == Differing(rows[hand[j].call], hand[j].seen, NewStatus(hand[j].kind))
        <5>1. hand' = [hand EXCEPT ![j] = [hand[j] EXCEPT !.at = "update", !.cols = cols]]
          BY <1>1, <4>2 DEF SelectSession
        <5> HIDE DEF cols
        <5>2. QED
          BY <1>1, <3>1, <5>1 DEF Work
      <4>3. QED
        BY <2>4, <4>1, <4>2
    <3> SUFFICES ASSUME NEW k \in Hands, hand'[k].at \in Updating, hand'[k].call \notin crossed'
                 PROVE  /\ \A i \in Hands : hand'[i].at \in Updating /\ hand'[i].call = hand'[k].call => i = k
                        /\ From(hand'[k].kind, rows'[hand'[k].call].status)
      BY DEF Steady
    <3>4. \A i \in Hands : hand'[i].at \in Updating => hand[i].at \in Updating
      BY <3>1, <3>3
    <3>5. \A i \in Hands : hand'[i].kind = hand[i].kind /\ hand'[i].call = hand[i].call
      BY <3>3
    <3>6. QED
      BY <3>2, <3>4, <3>5 DEF Steady
  <2>5. CASE CheckProduced(j)
    <3>1. CASE ~StartsActive(rows[hand[j].call].status)
      BY <1>4, <2>0, <2>5, <3>1 DEF CheckProduced
    <3>2. CASE StartsActive(rows[hand[j].call].status)
      <4> DEFINE w == [hand[j] EXCEPT !.at = "load"]
      <4>1. hand[j] \in Work /\ hand[j].at = "session" /\ hand[j].kind = "produce"
            /\ hand[j].call \in DOMAIN rows
        BY <1>1, <2>5, AtWork DEF CheckProduced, At, Placed, Fit, Rowed
      <4>2. w.at = "load" /\ w.kind = "produce" /\ w.call = hand[j].call
        BY <4>1 DEF Work
      <4>3. Takes(j, w) /\ Crosses(hand[j].call) /\ UNCHANGED rows
        BY <2>5, <3>2 DEF CheckProduced, Goes, Takes
      <4> HIDE DEF w
      <4>4. From(w.kind, rows[w.call].status)
        BY <3>2, <4>2 DEF From
      <4>5. w.at \in Updating /\ hand[j].at \notin Updating
        BY <4>1, <4>2 DEF Updating
      <4>6. QED
        BY <4>1, <4>2, <4>3, <4>4, <4>5, UpdateBegun
    <3>3. QED
      BY <3>1, <3>2
  <2>6. CASE FindActive(j)
    <3>1. hand[j].user \in Users /\ hand[j].at \notin Updating
      BY <1>1, <2>6, AtWork DEF FindActive, At, Placed, Fit, Updating
    <3>2. CASE Done(j) /\ crossed' = crossed
      BY <1>4, <2>0, <3>2
    <3>3. ASSUME NEW c \in DOMAIN rows, Takes(j, For("end", hand[j].user, c, "load")), Crosses(c)
          PROVE  Steady'
      <4> DEFINE w == For("end", hand[j].user, c, "load")
      <4>1. w.at = "load" /\ w.kind = "end" /\ w.call = c
        BY <1>1, <3>1, WorkTyped
      <4>2. Takes(j, w) /\ Crosses(c) /\ UNCHANGED rows
        BY <2>6, <3>3 DEF FindActive
      <4> HIDE DEF w
      <4>3. w.at \in Updating /\ From(w.kind, rows[w.call].status)
        BY <4>1 DEF From, Updating
      <4>4. QED
        BY <3>1, <4>1, <4>2, <4>3, UpdateBegun
    <3>4. QED
      BY <2>6, <3>2, <3>3 DEF FindActive
  <2>7. QED
    BY <1>7, <2>1, <2>2, <2>3, <2>4, <2>5, <2>6 DEF Handler
<1>8. ASSUME NEW j \in Hands, NEW u \in Users, NEW c \in DOMAIN rows,
             JoinSession(j, u, c) \/ RejectSession(j, u, c) \/ Ends(j, c)
      PROVE  Steady'
  <2>1. hand[j].at \notin Updating /\ Crosses(c) /\ UNCHANGED rows
    BY <1>2, <1>8 DEF JoinSession, RejectSession, Ends, Free
  <2>2. ASSUME NEW w, Takes(j, w), w.at \in Updating, w.call = c,
               From(w.kind, rows[c].status)
        PROVE  Steady'
    BY <2>1, <2>2, UpdateBegun
  <2>3. CASE JoinSession(j, u, c)
    <3> DEFINE w == For("join", u, c, "load")
    <3>1. w.at = "load" /\ w.call = c /\ w.kind = "join"
      BY <1>1, WorkTyped
    <3>2. Takes(j, w) /\ rows[c].status = "pending"
      BY <2>3 DEF JoinSession
    <3> HIDE DEF w
    <3>3. QED
      BY <2>2, <3>1, <3>2 DEF From, Updating
  <2>4. ASSUME NEW kind \in {"reject", "end"},
               Takes(j, [For(kind, Nobody, c, "select") EXCEPT !.seen = rows[c]])
        PROVE  Steady'
    <3> DEFINE w == [For(kind, Nobody, c, "select") EXCEPT !.seen = rows[c]]
    <3>1. w.at = "select" /\ w.call = c /\ w.kind = kind
      BY <1>1, NobodyTyped DEF Work
    <3> HIDE DEF w
    <3>2. QED
      BY <2>2, <2>4, <3>1 DEF From, Updating, w
  <2>5. QED
    BY <1>8, <2>3, <2>4 DEF RejectSession, Ends
<1>9. ASSUME NEW j \in Hands, NEW u \in Users,
             \/ \E v \in Users \ {u} : StartSession(j, u, v)
             \/ \E c \in DOMAIN rows : CreateTransport(j, u, c)
             \/ \E c \in DOMAIN rows, t \in transports : Produce(j, u, c, t)
             \/ \E c \in DOMAIN rows, t \in transports, q \in producers : Consume(j, u, c, t, q)
      PROVE  Steady'
  <2>1. \A c \in DOMAIN rows : c \in 0..MaxSessions
    BY <1>1
  <2>2. UNCHANGED <<rows, crossed>>
    BY <1>9 DEF StartSession, CreateTransport, Produce, Consume, liveHistory
  <2>3. \E w : Takes(j, w) /\ w.at \notin Updating
    <3>1. CASE \E v \in Users \ {u} : StartSession(j, u, v)
      BY <3>1, WorkTyped, MediaAssumption DEF StartSession, Work, Updating
    <3>2. ASSUME NEW c \in DOMAIN rows, CreateTransport(j, u, c)
          PROVE  \E w : Takes(j, w) /\ w.at \notin Updating
      <4> DEFINE at == IF routers[c] = 0 THEN "router" ELSE "transport"
                 w == [For("create", u, c, at) EXCEPT !.source = routers[c]]
      <4>1. For("create", u, c, at) \in Work /\ For("create", u, c, at).at = at
        BY <1>1, WorkTyped
      <4>2. w.at = at /\ at \notin Updating
        BY <4>1 DEF Work, Updating
      <4>3. Takes(j, w)
        BY <3>2 DEF CreateTransport
      <4> HIDE DEF w, at
      <4>4. QED
        BY <4>2, <4>3
    <3>3. CASE \E c \in DOMAIN rows, t \in transports : Produce(j, u, c, t)
      BY <2>1, <3>3, WorkTyped DEF Produce, Work, Updating
    <3>4. ASSUME NEW c \in DOMAIN rows, NEW t \in transports, NEW q \in producers,
               Consume(j, u, c, t, q)
          PROVE  \E w : Takes(j, w) /\ w.at \notin Updating
      <4>1. For("consume", Nobody, c, "object") \in Work
            /\ For("consume", Nobody, c, "object").at = "object"
        BY <2>1, NobodyTyped
      <4>2. [For("consume", Nobody, c, "object") EXCEPT !.transport = t, !.source = q.id].at = "object"
        BY <4>1 DEF Work
      <4>3. QED
        BY <3>4, <4>2 DEF Consume, Updating
    <3>5. QED
      BY <1>9, <3>1, <3>2, <3>3, <3>4
  <2>4. QED
    BY <1>3, <2>2, <2>3
<1>10. ASSUME NEW j \in Hands, NEW s \in up, Disconnect(j, s)
       PROVE  Steady'
  <2>1. Tabs[s] \in Users
    BY TabsTyped DEF LiveTypeOK, Sockets
  <2>2. For("end", Tabs[s], 0, "active").at \notin Updating
    BY <2>1, WorkTyped, MediaAssumption DEF Updating
  <2>3. Takes(j, For("end", Tabs[s], 0, "active")) /\ UNCHANGED <<rows, crossed>>
    BY <1>10 DEF Disconnect
  <2>4. QED
    BY <1>3, <2>2, <2>3
<1>11. ASSUME NEW u \in Users, CreateRoom(u)
       PROVE  Steady'
  <2>1. rows \in Seq(Sessions) /\ NewRoom(u) \in Sessions
    BY NewTyped DEF NewRoom, LiveTypeOK
  <2>2. \A c \in DOMAIN rows : rows'[c] = rows[c]
    BY <1>11, <2>1, RowAppended DEF CreateRoom
  <2>3. QED
    BY <1>11, <2>2, UpdatesKept DEF CreateRoom, liveHistory
<1>12. CASE Connect \/ UNCHANGED liveVars
  BY <1>12, UpdatesKept DEF Connect, liveVars, liveHistory
<1>13. CASE Crash
  BY <1>2, <1>13, UpdatesKept DEF Crash
<1>14. ASSUME NEW j \in Hands, Request(j)
       PROVE  Steady'
  BY <1>8, <1>9, <1>14 DEF Request, EndSession, LeaveRoom, LeaveLiveStreamRoom
<1>15. Steady'
  BY <1>6, <1>7, <1>10, <1>11, <1>12, <1>13, <1>14 DEF LiveNext
<1>16. ASSUME NEW c \in DOMAIN rows \ crossed', rows[c].status \in Final
       PROVE  rows'[c].status \in Final
  <2>1. CASE rows'[c] = rows[c]
    BY <1>16, <2>1
  <2>2. CASE rows'[c] # rows[c]
    <3>1. LiveNext
      BY <2>2 DEF liveVars
    <3>2. PICK j \in Hands : /\ SaveSession(j) /\ hand[j].call = c
                             /\ rows'[c].status \in {rows[c].status, NewStatus(hand[j].kind)}
      BY <2>2, <3>1, RowsStep
    <3>3. hand[j].at \in Updating /\ crossed' = crossed
      BY <3>2 DEF SaveSession, liveHistory, Updating
    <3>4. From(hand[j].kind, rows[c].status) /\ hand[j].kind \in {"join", "produce", "reject", "end"}
      BY <3>2, <3>3 DEF Steady, Placed, Fit
    <3>5. hand[j].kind \in {"reject", "end"}
      BY <1>16, <3>4 DEF From, StartsActive, Final
    <3>6. QED
      BY <1>16, <3>2, <3>5 DEF NewStatus, Final
  <2>3. QED
    BY <2>1, <2>2
<1>17. QED
  BY <1>15, <1>16

-----------------------------------------------------------------------------
(* The end of a session.                                                   *)

\* What a step does to a handler: only an update moves on among the three
\* steps of one.
LEMMA HandMoves ==
  ASSUME LiveTypeOK, Placed, LiveNext, ~Crash, NEW i \in Hands
  PROVE  \/ hand'[i] = hand[i]
         \/ LoadSession(i) \/ SelectSession(i) \/ SaveSession(i)
         \/ hand[i].at \notin Updating /\ hand'[i].at # "update"
<1> USE DEF Hands
<1> DEFINE Steps == \/ hand'[i] = hand[i]
                    \/ LoadSession(i) \/ SelectSession(i) \/ SaveSession(i)
                    \/ hand[i].at \notin Updating /\ hand'[i].at # "update"
<1>1. /\ hand \in [Hands -> Work \union {NoWork}]
      /\ \A c \in DOMAIN rows : c \in 0..MaxSessions
  BY MediaAssumption DEF LiveTypeOK
<1>2. NoWork.at = "idle"
  BY DEF NoWork
<1>3. ASSUME NEW j \in Hands, NEW w, Takes(j, w), w.at # "update", hand[j].at \notin Updating
      PROVE  Steps
  BY <1>1, <1>3 DEF Takes
<1>4. ASSUME NEW j \in Hands, Done(j), hand[j].at \notin Updating
      PROVE  Steps
  BY <1>2, <1>3, <1>4 DEF Done, Takes
<1>5. ASSUME NEW j \in Hands, Goes(j, "session") \/ Goes(j, "load"), hand[j] \in Work,
             hand[j].at \notin Updating
      PROVE  Steps
  <2>1. [hand[j] EXCEPT !.at = "session"].at = "session" /\ [hand[j] EXCEPT !.at = "load"].at = "load"
    BY <1>5 DEF Work
  <2>2. QED
    BY <1>3, <1>5, <2>1 DEF Goes, Takes
<1>6. ASSUME UNCHANGED hand
      PROVE  Steps
  BY <1>6
<1> HIDE DEF Steps
<1>7. ASSUME NEW j \in Hands, LoadSession(j) \/ SelectSession(j) \/ SaveSession(j)
      PROVE  Steps
  <2>1. \A k \in Hands \ {j} : hand'[k] = hand[k]
    BY <1>1, <1>7 DEF LoadSession, SelectSession, SaveSession, Done
  <2>2. QED
    BY <1>7, <2>1 DEF Steps
<1>8. ASSUME NEW j \in Hands, Handler(j), ~(LoadSession(j) \/ SelectSession(j) \/ SaveSession(j))
      PROVE  Steps
  <2>1. CASE InsertSession(j) \/ TransportCreated(j) \/ Refused(j) \/ ConsumerCreated(j)
    BY <1>4, <2>1 DEF InsertSession, TransportCreated, Refused, ConsumerCreated, At, Updating
  <2>2. CASE ProducerCreated(j) \/ CheckProduced(j)
    BY <1>1, <1>4, <1>5, <2>2, AtWork DEF ProducerCreated, CheckProduced, At, Updating
  <2>3. CASE RouterCreated(j)
    <3>1. hand[j] \in Work /\ hand[j].at \notin Updating
      BY <1>1, <2>3, AtWork DEF RouterCreated, Updating
    <3>2. [hand[j] EXCEPT !.at = "transport", !.source = made + 1].at = "transport"
      BY <3>1 DEF Work
    <3>3. Takes(j, [hand[j] EXCEPT !.at = "transport", !.source = made + 1])
      BY <1>1, <2>3 DEF RouterCreated, Takes
    <3>4. QED
      BY <1>3, <3>1, <3>2, <3>3
  <2>4. CASE FindActive(j)
    <3>1. hand[j].user \in Users /\ hand[j].at \notin Updating
      BY <1>1, <2>4, AtWork DEF FindActive, At, Placed, Fit, Updating
    <3>2. \A c \in DOMAIN rows : For("end", hand[j].user, c, "load").at = "load"
      BY <1>1, <3>1, WorkTyped
    <3>3. Done(j) \/ \E c \in DOMAIN rows : Takes(j, For("end", hand[j].user, c, "load"))
      BY <2>4 DEF FindActive
    <3>4. QED
      BY <1>3, <1>4, <3>1, <3>2, <3>3
  <2>5. QED
    BY <1>8, <2>1, <2>2, <2>3, <2>4 DEF Handler
<1>9. ASSUME NEW j \in Hands, Request(j)
      PROVE  Steps
  <2>1. hand[j].at \notin Updating
    BY <1>2, <1>9, ZenonT(40) DEF Request, StartSession, JoinSession, RejectSession, EndSession, Ends, LeaveRoom,
                      LeaveLiveStreamRoom, CreateTransport, Produce, Consume, Free, Updating
  <2>2. PICK u \in Users :
          \/ \E v \in Users \ {u} : StartSession(j, u, v)
          \/ \E c \in DOMAIN rows :
               \/ JoinSession(j, u, c) \/ RejectSession(j, u, c) \/ Ends(j, c)
               \/ CreateTransport(j, u, c)
          \/ \E c \in DOMAIN rows, t \in transports : Produce(j, u, c, t)
          \/ \E c \in DOMAIN rows, t \in transports, q \in producers : Consume(j, u, c, t, q)
    BY <1>9 DEF Request, EndSession, LeaveRoom, LeaveLiveStreamRoom
  <2>3. CASE \E v \in Users \ {u} : StartSession(j, u, v)
    <3>1. For("start", u, 0, "insert") \in Work /\ For("start", u, 0, "insert").at = "insert"
      BY WorkTyped, MediaAssumption
    <3>2. \A v : [For("start", u, 0, "insert") EXCEPT !.to = v].at = "insert"
      BY <3>1 DEF Work
    <3>3. QED
      BY <1>3, <2>1, <2>3, <3>2 DEF StartSession
  <2>4. ASSUME NEW c \in DOMAIN rows, JoinSession(j, u, c)
        PROVE  Steps
    <3>1. For("join", u, c, "load").at = "load"
      BY <1>1, WorkTyped
    <3>2. QED
      BY <1>3, <2>1, <2>4, <3>1 DEF JoinSession
  <2>5. ASSUME NEW c \in DOMAIN rows, RejectSession(j, u, c) \/ Ends(j, c)
        PROVE  Steps
    <3>1. \A kind \in {"reject", "end"} :
            For(kind, Nobody, c, "select") \in Work /\ For(kind, Nobody, c, "select").at = "select"
      BY <1>1, NobodyTyped
    <3>2. \A kind \in {"reject", "end"} : [For(kind, Nobody, c, "select") EXCEPT !.seen = rows[c]].at = "select"
      BY <3>1 DEF Work
    <3>3. QED
      BY <1>3, <2>1, <2>5, <3>2 DEF RejectSession, Ends
  <2>6. ASSUME NEW c \in DOMAIN rows, CreateTransport(j, u, c)
        PROVE  Steps
    <3> DEFINE at == IF routers[c] = 0 THEN "router" ELSE "transport"
               w == [For("create", u, c, at) EXCEPT !.source = routers[c]]
    <3>1. For("create", u, c, at) \in Work /\ For("create", u, c, at).at = at
      BY <1>1, WorkTyped
    <3>2. w.at # "update"
      BY <3>1 DEF Work
    <3>3. Takes(j, w)
      BY <2>6 DEF CreateTransport
    <3> HIDE DEF w
    <3>4. QED
      BY <1>3, <2>1, <3>2, <3>3
  <2>7. ASSUME NEW c \in DOMAIN rows, NEW t \in transports, Produce(j, u, c, t)
        PROVE  Steps
    <3>1. For("produce", u, c, "object") \in Work /\ For("produce", u, c, "object").at = "object"
      BY <1>1, WorkTyped
    <3>2. [For("produce", u, c, "object") EXCEPT !.transport = t].at = "object"
      BY <3>1 DEF Work
    <3>3. QED
      BY <1>3, <2>1, <2>7, <3>2 DEF Produce
  <2>8. ASSUME NEW c \in DOMAIN rows, NEW t \in transports, NEW q \in producers,
               Consume(j, u, c, t, q)
        PROVE  Steps
    <3>1. For("consume", Nobody, c, "object") \in Work /\ For("consume", Nobody, c, "object").at = "object"
      BY <1>1, NobodyTyped
    <3>2. [For("consume", Nobody, c, "object") EXCEPT !.transport = t, !.source = q.id].at = "object"
      BY <3>1 DEF Work
    <3>3. QED
      BY <1>3, <2>1, <2>8, <3>2 DEF Consume
  <2>9. QED
    BY <2>2, <2>3, <2>4, <2>5, <2>6, <2>7, <2>8
<1>10. ASSUME NEW j \in Hands, NEW s \in up, Disconnect(j, s)
       PROVE  Steps
  <2>1. Tabs[s] \in Users
    BY TabsTyped DEF LiveTypeOK, Sockets
  <2>2. For("end", Tabs[s], 0, "active").at = "active"
    BY <2>1, WorkTyped, MediaAssumption
  <2>3. hand[j].at \notin Updating
    BY <1>2, <1>10 DEF Disconnect, Free, Updating
  <2>4. QED
    BY <1>3, <1>10, <2>2, <2>3 DEF Disconnect
<1>11. Steps
  BY <1>6, <1>7, <1>8, <1>9, <1>10 DEF LiveNext, Connect, CreateRoom
<1>12. QED
  BY <1>11 DEF Steps

\* Only an update writes the row that it is an update of.
LEMMA OwnRow ==
  ASSUME LiveTypeOK, Placed, Steady, LiveNext, NEW i \in Hands,
         hand[i].at \in Updating, hand[i].call \notin crossed, ~SaveSession(i)
  PROVE  rows'[hand[i].call] = rows[hand[i].call]
<1>1. hand[i].call \in DOMAIN rows
  BY DEF Placed, Fit, Rowed, Updating, Hands
<1>2. ASSUME rows'[hand[i].call] # rows[hand[i].call]
      PROVE  FALSE
  <2>1. PICK j \in Hands : SaveSession(j) /\ hand[j].call = hand[i].call
    BY <1>1, <1>2, RowsStep
  <2>2. hand[j].at \in Updating
    BY <2>1 DEF SaveSession, Updating
  <2>3. QED
    BY <2>1, <2>2 DEF Steady
<1>3. QED
  BY <1>2

\* What crossed was is crossed still.
LEMMA CrossedStays ==
  ASSUME LiveNext
  PROVE  crossed \subseteq crossed'
<1>1. \A c : Crosses(c) => crossed \subseteq crossed'
  BY DEF Crosses
<1>2. ASSUME NEW j \in 1..MaxHand, Handler(j)
      PROVE  crossed \subseteq crossed'
  BY <1>1, <1>2 DEF Handler, InsertSession, LoadSession, SelectSession, SaveSession, RouterCreated,
     TransportCreated, Refused, ProducerCreated, CheckProduced, ConsumerCreated, FindActive, liveHistory
<1>3. ASSUME NEW j \in 1..MaxHand, Request(j)
      PROVE  crossed \subseteq crossed'
  BY <1>1, <1>3 DEF Request, StartSession, JoinSession, RejectSession, EndSession, Ends, LeaveRoom,
     LeaveLiveStreamRoom, CreateTransport, Produce, Consume, liveHistory
<1>4. QED
  BY <1>2, <1>3 DEF LiveNext, Disconnect, CreateRoom, Connect, Crash, liveHistory

\* The status that an update is about to write is on the list of its columns.
LEMMA WritingStep ==
  ASSUME LiveTypeOK, Placed, Steady, Writing, [LiveNext]_liveVars
  PROVE  Writing'
<1>1. CASE UNCHANGED liveVars
  BY <1>1 DEF liveVars, liveHistory, Writing
<1>2. CASE Crash
  BY <1>2 DEF Crash, Writing, NoWork, Hands
<1>3. CASE LiveNext /\ ~Crash
  <2> SUFFICES ASSUME NEW i \in Hands, hand'[i].at = "update", hand'[i].call \notin crossed'
               PROVE  "status" \in hand'[i].cols \/ rows'[hand'[i].call].status = NewStatus(hand'[i].kind)
    BY DEF Writing
  <2>1. crossed \subseteq crossed'
    BY <1>3, CrossedStays
  <2>2. CASE hand'[i] = hand[i]
    <3>1. hand[i].at \in Updating /\ hand[i].call \notin crossed /\ hand[i].at # "idle"
      BY <2>1, <2>2 DEF Updating
    <3>2. ~SaveSession(i)
      <4>1. SaveSession(i) => hand'[i] = NoWork
        BY DEF SaveSession, Done, LiveTypeOK, Hands
      <4>2. NoWork.at = "idle"
        BY DEF NoWork
      <4>3. QED
        BY <2>2, <3>1, <4>1, <4>2
    <3>3. rows'[hand[i].call] = rows[hand[i].call]
      BY <1>3, <3>1, <3>2, OwnRow
    <3>4. "status" \in hand[i].cols \/ rows[hand[i].call].status = NewStatus(hand[i].kind)
      BY <2>2, <3>1 DEF Writing
    <3>5. QED
      BY <2>2, <3>3, <3>4
  <2>3. CASE SelectSession(i)
    <3> DEFINE row == rows[hand[i].call]
               status == NewStatus(hand[i].kind)
               cols == Differing(row, hand[i].seen, status)
    <3>1. hand[i] \in Work /\ hand[i].seen \in Sessions /\ hand[i].call \in DOMAIN rows
      BY <2>3, AtWork DEF SelectSession, Placed, Fit, Rowed, LiveTypeOK, Hands
    <3>2. hand' = [hand EXCEPT ![i] = [hand[i] EXCEPT !.at = "update", !.cols = cols]]
      BY <2>3, AtWork DEF SelectSession, LiveTypeOK, Hands
    <3>3. row.status # status => "status" \in cols
      <4>1. WithStatus(hand[i].seen, status).status = status
        BY <3>1 DEF WithStatus, Sessions
      <4>2. QED
        BY <4>1 DEF Differing, Columns
    <3>4. rows' = rows
      BY <2>3 DEF SelectSession
    <3> HIDE DEF cols, status
    <3>5. hand'[i].cols = cols /\ hand'[i].call = hand[i].call /\ hand'[i].kind = hand[i].kind
      BY <3>1, <3>2 DEF Work, LiveTypeOK, Hands
    <3>6. QED
      BY <3>3, <3>4, <3>5 DEF status
  <2>4. CASE LoadSession(i)
    <3>1. hand[i] \in Work
      BY <2>4, AtWork DEF LoadSession, LiveTypeOK, Hands
    <3>2. hand'[i].at = "select"
      BY <2>4, <3>1 DEF LoadSession, Work, LiveTypeOK, Hands
    <3>3. QED
      BY <3>2
  <2>5. CASE SaveSession(i)
    BY <2>5 DEF SaveSession, Done, LiveTypeOK, NoWork, Hands
  <2>6. QED
    BY <1>3, <2>2, <2>3, <2>4, <2>5, HandMoves
<1>4. QED
  BY <1>1, <1>2, <1>3

\* Who ends a session goes on until it is over.
LEMMA EnderStays ==
  ASSUME LiveTypeOK, Placed, Steady, Writing, LiveNext, ~Crash,
         NEW j \in Hands, NEW c \in DOMAIN rows \ crossed, Ender(j, c)
  PROVE  rows'[c].status \in Final \/ Ender(j, c)'
<1>1. hand[j] \in Work /\ hand \in [Hands -> Work \union {NoWork}]
  BY AtWork DEF Ender, LiveTypeOK, Hands
<1>2. CASE hand'[j] = hand[j]
  BY <1>2 DEF Ender
<1>3. CASE LoadSession(j)
  BY <1>1, <1>3 DEF LoadSession, Ender, Work, Updating
<1>4. CASE SelectSession(j)
  <2> DEFINE cols == Differing(rows[hand[j].call], hand[j].seen, NewStatus(hand[j].kind))
  <2>1. hand' = [hand EXCEPT ![j] = [hand[j] EXCEPT !.at = "update", !.cols = cols]]
    BY <1>1, <1>4 DEF SelectSession
  <2> HIDE DEF cols
  <2>2. QED
    BY <1>1, <2>1 DEF Ender, Work, Updating
<1>5. CASE SaveSession(j)
  <2> DEFINE new == Saved(rows[c], hand[j].seen, "ended", hand[j].cols)
  <2>1. /\ rows' = [rows EXCEPT ![c] = new]
        /\ hand[j].seen \in Sessions /\ rows[c] \in Sessions /\ rows \in Seq(Sessions)
        /\ "status" \in hand[j].cols \/ rows[c].status = "ended"
    <3>1. hand[j].kind = "end" /\ hand[j].call = c /\ NewStatus(hand[j].kind) = "ended"
      BY DEF Ender, NewStatus
    <3>2. rows \in Seq(Sessions) /\ rows[c] \in Sessions
      BY ElementOfSeq, LenProperties DEF LiveTypeOK
    <3>3. hand[j].seen \in Sessions /\ hand[j].at = "update"
      BY <1>5 DEF SaveSession, Placed, Fit
    <3>4. "status" \in hand[j].cols \/ rows[c].status = "ended"
      BY <3>1, <3>3 DEF Writing
    <3>5. rows' = [rows EXCEPT ![c] = new]
      BY <1>5, <3>1 DEF SaveSession
    <3>6. QED
      BY <3>2, <3>3, <3>4, <3>5
  <2>2. WithStatus(hand[j].seen, "ended").status = "ended"
    BY <2>1 DEF WithStatus, Sessions
  <2>3. new.status = "ended"
    <3>1. "status" \in DOMAIN rows[c]
      BY <2>1 DEF Sessions
    <3>2. QED
      BY <2>1, <2>2, <3>1 DEF Saved
  <2> HIDE DEF new
  <2>4. rows'[c] = new
    BY <2>1
  <2>5. QED
    BY <2>3, <2>4 DEF Final
<1>6. QED
  BY <1>2, <1>3, <1>4, <1>5, HandMoves DEF Ender

\* Only the handler of a disconnection notes what its user was in.
LEMMA LeftStays ==
  ASSUME LiveNext, ~Crash, \A i \in Hands : ~FindActive(i)
  PROVE  left' = left
<1>1. ASSUME NEW j \in Hands, Handler(j)
      PROVE  left' = left
  BY <1>1 DEF Handler, InsertSession, LoadSession, SelectSession, SaveSession, RouterCreated,
     TransportCreated, Refused, ProducerCreated, CheckProduced, ConsumerCreated, liveHistory
<1>2. ASSUME NEW j \in Hands, Request(j)
      PROVE  left' = left
  BY <1>2 DEF Request, StartSession, JoinSession, RejectSession, EndSession, Ends, LeaveRoom,
     LeaveLiveStreamRoom, CreateTransport, Produce, Consume, liveHistory
<1>3. QED
  BY <1>1, <1>2 DEF LiveNext, Disconnect, CreateRoom, Connect, liveHistory, Hands

\* A disconnection ends the session that its user was in.
LEMMA LeavingStep ==
  ASSUME LiveTypeOK, Placed, Steady, Writing, Leaving, [LiveNext]_liveVars
  PROVE  Leaving'
<1>1. CASE UNCHANGED liveVars
  BY <1>1 DEF liveVars, liveHistory, Leaving, Ender
<1>2. CASE Crash
  BY <1>2 DEF Crash, Leaving
<1>3. CASE LiveNext /\ ~Crash
  <2>1. crossed \subseteq crossed' /\ DOMAIN rows \subseteq DOMAIN rows'
    BY <1>3, CrossedStays, RowsStep
  <2>2. ASSUME NEW u \in Users, NEW c \in left'[u] \ crossed', left'[u] = {c}, left'[u] = left[u]
        PROVE  rows'[c].status \in Final \/ \E j \in Hands : Ender(j, c)'
    <3>1. c \in left[u] \ crossed /\ c \in DOMAIN rows \ crossed
      BY <2>1, <2>2 DEF Leaving
    <3>2. CASE rows[c].status \in Final
      BY <1>3, <2>2, <3>1, <3>2, SteadyStep
    <3>3. ASSUME NEW j \in Hands, Ender(j, c)
          PROVE  rows'[c].status \in Final \/ Ender(j, c)'
      BY <1>3, <3>1, <3>3, EnderStays
    <3>4. QED
      BY <2>2, <3>1, <3>2, <3>3 DEF Leaving
  <2>3. ASSUME NEW i \in Hands, FindActive(i)
        PROVE  Leaving'
    <3> DEFINE u == hand[i].user
               on == {c \in DOMAIN rows : OnFor(rows[c], u)}
    <3>1. u \in Users /\ hand \in [Hands -> Work \union {NoWork}]
      BY <2>3, AtWork DEF FindActive, At, Placed, Fit, LiveTypeOK, Hands
    <3>2. left' = [left EXCEPT ![u] = on]
      BY <2>3 DEF FindActive, OnFor
    <3>3. left'[u] = on /\ \A v \in Users : v # u => left'[v] = left[v]
      BY <3>1, <3>2 DEF LiveTypeOK
    <3>4. ASSUME NEW c \in on
          PROVE  \E d \in on : Ender(i, d)'
      <4>1. PICK d \in on : Takes(i, For("end", u, d, "load"))
        BY <2>3, <3>4 DEF FindActive
      <4>2. hand'[i] = For("end", u, d, "load")
        BY <3>1, <4>1 DEF Takes
      <4>3. d \in 0..MaxSessions
        BY MediaAssumption DEF LiveTypeOK
      <4>4. QED
        BY <3>1, <4>2, <4>3, WorkTyped DEF Ender, Updating
    <3>0. \A v \in Users : left'[v] \subseteq DOMAIN rows'
      BY <2>1, <3>3 DEF Leaving, on
    <3> HIDE DEF u, on
    <3> SUFFICES ASSUME NEW v \in Users, NEW c \in left'[v] \ crossed', left'[v] = {c}
                 PROVE  rows'[c].status \in Final \/ \E j \in Hands : Ender(j, c)'
      BY <3>0 DEF Leaving
    <3>5. CASE v = u
      <4>1. on = {c}
        BY <3>3, <3>5
      <4>2. Ender(i, c)'
        BY <3>4, <4>1
      <4>3. QED
        BY <4>2
    <3>6. CASE v # u
      BY <2>2, <3>3, <3>6 DEF Leaving
    <3>7. QED
      BY <3>5, <3>6
  <2>4. CASE \A i \in Hands : ~FindActive(i)
    <3>1. left' = left
      BY <1>3, <2>4, LeftStays
    <3>2. QED
      BY <2>1, <2>2, <3>1 DEF Leaving
  <2>5. QED
    BY <2>3, <2>4
<1>4. QED
  BY <1>1, <1>2, <1>3

-----------------------------------------------------------------------------
(* The theorems.                                                           *)

\* The invariant holds at the start and goes on holding.
LEMMA LiveInvariant == LiveSpec => []LiveInv
<1>1. LiveInit => LiveInv
  <2> SUFFICES ASSUME LiveInit
               PROVE  LiveInv
    OBVIOUS
  <2>1. Len(Tabs) \in Nat
    BY TabsAssumption, LenProperties
  <2>2. \A j \in Hands : hand[j] = NoWork
    BY DEF LiveInit, Hands
  <2>3. NoWork.at = "idle"
    BY DEF NoWork
  <2>4. <<>> \in Seq(Sessions) /\ Len(<<>>) = 0 /\ DOMAIN rows = {}
    BY DEF LiveInit
  <2>5. LiveTypeOK
    BY <2>1, <2>4, MediaAssumption, TabsAssumption DEF LiveInit, NoMedia, LiveTypeOK, CallIds
  <2>6. Placed
    <3>1. \A ids : Fit(NoWork, ids)
      BY DEF Fit, NoWork, Rowed, Updating
    <3>2. transports = {}
      BY DEF LiveInit, NoMedia
    <3>3. QED
      BY <2>2, <3>1, <3>2 DEF Placed
  <2>7. CalmRoutersKnown /\ Routing /\ Owned /\ Steady
    BY <2>2, <2>3 DEF LiveInit, NoMedia, CalmRoutersKnown, Routing, Owned, Steady, Making, OnLine,
                      Updating, Hands
  <2>8. Writing /\ Leaving
    BY <2>2, <2>3 DEF LiveInit, Writing, Leaving
  <2>9. QED
    BY <2>5, <2>6, <2>7, <2>8 DEF LiveInv
<1>2. LiveInv /\ [LiveNext]_liveVars => LiveInv'
  BY TypeStep, RoutingStep, OwnedStep, SteadyStep, WritingStep, LeavingStep DEF LiveInv
<1>3. QED
  BY <1>1, <1>2, PTL DEF LiveSpec

\* The service's maps, the handlers and what the users have to close keep their
\* types, whatever overlaps and whenever the worker dies.
THEOREM LiveTypeCorrect == LiveSpec => []LiveTypeOK
<1>1. LiveInv => LiveTypeOK
  BY DEF LiveInv
<1>2. QED
  BY <1>1, LiveInvariant, PTL

\* mediasoup.service never loses a router that is open: cleanupCall finds it,
\* unless the first transports of the call were asked for at once.
THEOREM RoutersStayKnown == LiveSpec => []CalmRoutersKnown
<1>1. LiveInv => CalmRoutersKnown
  BY DEF LiveInv
<1>2. QED
  BY <1>1, LiveInvariant, PTL

\* Who has disconnected holds no transport and no producer, unless one was
\* being made for him when handleDisconnect ran.
THEOREM GoneAreReleased == LiveSpec => []GoneReleased
<1>1. LiveInv => GoneReleased
  BY DEF LiveInv, Owned, GoneReleased
<1>2. QED
  BY <1>1, LiveInvariant, PTL

\* The session a user was in when he disconnected is over once nothing is under
\* way, unless he was in more than one or two updates of it overlapped.
THEOREM GoneSessionsEnd == LiveSpec => []GoneEnds
<1>1. LiveInv => GoneEnds
  BY DEF LiveInv, Leaving, GoneEnds, Quiet, Ender, NoWork, Updating, Hands
<1>2. QED
  BY <1>1, LiveInvariant, PTL

\* No handler of the gateway revives a session that has ended or was rejected,
\* unless two updates of it overlapped.
THEOREM FinalStays == LiveSpec => CalmFinalStays
<1>1. LiveInv /\ [LiveNext]_liveVars =>
        [\A c \in DOMAIN rows \ crossed' :
           rows[c].status \in Final => rows'[c].status \in Final]_liveVars
  BY SteadyStep DEF LiveInv
<1>2. QED
  BY <1>1, LiveInvariant, PTL DEF LiveSpec, CalmFinalStays
=============================================================================
