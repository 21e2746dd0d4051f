------------------------------ MODULE PageProofs ------------------------------
(***************************************************************************)
(* Proofs about the pages of the front end, for any bounds: first what the *)
(* sequences of calls of Browser do, whatever page has made them, then the *)
(* pages.                                                                  *)
(*                                                                         *)
(* A page shows what the server has when every answer that tells of a      *)
(* thing is either older than one the page has heard (it is late), or says *)
(* what is so.  The invariant of each thing shown is OnCourse: the last    *)
(* answer on its way says what is so; or a call is on its way that will    *)
(* bring such an answer; or nothing is on its way and the page shows it.   *)
(***************************************************************************)
EXTENDS Pages, SequenceTheorems, FiniteSetTheorems, TLAPS

-----------------------------------------------------------------------------
(***************************************************************************)
(* Sequences of calls.                                                     *)
(***************************************************************************)
CallsOf(Kinds, Args, Gots, Topics) ==
  [kind : Kinds, arg : Args, at : {"sent", "served"}, got : Gots, late : SUBSET Topics, deaf : BOOLEAN]

\* The place in a sequence of what has place k once place j has been left out.
Was(j, k) == IF k < j THEN k ELSE k + 1

LEMMA RemovedIs ==
  ASSUME NEW S, NEW q \in Seq(S), NEW j \in 1..Len(q)
  PROVE  /\ RemoveAt(q, j) \in Seq(S)
         /\ Len(RemoveAt(q, j)) = Len(q) - 1
         /\ \A k \in 1..Len(q) - 1 : RemoveAt(q, j)[k] = q[Was(j, k)]
<1> DEFINE a == SubSeq(q, 1, j - 1)
           b == SubSeq(q, j + 1, Len(q))
<1>1. Len(q) \in Nat /\ \A i \in 1..Len(q) : q[i] \in S
  BY LenProperties, ElementOfSeq
<1>2. a \in Seq(S) /\ Len(a) = j - 1 /\ \A i \in 1..j - 1 : a[i] = q[i]
  <2>1. j - 1 \in Int /\ \A i \in 1..j - 1 : q[i] \in S
    BY <1>1
  <2>2. /\ a \in Seq(S) /\ Len(a) = IF 1 <= j - 1 THEN j - 1 - 1 + 1 ELSE 0
        /\ \A i \in 1..j - 1 - 1 + 1 : a[i] = q[1 + i - 1]
    BY <2>1, SubSeqProperties
  <2> HIDE DEF a
  <2> QED
    BY <1>1, <2>2
<1>3. b \in Seq(S) /\ Len(b) = Len(q) - j /\ \A i \in 1..Len(q) - j : b[i] = q[j + i]
  <2>1. j + 1 \in Int /\ \A i \in j + 1..Len(q) : q[i] \in S
    BY <1>1
  <2>2. /\ b \in Seq(S) /\ Len(b) = IF j + 1 <= Len(q) THEN Len(q) - (j + 1) + 1 ELSE 0
        /\ \A i \in 1..Len(q) - (j + 1) + 1 : b[i] = q[j + 1 + i - 1]
    BY <2>1, <1>1, SubSeqProperties
  <2> HIDE DEF b
  <2> QED
    BY <1>1, <2>2
<1>4. RemoveAt(q, j) = a \o b
  BY DEF RemoveAt
<1> HIDE DEF a, b
<1>5. /\ a \o b \in Seq(S) /\ Len(a \o b) = Len(a) + Len(b)
      /\ \A i \in 1..Len(a) + Len(b) : (a \o b)[i] = IF i <= Len(a) THEN a[i] ELSE b[i - Len(a)]
  BY <1>2, <1>3, ConcatProperties
<1>6. ASSUME NEW k \in 1..Len(q) - 1 PROVE (a \o b)[k] = q[Was(j, k)]
  <2>1. CASE k < j
    BY <1>1, <1>2, <1>3, <1>5, <2>1 DEF Was
  <2>2. CASE ~ k < j
    <3>1. k - (j - 1) \in 1..Len(q) - j /\ j + (k - (j - 1)) = k + 1
      BY <1>1, <2>2
    <3>2. (a \o b)[k] = b[k - (j - 1)]
      BY <1>1, <1>2, <1>3, <1>5, <2>2
    <3> QED
      BY <1>3, <2>2, <3>1, <3>2 DEF Was
  <2> QED
    BY <2>1, <2>2
<1> QED
  BY <1>1, <1>2, <1>3, <1>4, <1>5, <1>6

\* Every other place is still there.
LEMMA WasOnto ==
  ASSUME NEW n \in Nat, NEW j \in 1..n
  PROVE  /\ \A k \in 1..n - 1 : Was(j, k) \in 1..n /\ Was(j, k) # j
         /\ \A i \in 1..n : i # j => \E k \in 1..n - 1 : Was(j, k) = i
         /\ \A k, l \in 1..n - 1 : k <= l <=> Was(j, k) <= Was(j, l)
         /\ \A k, l \in 1..n - 1 : Was(j, k) = Was(j, l) => k = l
<1>1. ASSUME NEW i \in 1..n, i # j PROVE \E k \in 1..n - 1 : Was(j, k) = i
  <2>1. CASE i < j
    BY <2>1 DEF Was
  <2>2. CASE i > j
    <3>1. i - 1 \in 1..n - 1 /\ Was(j, i - 1) = i
      BY <2>2 DEF Was
    <3> QED
      BY <3>1
  <2> QED
    BY <1>1, <2>1, <2>2
<1>2. \A k \in 1..n - 1 : Was(j, k) \in 1..n /\ Was(j, k) # j
  BY DEF Was
<1>3. \A k, l \in 1..n - 1 : (k <= l <=> Was(j, k) <= Was(j, l)) /\ (Was(j, k) = Was(j, l) => k = l)
  BY DEF Was
<1> QED
  BY <1>1, <1>2, <1>3

\* Two states of a call: it may have become late for more.
SameCall(new, old) ==
  /\ new.kind = old.kind /\ new.arg = old.arg /\ new.at = old.at /\ new.got = old.got
  /\ new.deaf = old.deaf /\ old.late \subseteq new.late

\* Call j is gone.
Rid(new, old, j) ==
  /\ Len(new) = Len(old) - 1
  /\ \A k \in 1..Len(old) - 1 : SameCall(new[k], old[Was(j, k)])

\* Some call is of a kind, in a state, heard or not, among these.
Pending(calls, P) == \E i \in 1..Len(calls) : <<calls[i].kind, calls[i].at, calls[i].deaf>> \in P

\* The calls that tell of a topic and have been served.
Told(calls, kinds) == {i \in 1..Len(calls) : calls[i].at = "served" /\ calls[i].kind \in kinds}

\* The last of them says what is so now, or it is known to be late.
LastRight(calls, kinds, topic, G) ==
  \A i \in Told(calls, kinds) :
    (\A k \in Told(calls, kinds) : k <= i) =>
      <<calls[i].kind, calls[i].got>> \in G \/ topic \in calls[i].late

LEMMA RidPending ==
  ASSUME NEW S, NEW old \in Seq(S), NEW j \in 1..Len(old), NEW new, Rid(new, old, j),
         NEW P, Pending(old, P), <<old[j].kind, old[j].at, old[j].deaf>> \notin P
  PROVE  Pending(new, P)
<1>1. Len(old) \in Nat
  BY LenProperties
<1>2. PICK i \in 1..Len(old) : <<old[i].kind, old[i].at, old[i].deaf>> \in P
  BY DEF Pending
<1>3. PICK k \in 1..Len(old) - 1 : Was(j, k) = i
  <2>1. i # j
    BY <1>2
  <2> QED
    BY <1>1, <2>1, WasOnto
<1>4. SameCall(new[k], old[i]) /\ k \in 1..Len(new)
  BY <1>1, <1>3 DEF Rid
<1>5. <<new[k].kind, new[k].at, new[k].deaf>> = <<old[i].kind, old[i].at, old[i].deaf>>
  BY <1>4 DEF SameCall
<1> QED
  BY <1>2, <1>4, <1>5 DEF Pending

\* Of calls that tell of something else nothing changes.
LEMMA RidTold ==
  ASSUME NEW S, NEW old \in Seq(S), NEW j \in 1..Len(old), NEW new, Rid(new, old, j), NEW kinds
  PROVE  /\ \A k \in Told(new, kinds) : Was(j, k) \in Told(old, kinds) /\ k \in 1..Len(old) - 1
         /\ \A i \in Told(old, kinds) : i # j => \E k \in Told(new, kinds) : Was(j, k) = i
<1>1. Len(old) \in Nat /\ Len(new) = Len(old) - 1
  BY LenProperties DEF Rid
<1>2. \A k \in 1..Len(old) - 1 : Was(j, k) \in 1..Len(old) /\ Was(j, k) # j
  BY <1>1, WasOnto
<1>3. \A i \in 1..Len(old) : i # j => \E k \in 1..Len(old) - 1 : Was(j, k) = i
  BY <1>1, WasOnto
<1>4. \A k \in 1..Len(old) - 1 : new[k].at = old[Was(j, k)].at /\ new[k].kind = old[Was(j, k)].kind
  BY DEF Rid, SameCall
<1> QED
  BY <1>1, <1>2, <1>3, <1>4 DEF Told

LEMMA RidRight ==
  ASSUME NEW S, NEW old \in Seq(S), NEW j \in 1..Len(old), NEW new, Rid(new, old, j), NEW kinds, NEW topic, NEW G,
         LastRight(old, kinds, topic, G), j \notin Told(old, kinds)
  PROVE  /\ LastRight(new, kinds, topic, G)
         /\ Told(new, kinds) = {} <=> Told(old, kinds) = {}
<1>1. Len(old) \in Nat /\ Len(new) = Len(old) - 1
  BY LenProperties DEF Rid
<1>2. \A k, l \in 1..Len(old) - 1 : k <= l <=> Was(j, k) <= Was(j, l)
  BY <1>1, WasOnto
<1>3. /\ \A k \in Told(new, kinds) : Was(j, k) \in Told(old, kinds) /\ k \in 1..Len(old) - 1
      /\ \A i \in Told(old, kinds) : \E k \in Told(new, kinds) : Was(j, k) = i
  BY RidTold
<1>4. ASSUME NEW k \in Told(new, kinds), \A l \in Told(new, kinds) : l <= k
      PROVE  <<new[k].kind, new[k].got>> \in G \/ topic \in new[k].late
  <2>1. \A i \in Told(old, kinds) : i <= Was(j, k)
    BY <1>2, <1>3, <1>4
  <2>2. <<old[Was(j, k)].kind, old[Was(j, k)].got>> \in G \/ topic \in old[Was(j, k)].late
    BY <1>3, <2>1 DEF LastRight
  <2>3. SameCall(new[k], old[Was(j, k)])
    BY <1>3 DEF Rid
  <2> QED
    BY <2>2, <2>3 DEF SameCall
<1>5. Told(new, kinds) = {} <=> Told(old, kinds) = {}
  BY <1>3
<1> QED
  BY <1>4, <1>5 DEF LastRight

\* A call that is taken out.
LEMMA RemovedCall ==
  ASSUME NEW S, NEW calls \in Seq(S), NEW j \in 1..Len(calls)
  PROVE  RemoveAt(calls, j) \in Seq(S) /\ Rid(RemoveAt(calls, j), calls, j)
BY RemovedIs DEF Rid, SameCall

\* A call that is served: it comes last.
LEMMA ServedIs ==
  ASSUME NEW K, NEW A, NEW G, NEW T, NEW calls \in Seq(CallsOf(K, A, G, T)), NEW j \in 1..Len(calls), NEW got \in G
  PROVE  /\ Served(calls, j, got) \in Seq(CallsOf(K, A, G, T))
         /\ Len(Served(calls, j, got)) = Len(calls)
         /\ \A k \in 1..Len(calls) - 1 : Served(calls, j, got)[k] = calls[Was(j, k)]
         /\ LET c == Served(calls, j, got)[Len(calls)]
            IN  /\ c.kind = calls[j].kind /\ c.arg = calls[j].arg /\ c.at = "served" /\ c.got = got
                /\ c.late = calls[j].late /\ c.deaf = calls[j].deaf
<1> DEFINE S == CallsOf(K, A, G, T)
           c == [calls[j] EXCEPT !.at = "served", !.got = got]
<1>1. calls[j] \in S /\ Len(calls) \in Nat
  BY LenProperties, ElementOfSeq
<1>2. /\ c \in S /\ c.kind = calls[j].kind /\ c.arg = calls[j].arg /\ c.at = "served" /\ c.got = got
      /\ c.late = calls[j].late /\ c.deaf = calls[j].deaf
  BY <1>1 DEF CallsOf
<1> HIDE DEF S, c
<1>3. /\ RemoveAt(calls, j) \in Seq(S) /\ Len(RemoveAt(calls, j)) = Len(calls) - 1
      /\ \A k \in 1..Len(calls) - 1 : RemoveAt(calls, j)[k] = calls[Was(j, k)]
  BY RemovedIs DEF S
<1>4. Served(calls, j, got) = Append(RemoveAt(calls, j), c)
  BY DEF Served, c
<1>5. /\ Append(RemoveAt(calls, j), c) \in Seq(S)
      /\ Len(Append(RemoveAt(calls, j), c)) = Len(calls) - 1 + 1
      /\ \A k \in 1..Len(calls) - 1 : Append(RemoveAt(calls, j), c)[k] = RemoveAt(calls, j)[k]
      /\ Append(RemoveAt(calls, j), c)[Len(calls) - 1 + 1] = c
  BY <1>2, <1>3, AppendProperties
<1>6. Len(calls) - 1 + 1 = Len(calls)
  BY <1>1
<1>7. Served(calls, j, got) \in Seq(S)
  BY <1>4, <1>5
<1> QED
  BY <1>2, <1>3, <1>4, <1>5, <1>6, <1>7 DEF S

LEMMA ServedPending ==
  ASSUME NEW K, NEW A, NEW G, NEW T, NEW calls \in Seq(CallsOf(K, A, G, T)), NEW j \in 1..Len(calls), NEW got \in G, NEW P
  PROVE  /\ <<calls[j].kind, "served", calls[j].deaf>> \in P => Pending(Served(calls, j, got), P)
         /\ Pending(calls, P) /\ <<calls[j].kind, calls[j].at, calls[j].deaf>> \notin P => Pending(Served(calls, j, got), P)
<1> DEFINE new == Served(calls, j, got)
<1>1. /\ Len(new) = Len(calls)
      /\ \A k \in 1..Len(calls) - 1 : new[k] = calls[Was(j, k)]
      /\ new[Len(calls)].kind = calls[j].kind /\ new[Len(calls)].at = "served" /\ new[Len(calls)].deaf = calls[j].deaf
  BY ServedIs
<1>2. Len(calls) \in Nat /\ Len(calls) \in 1..Len(calls)
  BY LenProperties
<1> HIDE DEF new
<1>3. <<calls[j].kind, "served", calls[j].deaf>> \in P => Pending(new, P)
  BY <1>1, <1>2 DEF Pending
<1>4. ASSUME Pending(calls, P), <<calls[j].kind, calls[j].at, calls[j].deaf>> \notin P PROVE Pending(new, P)
  <2>1. PICK i \in 1..Len(calls) : <<calls[i].kind, calls[i].at, calls[i].deaf>> \in P
    BY <1>4 DEF Pending
  <2>2. PICK k \in 1..Len(calls) - 1 : Was(j, k) = i
    <3>1. i # j
      BY <1>4, <2>1
    <3> QED
      BY <1>2, <3>1, WasOnto
  <2>3. new[k] = calls[i] /\ k \in 1..Len(new)
    BY <1>1, <1>2, <2>2
  <2> QED
    BY <2>1, <2>3 DEF Pending
<1> QED
  BY <1>3, <1>4 DEF new

\* A call that tells of something else is served, or one that says what is so.
LEMMA ServedRight ==
  ASSUME NEW K, NEW A, NEW G, NEW T, NEW calls \in Seq(CallsOf(K, A, G, T)), NEW j \in 1..Len(calls), NEW got \in G,
         NEW kinds, NEW topic, NEW R, calls[j].at = "sent"
  PROVE  /\ calls[j].kind \notin kinds /\ LastRight(calls, kinds, topic, R)
              => LastRight(Served(calls, j, got), kinds, topic, R)
         /\ calls[j].kind \notin kinds => (Told(Served(calls, j, got), kinds) = {} <=> Told(calls, kinds) = {})
         /\ calls[j].kind \in kinds /\ <<calls[j].kind, got>> \in R
              => LastRight(Served(calls, j, got), kinds, topic, R) /\ Told(Served(calls, j, got), kinds) # {}
<1> DEFINE new == Served(calls, j, got)
           n == Len(calls)
<1>1. /\ Len(new) = n
      /\ \A k \in 1..n - 1 : new[k] = calls[Was(j, k)]
      /\ new[n].kind = calls[j].kind /\ new[n].at = "served" /\ new[n].got = got
  BY ServedIs
<1>2. n \in Nat /\ n \in 1..n /\ j \in 1..n
  BY LenProperties
<1> HIDE DEF new, n
<1>3. /\ \A k \in 1..n - 1 : Was(j, k) \in 1..n /\ Was(j, k) # j
      /\ \A i \in 1..n : i # j => \E k \in 1..n - 1 : Was(j, k) = i
      /\ \A k, l \in 1..n - 1 : k <= l <=> Was(j, k) <= Was(j, l)
  BY <1>2, WasOnto
<1>4. ASSUME calls[j].kind \notin kinds
      PROVE  /\ \A k \in Told(new, kinds) : Was(j, k) \in Told(calls, kinds) /\ k \in 1..n - 1
             /\ \A i \in Told(calls, kinds) : \E k \in Told(new, kinds) : Was(j, k) = i
  <2>1. n \notin Told(new, kinds)
    BY <1>1, <1>4 DEF Told
  <2>2. \A k \in Told(new, kinds) : k \in 1..n - 1
    BY <1>1, <1>2, <2>1 DEF Told
  <2>3. j \notin Told(calls, kinds)
    BY <1>4 DEF Told
  <2>4. \A k \in 1..n - 1 : k \in Told(new, kinds) <=> Was(j, k) \in Told(calls, kinds)
    BY <1>1, <1>2, <1>3 DEF Told, n
  <2> QED
    BY <1>3, <2>2, <2>3, <2>4 DEF Told, n
<1>5. ASSUME calls[j].kind \notin kinds, LastRight(calls, kinds, topic, R) PROVE LastRight(new, kinds, topic, R)
  <2>1. ASSUME NEW k \in Told(new, kinds), \A l \in Told(new, kinds) : l <= k
        PROVE  <<new[k].kind, new[k].got>> \in R \/ topic \in new[k].late
    <3>1. \A i \in Told(calls, kinds) : i <= Was(j, k)
      BY <1>3, <1>4, <1>5, <2>1
    <3>2. new[k] = calls[Was(j, k)] /\ Was(j, k) \in Told(calls, kinds)
      BY <1>1, <1>4, <1>5
    <3> QED
      BY <1>5, <3>1, <3>2 DEF LastRight
  <2> QED
    BY <2>1 DEF LastRight
<1>6. calls[j].kind \notin kinds => (Told(new, kinds) = {} <=> Told(calls, kinds) = {})
  BY <1>4
<1>7. ASSUME calls[j].kind \in kinds, <<calls[j].kind, got>> \in R
      PROVE  LastRight(new, kinds, topic, R) /\ Told(new, kinds) # {}
  <2>1. n \in Told(new, kinds)
    BY <1>1, <1>2, <1>7 DEF Told
  <2>2. \A k \in Told(new, kinds) : k \in 1..n
    BY <1>1 DEF Told
  <2>3. \A k \in Told(new, kinds) : (\A l \in Told(new, kinds) : l <= k) => k = n
    BY <1>2, <2>1, <2>2
  <2>4. <<new[n].kind, new[n].got>> \in R
    BY <1>1, <1>7
  <2> QED
    BY <2>1, <2>3, <2>4 DEF LastRight
<1> QED
  BY <1>5, <1>6, <1>7 DEF new

\* A call that is answered: what it tells makes older news late.
LEMMA AnsweredIs ==
  ASSUME NEW K, NEW A, NEW G, NEW T, NEW calls \in Seq(CallsOf(K, A, G, T)), NEW j \in 1..Len(calls),
         NEW tells, \A t \in tells : t[2] \in T
  PROVE  /\ Answered(calls, j, tells) \in Seq(CallsOf(K, A, G, T))
         /\ Rid(Answered(calls, j, tells), calls, j)
         /\ \A k \in 1..Len(calls) - 1 : \A topic :
              k < j /\ calls[k].at = calls[j].at
                /\ <<calls[k].kind, topic>> \in tells /\ <<calls[j].kind, topic>> \in tells
              => topic \in Answered(calls, j, tells)[k].late
<1> DEFINE S == CallsOf(K, A, G, T)
           Both(i) == About(tells, calls[i].kind) \intersect About(tells, calls[j].kind)
           c(i) == IF i < j /\ calls[i].at = calls[j].at
                   THEN [calls[i] EXCEPT !.late = @ \union Both(i)] ELSE calls[i]
           q == [i \in 1..Len(calls) |-> c(i)]
<1>1. Len(calls) \in Nat /\ \A i \in 1..Len(calls) : calls[i] \in S
  BY LenProperties, ElementOfSeq
<1>2. \A i : Both(i) \in SUBSET T
  BY DEF About
<1>3. ASSUME NEW i \in 1..Len(calls)
      PROVE  /\ c(i) \in S /\ SameCall(c(i), calls[i])
             /\ i < j /\ calls[i].at = calls[j].at => Both(i) \subseteq c(i).late
  <2>1. calls[i] \in S /\ Both(i) \in SUBSET T
    BY <1>1, <1>2
  <2>2. CASE i < j /\ calls[i].at = calls[j].at
    <3> DEFINE b == Both(i)
    <3>1. b \in SUBSET T /\ c(i) = [calls[i] EXCEPT !.late = @ \union b]
      BY <2>1, <2>2
    <3> HIDE DEF b
    <3>2. [calls[i] EXCEPT !.late = @ \union b] \in S
      BY <2>1, <3>1 DEF CallsOf
    <3>3. SameCall([calls[i] EXCEPT !.late = @ \union b], calls[i])
      BY <2>1, <3>1 DEF CallsOf, SameCall
    <3>4. [calls[i] EXCEPT !.late = @ \union b].late = calls[i].late \union b
      BY <2>1 DEF CallsOf
    <3>5. b \subseteq c(i).late
      BY <3>1, <3>4
    <3> QED
      BY <3>1, <3>2, <3>3, <3>5 DEF b
  <2>3. CASE ~ (i < j /\ calls[i].at = calls[j].at)
    <3>1. c(i) = calls[i]
      BY <2>3
    <3> QED
      BY <2>1, <2>3, <3>1 DEF SameCall
  <2> QED
    BY <2>2, <2>3
<1>4. Answered(calls, j, tells) = RemoveAt(q, j)
  BY DEF Answered
<1>t. \A k \in 1..Len(calls) : \A topic :
        <<calls[k].kind, topic>> \in tells /\ <<calls[j].kind, topic>> \in tells => topic \in Both(k)
  <2> TAKE k \in 1..Len(calls)
  <2> TAKE topic
  <2> HAVE <<calls[k].kind, topic>> \in tells /\ <<calls[j].kind, topic>> \in tells
  <2>1. \A kind : <<kind, topic>> \in tells => topic \in About(tells, kind)
    <3> TAKE kind
    <3> HAVE <<kind, topic>> \in tells
    <3>1. <<kind, topic>>[1] = kind /\ <<kind, topic>>[2] = topic
      OBVIOUS
    <3> QED
      BY <3>1 DEF About
  <2> QED
    BY <2>1
<1> HIDE DEF c, Both, S
<1>5. q \in Seq(S) /\ Len(q) = Len(calls) /\ \A i \in 1..Len(calls) : q[i] = c(i)
  <2>1. q \in [1..Len(calls) -> S]
    BY <1>3
  <2>2. q \in Seq(S)
    BY <1>1, <2>1, SeqDef
  <2>3. Len(q) = Len(calls)
    BY <1>1, <2>2, LenProperties
  <2> QED
    BY <2>2, <2>3
<1> HIDE DEF q
<1>6. /\ RemoveAt(q, j) \in Seq(S) /\ Len(RemoveAt(q, j)) = Len(q) - 1
      /\ \A k \in 1..Len(q) - 1 : RemoveAt(q, j)[k] = q[Was(j, k)]
  BY <1>5, RemovedIs
<1>7. \A k \in 1..Len(calls) - 1 : Was(j, k) \in 1..Len(calls) /\ (k < j => Was(j, k) = k)
  BY <1>1 DEF Was
<1>8. \A k \in 1..Len(calls) - 1 : SameCall(RemoveAt(q, j)[k], calls[Was(j, k)])
  BY <1>3, <1>5, <1>6, <1>7
<1>9. ASSUME NEW k \in 1..Len(calls) - 1, NEW topic, k < j, calls[k].at = calls[j].at,
             <<calls[k].kind, topic>> \in tells, <<calls[j].kind, topic>> \in tells
      PROVE  topic \in RemoveAt(q, j)[k].late
  <2>1. RemoveAt(q, j)[k] = c(k) /\ k \in 1..Len(calls)
    BY <1>1, <1>5, <1>6, <1>7, <1>9
  <2>2. Both(k) \subseteq c(k).late
    BY <1>3, <1>9, <2>1
  <2>3. topic \in Both(k)
    BY <1>t, <1>9, <2>1
  <2> QED
    BY <2>1, <2>2, <2>3
<1>10. Rid(RemoveAt(q, j), calls, j)
  BY <1>5, <1>6, <1>8 DEF Rid
<1> QED
  BY <1>4, <1>6, <1>9, <1>10 DEF S

\* Once the last that told is answered, the others are late; when there is no
\* other, the page has what it said.
LEMMA AnsweredRight ==
  ASSUME NEW K, NEW A, NEW G, NEW T, NEW calls \in Seq(CallsOf(K, A, G, T)), NEW j \in 1..Len(calls),
         NEW tells, \A t \in tells : t[2] \in T,
         NEW kinds, NEW topic, NEW R, LastRight(calls, kinds, topic, R), calls[j].at = "served",
         \A kind \in kinds : <<kind, topic>> \in tells
  PROVE  /\ LastRight(Answered(calls, j, tells), kinds, topic, R)
         /\ Told(Answered(calls, j, tells), kinds) = {} =>
              \/ Told(calls, kinds) = {}
              \/ calls[j].kind \in kinds /\ (<<calls[j].kind, calls[j].got>> \in R \/ topic \in calls[j].late)
<1> DEFINE new == Answered(calls, j, tells)
<1>1. /\ new \in Seq(CallsOf(K, A, G, T))
      /\ Rid(new, calls, j)
      /\ \A k \in 1..Len(calls) - 1 :
           k < j /\ calls[k].at = calls[j].at
             /\ <<calls[k].kind, topic>> \in tells /\ <<calls[j].kind, topic>> \in tells
           => topic \in new[k].late
  BY AnsweredIs
<1> HIDE DEF new
<1>2. CASE j \notin Told(calls, kinds)
  <2>1. /\ LastRight(new, kinds, topic, R)
        /\ Told(new, kinds) = {} <=> Told(calls, kinds) = {}
    BY <1>1, <1>2, RidRight
  <2> QED
    BY <2>1 DEF new
<1>3. CASE j \in Told(calls, kinds)
  <2>1. Len(calls) \in Nat /\ Len(new) = Len(calls) - 1
    BY <1>1, LenProperties DEF Rid
  <2>2. /\ \A k \in Told(new, kinds) : Was(j, k) \in Told(calls, kinds) /\ k \in 1..Len(calls) - 1
        /\ \A i \in Told(calls, kinds) : i # j => \E k \in Told(new, kinds) : Was(j, k) = i
    BY <1>1, RidTold
  <2>3. \A k, l \in 1..Len(calls) - 1 : k <= l <=> Was(j, k) <= Was(j, l)
    BY <2>1, WasOnto
  <2>4. ASSUME NEW k \in Told(new, kinds), \A l \in Told(new, kinds) : l <= k
        PROVE  <<new[k].kind, new[k].got>> \in R \/ topic \in new[k].late
    <3>1. \A i \in Told(calls, kinds) : i # j => i <= Was(j, k)
      BY <2>2, <2>3, <2>4
    <3>2. CASE j <= Was(j, k)
      <4>1. \A i \in Told(calls, kinds) : i <= Was(j, k)
        BY <3>1, <3>2
      <4>2. <<calls[Was(j, k)].kind, calls[Was(j, k)].got>> \in R \/ topic \in calls[Was(j, k)].late
        BY <2>2, <4>1 DEF LastRight
      <4>3. SameCall(new[k], calls[Was(j, k)])
        BY <1>1, <2>2 DEF Rid
      <4> QED
        BY <4>2, <4>3 DEF SameCall
    <3>3. CASE ~ j <= Was(j, k)
      <4>1. k < j /\ Was(j, k) = k /\ k \in 1..Len(calls) - 1
        BY <2>1, <2>2, <3>3 DEF Was
      <4>2. k \in Told(calls, kinds)
        BY <2>2, <4>1
      <4>3. calls[k].at = calls[j].at /\ calls[k].kind \in kinds /\ calls[j].kind \in kinds
        BY <1>3, <4>2 DEF Told
      <4> QED
        BY <1>1, <4>1, <4>3
    <3> QED
      BY <3>2, <3>3
  <2>5. ASSUME Told(new, kinds) = {}
        PROVE  calls[j].kind \in kinds /\ (<<calls[j].kind, calls[j].got>> \in R \/ topic \in calls[j].late)
    <3>1. \A i \in Told(calls, kinds) : i = j
      BY <2>2, <2>5
    <3>2. \A i \in Told(calls, kinds) : i <= j
      BY <2>1, <3>1
    <3> QED
      BY <1>3, <3>2 DEF LastRight, Told
  <2> QED
    BY <2>4, <2>5 DEF LastRight, new
<1> QED
  BY <1>2, <1>3

\* Calls that are sent come last.
LEMMA SentIs ==
  ASSUME NEW S, NEW calls \in Seq(S), NEW more \in Seq(S)
  PROVE  /\ Sent(calls, more) \in Seq(S)
         /\ Len(Sent(calls, more)) = Len(calls) + Len(more)
         /\ \A k \in 1..Len(calls) : Sent(calls, more)[k] = calls[k]
         /\ \A k \in 1..Len(more) : Sent(calls, more)[Len(calls) + k] = more[k]
<1>1. Len(calls) \in Nat /\ Len(more) \in Nat
  BY LenProperties
<1>2. /\ calls \o more \in Seq(S)
      /\ Len(calls \o more) = Len(calls) + Len(more)
      /\ \A i \in 1..Len(calls) + Len(more) :
           (calls \o more)[i] = IF i <= Len(calls) THEN calls[i] ELSE more[i - Len(calls)]
  BY ConcatProperties
<1>3. \A k \in 1..Len(more) : Len(calls) + k \in 1..Len(calls) + Len(more) /\ ~ Len(calls) + k <= Len(calls)
                               /\ Len(calls) + k - Len(calls) = k
  BY <1>1
<1>4. \A k \in 1..Len(calls) : k \in 1..Len(calls) + Len(more) /\ k <= Len(calls)
  BY <1>1
<1>5. \A k \in 1..Len(calls) : (calls \o more)[k] = calls[k]
  BY <1>2, <1>4
<1>6. \A k \in 1..Len(more) : (calls \o more)[Len(calls) + k] = more[k]
  BY <1>2, <1>3
<1> QED
  BY <1>2, <1>5, <1>6 DEF Sent

LEMMA SentPending ==
  ASSUME NEW S, NEW calls \in Seq(S), NEW more \in Seq(S), NEW P
  PROVE  Pending(Sent(calls, more), P) <=> Pending(calls, P) \/ Pending(more, P)
<1>0. PICK new : new = Sent(calls, more)
  OBVIOUS
<1>a. Len(Sent(calls, more)) = Len(calls) + Len(more)
  BY SentIs
<1>b. \A k \in 1..Len(calls) : Sent(calls, more)[k] = calls[k]
  BY SentIs
<1>c. \A k \in 1..Len(more) : Sent(calls, more)[Len(calls) + k] = more[k]
  BY SentIs
<1>1. /\ Len(new) = Len(calls) + Len(more)
      /\ \A k \in 1..Len(calls) : new[k] = calls[k]
      /\ \A k \in 1..Len(more) : new[Len(calls) + k] = more[k]
  BY <1>0, <1>a, <1>b, <1>c
<1>2. Len(calls) \in Nat /\ Len(more) \in Nat
  BY LenProperties
<1>3. \A k \in 1..Len(calls) : k \in 1..Len(new)
  BY <1>1, <1>2
<1>4. \A k \in 1..Len(more) : Len(calls) + k \in 1..Len(new)
  BY <1>1, <1>2
<1>5. ASSUME NEW k \in 1..Len(new) PROVE k \in 1..Len(calls) \/ \E l \in 1..Len(more) : k = Len(calls) + l
  <2>1. CASE k <= Len(calls)
    BY <1>1, <1>2, <2>1
  <2>2. CASE ~ k <= Len(calls)
    <3>1. k - Len(calls) \in 1..Len(more) /\ k = Len(calls) + (k - Len(calls))
      BY <1>1, <1>2, <2>2
    <3> QED
      BY <3>1
  <2> QED
    BY <2>1, <2>2
<1>6. Pending(calls, P) => Pending(new, P)
  BY <1>1, <1>3 DEF Pending
<1>7. Pending(more, P) => Pending(new, P)
  BY <1>1, <1>4 DEF Pending
<1>8. Pending(new, P) => Pending(calls, P) \/ Pending(more, P)
  BY <1>1, <1>5 DEF Pending
<1> QED
  BY <1>6, <1>7, <1>8, <1>0

LEMMA SentTold ==
  ASSUME NEW S, NEW calls \in Seq(S), NEW more \in Seq(S), \A k \in 1..Len(more) : more[k].at = "sent",
         NEW kinds, NEW topic, NEW R
  PROVE  /\ Told(Sent(calls, more), kinds) = Told(calls, kinds)
         /\ LastRight(Sent(calls, more), kinds, topic, R) <=> LastRight(calls, kinds, topic, R)
<1>0. PICK new : new = Sent(calls, more)
  OBVIOUS
<1>a. Len(Sent(calls, more)) = Len(calls) + Len(more)
  BY SentIs
<1>b. \A k \in 1..Len(calls) : Sent(calls, more)[k] = calls[k]
  BY SentIs
<1>c. \A k \in 1..Len(more) : Sent(calls, more)[Len(calls) + k] = more[k]
  BY SentIs
<1>1. /\ Len(new) = Len(calls) + Len(more)
      /\ \A k \in 1..Len(calls) : new[k] = calls[k]
      /\ \A k \in 1..Len(more) : new[Len(calls) + k] = more[k]
  BY <1>0, <1>a, <1>b, <1>c
<1>2. Len(calls) \in Nat /\ Len(more) \in Nat
  BY LenProperties
<1>3. ASSUME NEW k \in 1..Len(new), k \notin 1..Len(calls) PROVE new[k].at = "sent"
  <2>1. k - Len(calls) \in 1..Len(more) /\ k = Len(calls) + (k - Len(calls))
    BY <1>1, <1>2, <1>3
  <2> QED
    BY <1>1, <2>1
<1>4. \A k \in 1..Len(calls) : k \in 1..Len(new)
  BY <1>1, <1>2
<1>5. Told(new, kinds) = Told(calls, kinds)
  BY <1>1, <1>3, <1>4 DEF Told
<1>6. \A k \in Told(calls, kinds) : new[k] = calls[k]
  BY <1>1 DEF Told
<1>7. LastRight(new, kinds, topic, R) <=> LastRight(calls, kinds, topic, R)
  BY <1>5, <1>6 DEF LastRight
<1> QED
  BY <1>5, <1>7, <1>0

\* On the way: something that will tell is due, or the last that told is right.
OnTrack(calls, kinds, topic, R, dues) ==
  Pending(calls, dues) \/ (Told(calls, kinds) # {} /\ LastRight(calls, kinds, topic, R))

LEMMA RidOnTrack ==
  ASSUME NEW S, NEW calls \in Seq(S), NEW j \in 1..Len(calls), NEW new, Rid(new, calls, j),
         NEW kinds, NEW topic, NEW R, NEW dues,
         calls[j].at = "sent" \/ calls[j].kind \notin kinds,
         <<calls[j].kind, calls[j].at, calls[j].deaf>> \notin dues
  PROVE  /\ OnTrack(calls, kinds, topic, R, dues) => OnTrack(new, kinds, topic, R, dues)
         /\ Told(new, kinds) = {} <=> Told(calls, kinds) = {}
<1>1. j \notin Told(calls, kinds)
  BY DEF Told
<1>2. LastRight(calls, kinds, topic, R) => LastRight(new, kinds, topic, R)
  BY <1>1, RidRight
<1>3. Told(new, kinds) = {} <=> Told(calls, kinds) = {}
  BY <1>1, RidTold
<1>4. Pending(calls, dues) => Pending(new, dues)
  BY RidPending
<1> QED
  BY <1>2, <1>3, <1>4 DEF OnTrack

LEMMA ServedOnTrack ==
  ASSUME NEW K, NEW A, NEW G, NEW T, NEW calls \in Seq(CallsOf(K, A, G, T)), NEW j \in 1..Len(calls), NEW got \in G,
         NEW kinds, NEW topic, NEW R, NEW dues, calls[j].at = "sent"
  PROVE  /\ calls[j].kind \notin kinds
              => (Told(Served(calls, j, got), kinds) = {} <=> Told(calls, kinds) = {})
         /\ calls[j].kind \notin kinds /\ <<calls[j].kind, "sent", calls[j].deaf>> \notin dues
              => (OnTrack(calls, kinds, topic, R, dues) => OnTrack(Served(calls, j, got), kinds, topic, R, dues))
         /\ calls[j].kind \in kinds /\ <<calls[j].kind, got>> \in R
              => OnTrack(Served(calls, j, got), kinds, topic, R, dues)
         /\ <<calls[j].kind, "served", calls[j].deaf>> \in dues
              => OnTrack(Served(calls, j, got), kinds, topic, R, dues)
<1>1. /\ calls[j].kind \notin kinds /\ LastRight(calls, kinds, topic, R)
              => LastRight(Served(calls, j, got), kinds, topic, R)
      /\ calls[j].kind \notin kinds => (Told(Served(calls, j, got), kinds) = {} <=> Told(calls, kinds) = {})
      /\ calls[j].kind \in kinds /\ <<calls[j].kind, got>> \in R
              => LastRight(Served(calls, j, got), kinds, topic, R) /\ Told(Served(calls, j, got), kinds) # {}
  BY ServedRight
<1>2. /\ <<calls[j].kind, "served", calls[j].deaf>> \in dues => Pending(Served(calls, j, got), dues)
      /\ Pending(calls, dues) /\ <<calls[j].kind, calls[j].at, calls[j].deaf>> \notin dues
            => Pending(Served(calls, j, got), dues)
  BY ServedPending
<1> QED
  BY <1>1, <1>2 DEF OnTrack

LEMMA AnsweredOnTrack ==
  ASSUME NEW K, NEW A, NEW G, NEW T, NEW calls \in Seq(CallsOf(K, A, G, T)), NEW j \in 1..Len(calls),
         NEW tells, \A t \in tells : t[2] \in T,
         NEW kinds, NEW topic, NEW R, NEW dues, calls[j].at = "served",
         \A kind \in kinds : <<kind, topic>> \in tells,
         <<calls[j].kind, "served", calls[j].deaf>> \notin dues
  PROVE  /\ OnTrack(calls, kinds, topic, R, dues) =>
              \/ OnTrack(Answered(calls, j, tells), kinds, topic, R, dues)
              \/ /\ Told(Answered(calls, j, tells), kinds) = {} /\ calls[j].kind \in kinds
                 /\ <<calls[j].kind, calls[j].got>> \in R \/ topic \in calls[j].late
         /\ calls[j].kind \notin kinds => (Told(Answered(calls, j, tells), kinds) = {} <=> Told(calls, kinds) = {})
<1>1. /\ Answered(calls, j, tells) \in Seq(CallsOf(K, A, G, T))
      /\ Rid(Answered(calls, j, tells), calls, j)
  BY AnsweredIs
<1>2. Pending(calls, dues) => Pending(Answered(calls, j, tells), dues)
  BY <1>1, RidPending
<1>3. LastRight(calls, kinds, topic, R) =>
        /\ LastRight(Answered(calls, j, tells), kinds, topic, R)
        /\ Told(Answered(calls, j, tells), kinds) = {} =>
              \/ Told(calls, kinds) = {}
              \/ calls[j].kind \in kinds /\ (<<calls[j].kind, calls[j].got>> \in R \/ topic \in calls[j].late)
  BY AnsweredRight
<1>4. calls[j].kind \notin kinds => (Told(Answered(calls, j, tells), kinds) = {} <=> Told(calls, kinds) = {})
  <2> SUFFICES ASSUME calls[j].kind \notin kinds
               PROVE  Told(Answered(calls, j, tells), kinds) = {} <=> Told(calls, kinds) = {}
    OBVIOUS
  <2>1. j \notin Told(calls, kinds)
    BY DEF Told
  <2> QED
    BY <1>1, <2>1, RidTold
<1> QED
  BY <1>2, <1>3, <1>4 DEF OnTrack

LEMMA SentOnTrack ==
  ASSUME NEW S, NEW calls \in Seq(S), NEW more \in Seq(S), \A k \in 1..Len(more) : more[k].at = "sent",
         NEW kinds, NEW topic, NEW R, NEW dues
  PROVE  /\ OnTrack(calls, kinds, topic, R, dues) => OnTrack(Sent(calls, more), kinds, topic, R, dues)
         /\ Told(Sent(calls, more), kinds) = Told(calls, kinds)
         /\ Pending(more, dues) => OnTrack(Sent(calls, more), kinds, topic, R, dues)
<1>1. /\ Told(Sent(calls, more), kinds) = Told(calls, kinds)
      /\ LastRight(Sent(calls, more), kinds, topic, R) <=> LastRight(calls, kinds, topic, R)
  BY SentTold
<1>2. Pending(Sent(calls, more), dues) <=> Pending(calls, dues) \/ Pending(more, dues)
  BY SentPending
<1> QED
  BY <1>1, <1>2 DEF OnTrack

-----------------------------------------------------------------------------
(***************************************************************************)
(* Parts of sequences.                                                     *)
(***************************************************************************)
\* The place that has rank k among these.
Place(places, k) == CHOOSE i \in places : Cardinality({j \in places : j <= i}) = k

\* Places have ranks, in order.
LEMMA PlacesAre ==
  ASSUME NEW places \in SUBSET Nat, IsFiniteSet(places)
  PROVE  /\ Cardinality(places) \in Nat
         /\ \A k \in 1..Cardinality(places) : Place(places, k) \in places
         /\ \A k, l \in 1..Cardinality(places) : k < l => Place(places, k) < Place(places, l)
         /\ \A i \in places : \E k \in 1..Cardinality(places) : Place(places, k) = i
<1> DEFINE n == Cardinality(places)
           Low(m) == {x \in places : x <= m}
           r == [m \in places |-> Cardinality(Low(m))]
<1>1. n \in Nat
  BY FS_CardinalityType
<1>2. ASSUME NEW m \in places
      PROVE  /\ IsFiniteSet(Low(m)) /\ Cardinality(Low(m)) \in 1..n
  <2>1. Low(m) \in SUBSET places /\ m \in Low(m)
    OBVIOUS
  <2>2. IsFiniteSet(Low(m)) /\ Cardinality(Low(m)) <= n
    BY <2>1, FS_Subset
  <2>3. Low(m) # {}
    BY <2>1
  <2> HIDE DEF Low
  <2>4. Cardinality(Low(m)) \in Nat /\ Cardinality(Low(m)) # 0
    BY <2>2, <2>3, FS_CardinalityType, FS_EmptySet
  <2> HIDE DEF n
  <2> QED
    BY <1>1, <2>2, <2>4
<1>n. \A m \in places : m \in Nat
  OBVIOUS
<1>b. ASSUME NEW l \in places, NEW m \in places, l < m
      PROVE  Low(l) \in SUBSET Low(m) /\ m \in Low(m) /\ m \notin Low(l)
  <2>1. l \in Nat /\ m \in Nat
    BY <1>n
  <2>2. \A x \in places : x \in Nat /\ (x <= l => x <= m)
    BY <1>n, <1>b, <2>1
  <2>3. m <= m /\ ~ m <= l
    BY <1>b, <2>1
  <2> QED
    BY <2>2, <2>3
<1>r. \A m \in places : r[m] = Cardinality(Low(m))
  OBVIOUS
<1>q. \A k : Place(places, k) = CHOOSE m \in places : r[m] = k
  <2> TAKE k
  <2>1. (CHOOSE i \in places : Cardinality({j \in places : j <= i}) = k) = CHOOSE m \in places : r[m] = k
    BY Zenon
  <2> QED
    BY <2>1 DEF Place
<1>9. (\A m \in places : r[m] \in 1..n) => r \in [places -> 1..n]
  BY Zenon
<1> HIDE DEF n, Low, r
<1>4. ASSUME NEW l \in places, NEW m \in places, l < m PROVE r[l] < r[m]
  <2>1. Low(l) \in SUBSET Low(m) /\ Low(l) # Low(m)
    BY <1>4, <1>b
  <2>2. Cardinality(Low(l)) <= Cardinality(Low(m))
    BY <1>2, <2>1, FS_Subset
  <2>3. Cardinality(Low(l)) # Cardinality(Low(m))
    BY <1>2, <2>1, FS_Subset
  <2>4. Cardinality(Low(l)) \in 1..n /\ Cardinality(Low(m)) \in 1..n
    BY <1>2
  <2> QED
    BY <1>1, <1>r, <2>2, <2>3, <2>4
<1>3. \A m \in places : r[m] \in 1..n
  BY <1>2, <1>r
<1>5. r \in Injection(places, 1..n)
  <2>1. r \in [places -> 1..n]
    BY <1>3, <1>9
  <2>2. \A l, m \in places : r[l] = r[m] => l = m
    BY <1>n, <1>3, <1>4, <1>1
  <2> QED
    BY <2>1, <2>2 DEF Injection, IsInjective
<1>6. r \in Surjection(places, 1..n)
  BY <1>1, <1>5, FS_Injection, FS_Interval DEF n
<1>7. \A k \in 1..n : \E m \in places : r[m] = k
  BY <1>6 DEF Surjection
<1>8. \A k \in 1..n : Place(places, k) \in places /\ r[Place(places, k)] = k
  BY <1>7, <1>q
<1>10. ASSUME NEW i \in 1..n, NEW k \in 1..n, i < k PROVE Place(places, i) < Place(places, k)
  <2> DEFINE a == Place(places, i)
             b == Place(places, k)
  <2>1. a \in places /\ b \in places /\ r[a] = i /\ r[b] = k /\ i \in Nat /\ k \in Nat
    BY <1>8, <1>1
  <2> HIDE DEF a, b
  <2>2. ~ b < a
    <3> SUFFICES ASSUME b < a PROVE FALSE
      OBVIOUS
    <3>1. r[b] < r[a]
      BY <1>4, <2>1
    <3> QED
      BY <1>10, <2>1, <3>1
  <2>3. a # b
    BY <1>10, <2>1
  <2>4. a \in Nat /\ b \in Nat
    BY <1>n, <2>1
  <2>5. a < b
    BY <2>2, <2>3, <2>4
  <2> QED
    BY <2>5 DEF a, b
<1>11. ASSUME NEW i \in places PROVE \E k \in 1..n : Place(places, k) = i
  <2>1. r[i] \in 1..n
    BY <1>3
  <2>2. Place(places, r[i]) \in places /\ r[Place(places, r[i])] = r[i]
    BY <1>8, <2>1
  <2>3. Place(places, r[i]) = i
    BY <1>5, <2>2 DEF Injection, IsInjective
  <2> QED
    BY <2>1, <2>3
<1> QED
  BY <1>1, <1>8, <1>10, <1>11 DEF n

\* Part picks places, in order.
LEMMA PartIs ==
  ASSUME NEW S, NEW q \in Seq(S), NEW places \in SUBSET (1..Len(q))
  PROVE  /\ Part(q, places) \in Seq(S)
         /\ Len(Part(q, places)) = Cardinality(places)
         /\ \A k \in 1..Len(Part(q, places)) : Place(places, k) \in places /\ Part(q, places)[k] = q[Place(places, k)]
         /\ \A k, l \in 1..Len(Part(q, places)) : k < l => Place(places, k) < Place(places, l)
         /\ \A i \in places : \E k \in 1..Len(Part(q, places)) : Place(places, k) = i
<1>1. Len(q) \in Nat /\ \A i \in 1..Len(q) : q[i] \in S
  BY LenProperties, ElementOfSeq
<1>2. IsFiniteSet(places) /\ places \in SUBSET Nat
  <2>0. \A n \in Nat : IsFiniteSet(1..n)
    BY FS_Interval
  <2>1. IsFiniteSet(1..Len(q))
    BY <1>1, <2>0
  <2>2. IsFiniteSet(places)
    BY <2>1, FS_Subset
  <2> QED
    BY <1>1, <2>2
<1>3. /\ Cardinality(places) \in Nat
      /\ \A k \in 1..Cardinality(places) : Place(places, k) \in places
      /\ \A k, l \in 1..Cardinality(places) : k < l => Place(places, k) < Place(places, l)
      /\ \A i \in places : \E k \in 1..Cardinality(places) : Place(places, k) = i
  BY <1>2, PlacesAre
<1>4. Part(q, places) = [k \in 1..Cardinality(places) |-> q[Place(places, k)]]
  BY DEF Part, Place
<1>5. Part(q, places) \in [1..Cardinality(places) -> S]
  BY <1>1, <1>3, <1>4
<1>6. Part(q, places) \in Seq(S)
  BY <1>3, <1>5, SeqDef
<1>7. Len(Part(q, places)) = Cardinality(places)
  BY <1>3, <1>5, <1>6, LenProperties
<1> QED
  BY <1>3, <1>4, <1>6, <1>7

\* Calls that are left when nobody listens any more: writes under way.
StillOf(still, calls, writes) ==
  /\ \A k \in 1..Len(still) : still[k].deaf = TRUE /\ still[k].at = "sent" /\ still[k].kind \in writes
  /\ \A k \in 1..Len(still) : \E i \in 1..Len(calls) :
       /\ still[k].kind = calls[i].kind /\ still[k].arg = calls[i].arg
       /\ still[k].got = calls[i].got /\ calls[i].at = "sent"

\* Who is not heard any more: writes that are under way.
LEMMA UnheardIs ==
  ASSUME NEW K, NEW A, NEW G, NEW T, NEW calls \in Seq(CallsOf(K, A, G, T)), NEW writes,
         NEW still, still = Unheard(calls, writes)
  PROVE  still \in Seq(CallsOf(K, A, G, T)) /\ StillOf(still, calls, writes)
<1> DEFINE S == CallsOf(K, A, G, T)
           places == {i \in 1..Len(calls) : calls[i].at = "sent" /\ calls[i].kind \in writes}
           part == Part(calls, places)
           new == [i \in 1..Len(part) |-> [part[i] EXCEPT !.deaf = TRUE]]
<1>1. Len(calls) \in Nat /\ \A i \in 1..Len(calls) : calls[i] \in S
  BY LenProperties, ElementOfSeq
<1>2. places \in SUBSET (1..Len(calls))
      /\ \A i \in places : i \in 1..Len(calls) /\ calls[i].at = "sent" /\ calls[i].kind \in writes
  OBVIOUS
<1>3. still = new
  BY DEF Unheard, Deafened
<1> HIDE DEF places
<1>4. /\ part \in Seq(S)
      /\ \A k \in 1..Len(part) : Place(places, k) \in places /\ part[k] = calls[Place(places, k)]
  BY <1>2, PartIs
<1>5. Len(part) \in Nat /\ \A k \in 1..Len(part) : part[k] \in S
  BY <1>4, LenProperties, ElementOfSeq
<1> HIDE DEF part
<1>6. \A c \in S : /\ [c EXCEPT !.deaf = TRUE] \in S
                   /\ [c EXCEPT !.deaf = TRUE].deaf = TRUE /\ [c EXCEPT !.deaf = TRUE].at = c.at
                   /\ [c EXCEPT !.deaf = TRUE].kind = c.kind /\ [c EXCEPT !.deaf = TRUE].arg = c.arg
                   /\ [c EXCEPT !.deaf = TRUE].got = c.got
  BY DEF CallsOf
<1> HIDE DEF S
<1>7. new \in [1..Len(part) -> S]
  BY <1>5, <1>6
<1>8. new \in Seq(S) /\ Len(new) = Len(part)
  <2>1. new \in Seq(S)
    BY <1>5, <1>7, SeqDef
  <2> QED
    BY <1>5, <1>7, <2>1, LenProperties
<1>9. \A k \in 1..Len(part) : new[k] = [part[k] EXCEPT !.deaf = TRUE]
  OBVIOUS
<1> HIDE DEF new
<1>10. ASSUME NEW k \in 1..Len(new)
       PROVE  /\ new[k].deaf = TRUE /\ new[k].at = "sent" /\ new[k].kind \in writes
              /\ \E i \in 1..Len(calls) :
                   /\ new[k].kind = calls[i].kind /\ new[k].arg = calls[i].arg
                   /\ new[k].got = calls[i].got /\ calls[i].at = "sent"
  <2>1. PICK i \in places : part[k] = calls[i]
    BY <1>4, <1>8
  <2>2. i \in 1..Len(calls) /\ calls[i].at = "sent" /\ calls[i].kind \in writes
    BY <1>2
  <2>3. part[k] \in S /\ new[k] = [part[k] EXCEPT !.deaf = TRUE]
    BY <1>5, <1>8, <1>9
  <2>4. /\ new[k].deaf = TRUE /\ new[k].at = part[k].at /\ new[k].kind = part[k].kind
        /\ new[k].arg = part[k].arg /\ new[k].got = part[k].got
    BY <1>6, <2>3
  <2> QED
    BY <2>1, <2>2, <2>4
<1>11. \A k \in 1..Len(still) : still[k].deaf = TRUE /\ still[k].at = "sent" /\ still[k].kind \in writes
  BY <1>3, <1>10
<1>12. \A k \in 1..Len(still) : \E i \in 1..Len(calls) :
              /\ still[k].kind = calls[i].kind /\ still[k].arg = calls[i].arg
              /\ still[k].got = calls[i].got /\ calls[i].at = "sent"
  <2> TAKE k \in 1..Len(still)
  <2>1. k \in 1..Len(new)
    BY <1>3
  <2>2. PICK i \in 1..Len(calls) :
          /\ new[k].kind = calls[i].kind /\ new[k].arg = calls[i].arg
          /\ new[k].got = calls[i].got /\ calls[i].at = "sent"
    BY <1>10, <2>1
  <2> QED
    BY <1>3, <2>2
<1>13. still \in Seq(S)
  BY <1>3, <1>8
<1> QED
  BY <1>11, <1>12, <1>13 DEF S, StillOf

\* What there is to a call, but for what it has become late for.
Gist(c) == <<c.kind, c.arg, c.at, c.got, c.deaf>>

\* All calls are among these.
Allowed(calls, OK) == \A i \in 1..Len(calls) : Gist(calls[i]) \in OK

\* The calls of a kind; there is one at most.
OfKind(calls, kind) == {i \in 1..Len(calls) : calls[i].kind = kind}

AtMostOne(calls, kind) == \A i, k \in OfKind(calls, kind) : i = k

LEMMA RidAllowed ==
  ASSUME NEW S, NEW old \in Seq(S), NEW j \in 1..Len(old), NEW new, Rid(new, old, j),
         NEW OK, Allowed(old, OK)
  PROVE  Allowed(new, OK)
<1>1. Len(old) \in Nat /\ Len(new) = Len(old) - 1
  BY LenProperties DEF Rid
<1>2. ASSUME NEW k \in 1..Len(new) PROVE Gist(new[k]) \in OK
  <2>1. SameCall(new[k], old[Was(j, k)]) /\ Was(j, k) \in 1..Len(old)
    BY <1>1, WasOnto DEF Rid
  <2>2. Gist(new[k]) = Gist(old[Was(j, k)])
    BY <2>1 DEF SameCall, Gist
  <2> QED
    BY <2>1, <2>2 DEF Allowed
<1> QED
  BY <1>2 DEF Allowed

LEMMA RidKinds ==
  ASSUME NEW S, NEW old \in Seq(S), NEW j \in 1..Len(old), NEW new, Rid(new, old, j), NEW kind
  PROVE  /\ old[j].kind # kind => (OfKind(new, kind) = {} <=> OfKind(old, kind) = {})
         /\ AtMostOne(old, kind) => AtMostOne(new, kind)
         /\ AtMostOne(old, kind) /\ old[j].kind = kind => OfKind(new, kind) = {}
<1>1. Len(old) \in Nat /\ Len(new) = Len(old) - 1
  BY LenProperties DEF Rid
<1>2. \A k \in 1..Len(old) - 1 : Was(j, k) \in 1..Len(old) /\ Was(j, k) # j
  BY <1>1, WasOnto
<1>3. \A i \in 1..Len(old) : i # j => \E k \in 1..Len(old) - 1 : Was(j, k) = i
  BY <1>1, WasOnto
<1>4. \A k, l \in 1..Len(old) - 1 : Was(j, k) = Was(j, l) => k = l
  BY <1>1, WasOnto
<1>5. \A k \in 1..Len(old) - 1 : new[k].kind = old[Was(j, k)].kind
  BY DEF Rid, SameCall
<1>6. \A k \in 1..Len(old) - 1 : k \in OfKind(new, kind) <=> Was(j, k) \in OfKind(old, kind)
  BY <1>1, <1>2, <1>5 DEF OfKind
<1>7. \A k \in OfKind(new, kind) : k \in 1..Len(old) - 1
  BY <1>1 DEF OfKind
<1>8. \A i \in OfKind(old, kind) : i \in 1..Len(old)
  BY DEF OfKind
<1>9. ASSUME old[j].kind # kind PROVE OfKind(new, kind) = {} <=> OfKind(old, kind) = {}
  <2>1. j \notin OfKind(old, kind)
    BY <1>9 DEF OfKind
  <2> QED
    BY <1>3, <1>6, <1>7, <1>8, <2>1
<1>10. AtMostOne(old, kind) => AtMostOne(new, kind)
  BY <1>4, <1>6, <1>7 DEF AtMostOne
<1>11. ASSUME AtMostOne(old, kind), old[j].kind = kind PROVE OfKind(new, kind) = {}
  <2>1. j \in OfKind(old, kind)
    BY <1>11 DEF OfKind
  <2> QED
    BY <1>2, <1>6, <1>7, <1>11, <2>1 DEF AtMostOne
<1> QED
  BY <1>9, <1>10, <1>11

LEMMA ServedAllowed ==
  ASSUME NEW K, NEW A, NEW G, NEW T, NEW calls \in Seq(CallsOf(K, A, G, T)), NEW j \in 1..Len(calls), NEW got \in G,
         NEW OK, Allowed(calls, OK), <<calls[j].kind, calls[j].arg, "served", got, calls[j].deaf>> \in OK
  PROVE  Allowed(Served(calls, j, got), OK)
<1>0. PICK new : new = Served(calls, j, got)
  OBVIOUS
<1>a. \A k \in 1..Len(calls) - 1 : Served(calls, j, got)[k] = calls[Was(j, k)]
  BY ServedIs
<1>b. LET c == Served(calls, j, got)[Len(calls)]
      IN  /\ c.kind = calls[j].kind /\ c.arg = calls[j].arg /\ c.at = "served" /\ c.got = got /\ c.deaf = calls[j].deaf
  BY ServedIs
<1>c. Len(Served(calls, j, got)) = Len(calls)
  BY ServedIs
<1>1. Len(calls) \in Nat /\ Len(new) = Len(calls)
  BY <1>0, <1>c, LenProperties
<1>2. \A k \in 1..Len(calls) - 1 : Was(j, k) \in 1..Len(calls)
  BY <1>1, WasOnto
<1>3. Gist(new[Len(calls)]) \in OK
  BY <1>0, <1>b DEF Gist
<1>4. ASSUME NEW k \in 1..Len(new) PROVE Gist(new[k]) \in OK
  <2>1. CASE k = Len(calls)
    BY <1>3, <2>1
  <2>2. CASE k # Len(calls)
    <3>1. k \in 1..Len(calls) - 1
      BY <1>1, <2>2
    <3>2. new[k] = calls[Was(j, k)] /\ Was(j, k) \in 1..Len(calls)
      BY <1>0, <1>a, <1>2, <3>1
    <3> QED
      BY <3>2 DEF Allowed
  <2> QED
    BY <2>1, <2>2
<1> QED
  BY <1>0, <1>4 DEF Allowed

LEMMA ServedKinds ==
  ASSUME NEW K, NEW A, NEW G, NEW T, NEW calls \in Seq(CallsOf(K, A, G, T)), NEW j \in 1..Len(calls), NEW got \in G,
         NEW kind
  PROVE  /\ OfKind(Served(calls, j, got), kind) = {} <=> OfKind(calls, kind) = {}
         /\ AtMostOne(calls, kind) => AtMostOne(Served(calls, j, got), kind)
<1>0. PICK new : new = Served(calls, j, got)
  OBVIOUS
<1>a. \A k \in 1..Len(calls) - 1 : Served(calls, j, got)[k] = calls[Was(j, k)]
  BY ServedIs
<1>b. Served(calls, j, got)[Len(calls)].kind = calls[j].kind
  BY ServedIs
<1>c. Len(Served(calls, j, got)) = Len(calls)
  BY ServedIs
<1>1. Len(calls) \in Nat /\ Len(new) = Len(calls)
  BY <1>0, <1>c, LenProperties
<1>2. \A k \in 1..Len(calls) - 1 : Was(j, k) \in 1..Len(calls) /\ Was(j, k) # j
  BY <1>1, WasOnto
<1>3. \A i \in 1..Len(calls) : i # j => \E k \in 1..Len(calls) - 1 : Was(j, k) = i
  BY <1>1, WasOnto
<1>4. \A k, l \in 1..Len(calls) - 1 : Was(j, k) = Was(j, l) => k = l
  BY <1>1, WasOnto
<1>5. \A k \in 1..Len(calls) - 1 : k \in OfKind(new, kind) <=> Was(j, k) \in OfKind(calls, kind)
  BY <1>0, <1>1, <1>2, <1>a DEF OfKind
<1>6. Len(calls) \in OfKind(new, kind) <=> j \in OfKind(calls, kind)
  BY <1>0, <1>1, <1>b DEF OfKind
<1>7. \A k \in OfKind(new, kind) : k \in 1..Len(calls) - 1 \/ k = Len(calls)
  BY <1>1 DEF OfKind
<1>8. \A i \in OfKind(calls, kind) : i \in 1..Len(calls)
  BY DEF OfKind
<1>9. OfKind(new, kind) = {} <=> OfKind(calls, kind) = {}
  BY <1>3, <1>5, <1>6, <1>7, <1>8
<1>10. AtMostOne(calls, kind) => AtMostOne(new, kind)
  BY <1>2, <1>4, <1>5, <1>6, <1>7 DEF AtMostOne
<1> QED
  BY <1>0, <1>9, <1>10

LEMMA SentAllowed ==
  ASSUME NEW S, NEW calls \in Seq(S), NEW more \in Seq(S), NEW OK, Allowed(calls, OK), Allowed(more, OK)
  PROVE  Allowed(Sent(calls, more), OK)
<1>0. PICK new : new = Sent(calls, more)
  OBVIOUS
<1>a. Len(Sent(calls, more)) = Len(calls) + Len(more)
  BY SentIs
<1>b. \A k \in 1..Len(calls) : Sent(calls, more)[k] = calls[k]
  BY SentIs
<1>c. \A k \in 1..Len(more) : Sent(calls, more)[Len(calls) + k] = more[k]
  BY SentIs
<1>2. Len(calls) \in Nat /\ Len(more) \in Nat
  BY LenProperties
<1>3. ASSUME NEW k \in 1..Len(new) PROVE Gist(new[k]) \in OK
  <2>1. CASE k <= Len(calls)
    BY <1>0, <1>a, <1>b, <1>2, <2>1 DEF Allowed
  <2>2. CASE ~ k <= Len(calls)
    <3>1. PICK l \in 1..Len(more) : k = Len(calls) + l
      <4>1. k - Len(calls) \in 1..Len(more) /\ k = Len(calls) + (k - Len(calls))
        BY <1>0, <1>a, <1>2, <2>2
      <4> QED
        BY <4>1
    <3> QED
      BY <1>0, <1>c, <3>1 DEF Allowed
  <2> QED
    BY <2>1, <2>2
<1> QED
  BY <1>0, <1>3 DEF Allowed

LEMMA SentKinds ==
  ASSUME NEW S, NEW calls \in Seq(S), NEW more \in Seq(S), NEW kind
  PROVE  /\ OfKind(Sent(calls, more), kind) = {} <=> OfKind(calls, kind) = {} /\ OfKind(more, kind) = {}
         /\ AtMostOne(calls, kind) /\ OfKind(more, kind) = {} => AtMostOne(Sent(calls, more), kind)
         /\ AtMostOne(more, kind) /\ OfKind(calls, kind) = {} => AtMostOne(Sent(calls, more), kind)
<1>0. PICK new : new = Sent(calls, more)
  OBVIOUS
<1>a. Len(Sent(calls, more)) = Len(calls) + Len(more)
  BY SentIs
<1>b. \A k \in 1..Len(calls) : Sent(calls, more)[k] = calls[k]
  BY SentIs
<1>c. \A k \in 1..Len(more) : Sent(calls, more)[Len(calls) + k] = more[k]
  BY SentIs
<1>2. Len(calls) \in Nat /\ Len(more) \in Nat
  BY LenProperties
<1>3. \A k \in 1..Len(calls) : k \in OfKind(new, kind) <=> k \in OfKind(calls, kind)
  BY <1>0, <1>a, <1>b, <1>2 DEF OfKind
<1>4. \A k \in 1..Len(more) : Len(calls) + k \in OfKind(new, kind) <=> k \in OfKind(more, kind)
  <2> TAKE k \in 1..Len(more)
  <2>1. Len(calls) + k \in 1..Len(new) /\ new[Len(calls) + k] = more[k]
    BY <1>0, <1>a, <1>c, <1>2
  <2> QED
    BY <2>1 DEF OfKind
<1>5. ASSUME NEW k \in OfKind(new, kind)
      PROVE  k \in OfKind(calls, kind) \/ \E l \in OfKind(more, kind) : k = Len(calls) + l
  <2>1. k \in 1..Len(calls) + Len(more)
    BY <1>0, <1>a DEF OfKind
  <2>2. CASE k <= Len(calls)
    BY <1>2, <1>3, <2>1, <2>2
  <2>3. CASE ~ k <= Len(calls)
    <3>1. PICK l \in 1..Len(more) : k = Len(calls) + l
      <4>1. k - Len(calls) \in 1..Len(more) /\ k = Len(calls) + (k - Len(calls))
        BY <1>2, <2>1, <2>3
      <4> QED
        BY <4>1
    <3> QED
      BY <1>4, <3>1
  <2> QED
    BY <2>2, <2>3
<1>6. (\A i \in OfKind(calls, kind) : i \in 1..Len(calls)) /\ \A i \in OfKind(more, kind) : i \in 1..Len(more)
  BY DEF OfKind
<1>7. OfKind(new, kind) = {} <=> OfKind(calls, kind) = {} /\ OfKind(more, kind) = {}
  BY <1>3, <1>4, <1>5, <1>6
<1>8. AtMostOne(calls, kind) /\ OfKind(more, kind) = {} => AtMostOne(new, kind)
  BY <1>5 DEF AtMostOne
<1>9. AtMostOne(more, kind) /\ OfKind(calls, kind) = {} => AtMostOne(new, kind)
  BY <1>5 DEF AtMostOne
<1> QED
  BY <1>0, <1>7, <1>8, <1>9

\* On course: on track, or nothing has told and what the page has is right.
OnCourse(calls, kinds, topic, R, dues, t, N) ==
  OnTrack(calls, kinds, topic, R, dues) \/ (Told(calls, kinds) = {} /\ t \in N)

\* Calls are sent, and the page changes.
LEMMA SentOnCourse ==
  ASSUME NEW S, NEW calls \in Seq(S), NEW more \in Seq(S), \A k \in 1..Len(more) : more[k].at = "sent",
         NEW kinds, NEW topic, NEW R, NEW dues, NEW t, NEW u, NEW N,
         OnCourse(calls, kinds, topic, R, dues, t, N),
         Told(calls, kinds) = {} /\ t \in N => u \in N \/ Pending(more, dues) \/ Pending(calls, dues)
  PROVE  OnCourse(Sent(calls, more), kinds, topic, R, dues, u, N)
<1>1. OnTrack(calls, kinds, topic, R, dues) => OnTrack(Sent(calls, more), kinds, topic, R, dues)
  BY SentOnTrack
<1>2. Told(Sent(calls, more), kinds) = Told(calls, kinds)
  BY SentOnTrack
<1>3. Pending(more, dues) => OnTrack(Sent(calls, more), kinds, topic, R, dues)
  BY SentOnTrack
<1>4. Pending(calls, dues) => OnTrack(calls, kinds, topic, R, dues)
  BY DEF OnTrack
<1> QED
  BY <1>1, <1>2, <1>3, <1>4 DEF OnCourse

\* A call that did not tell is gone.
LEMMA RidOnCourse ==
  ASSUME NEW S, NEW calls \in Seq(S), NEW j \in 1..Len(calls), NEW new, Rid(new, calls, j),
         NEW kinds, NEW topic, NEW R, NEW dues, NEW t, NEW u, NEW N,
         calls[j].at = "sent" \/ calls[j].kind \notin kinds,
         <<calls[j].kind, calls[j].at, calls[j].deaf>> \notin dues,
         OnCourse(calls, kinds, topic, R, dues, t, N), t \in N => u \in N
  PROVE  OnCourse(new, kinds, topic, R, dues, u, N)
<1>1. OnTrack(calls, kinds, topic, R, dues) => OnTrack(new, kinds, topic, R, dues)
  BY RidOnTrack
<1>2. Told(new, kinds) = {} <=> Told(calls, kinds) = {}
  BY RidOnTrack
<1> QED
  BY <1>1, <1>2 DEF OnCourse

\* What is right now was right before.
LEMMA StillOnCourse ==
  ASSUME NEW calls, NEW kinds, NEW topic, NEW R, NEW Q, NEW dues, NEW t, NEW N, NEW M,
         OnCourse(calls, kinds, topic, R, dues, t, N),
         \A i \in 1..Len(calls) : calls[i].kind \in kinds /\ <<calls[i].kind, calls[i].got>> \in R
                                    => <<calls[i].kind, calls[i].got>> \in Q,
         t \in N => t \in M
  PROVE  OnCourse(calls, kinds, topic, Q, dues, t, M)
<1>1. \A i \in Told(calls, kinds) : i \in 1..Len(calls) /\ calls[i].kind \in kinds
  BY DEF Told
<1>2. LastRight(calls, kinds, topic, R) => LastRight(calls, kinds, topic, Q)
  BY <1>1 DEF LastRight
<1> QED
  BY <1>2 DEF OnCourse, OnTrack

\* A call is served.
LEMMA ServedOnCourse ==
  ASSUME NEW K, NEW A, NEW G, NEW T, NEW calls \in Seq(CallsOf(K, A, G, T)), NEW j \in 1..Len(calls), NEW got \in G,
         NEW kinds, NEW topic, NEW R, NEW dues, NEW t, NEW N, calls[j].at = "sent",
         \/ calls[j].kind \in kinds /\ <<calls[j].kind, got>> \in R
         \/ <<calls[j].kind, "served", calls[j].deaf>> \in dues
         \/ /\ calls[j].kind \notin kinds /\ <<calls[j].kind, "sent", calls[j].deaf>> \notin dues
            /\ OnCourse(calls, kinds, topic, R, dues, t, N)
  PROVE  OnCourse(Served(calls, j, got), kinds, topic, R, dues, t, N)
<1>1. /\ calls[j].kind \notin kinds
              => (Told(Served(calls, j, got), kinds) = {} <=> Told(calls, kinds) = {})
      /\ calls[j].kind \notin kinds /\ <<calls[j].kind, "sent", calls[j].deaf>> \notin dues
              => (OnTrack(calls, kinds, topic, R, dues) => OnTrack(Served(calls, j, got), kinds, topic, R, dues))
      /\ calls[j].kind \in kinds /\ <<calls[j].kind, got>> \in R
              => OnTrack(Served(calls, j, got), kinds, topic, R, dues)
      /\ <<calls[j].kind, "served", calls[j].deaf>> \in dues
              => OnTrack(Served(calls, j, got), kinds, topic, R, dues)
  BY ServedOnTrack
<1> QED
  BY <1>1 DEF OnCourse

\* A call is answered.
LEMMA AnsweredOnCourse ==
  ASSUME NEW K, NEW A, NEW G, NEW T, NEW calls \in Seq(CallsOf(K, A, G, T)), NEW j \in 1..Len(calls),
         NEW tells, \A p \in tells : p[2] \in T,
         NEW kinds, NEW topic, NEW R, NEW dues, NEW t, NEW u, NEW N, calls[j].at = "served",
         \A kind \in kinds : <<kind, topic>> \in tells,
         <<calls[j].kind, "served", calls[j].deaf>> \notin dues,
         OnCourse(calls, kinds, topic, R, dues, t, N),
         calls[j].kind \notin kinds => (t \in N => u \in N),
         calls[j].kind \in kinds => topic \notin calls[j].late /\ (<<calls[j].kind, calls[j].got>> \in R => u \in N)
  PROVE  OnCourse(Answered(calls, j, tells), kinds, topic, R, dues, u, N)
<1>1. OnTrack(calls, kinds, topic, R, dues) =>
              \/ OnTrack(Answered(calls, j, tells), kinds, topic, R, dues)
              \/ /\ Told(Answered(calls, j, tells), kinds) = {} /\ calls[j].kind \in kinds
                 /\ <<calls[j].kind, calls[j].got>> \in R \/ topic \in calls[j].late
  BY AnsweredOnTrack
<1>2. ASSUME calls[j].kind \notin kinds
      PROVE  Told(Answered(calls, j, tells), kinds) = {} <=> Told(calls, kinds) = {}
  <2>1. Rid(Answered(calls, j, tells), calls, j)
    BY AnsweredIs
  <2>2. j \notin Told(calls, kinds)
    BY <1>2 DEF Told
  <2> QED
    BY <2>1, <2>2, RidTold
<1>3. calls[j].kind \in kinds => Told(calls, kinds) # {}
  BY DEF Told
<1> QED
  BY <1>1, <1>2, <1>3 DEF OnCourse

-----------------------------------------------------------------------------
\* No call, and one call.
LEMMA NoCalls ==
  ASSUME NEW S
  PROVE  /\ <<>> \in Seq(S) /\ Len(<<>>) = 0
         /\ \A OK : Allowed(<<>>, OK)
         /\ \A kind : OfKind(<<>>, kind) = {} /\ AtMostOne(<<>>, kind)
         /\ \A P : ~ Pending(<<>>, P)
         /\ \A kinds : Told(<<>>, kinds) = {}
<1>1. <<>> \in Seq(S) /\ Len(<<>>) = 0
  BY EmptySeq
<1>2. 1..Len(<<>>) = {}
  BY <1>1
<1> QED
  BY <1>1, <1>2 DEF Allowed, OfKind, AtMostOne, Pending, Told

LEMMA CallIs ==
  ASSUME NEW K, NEW A, NEW G, NEW T, NEW kind \in K, NEW arg \in A, <<>> \in G,
         NEW q, q = <<Call(kind, arg)>>
  PROVE  q \in Seq(CallsOf(K, A, G, T))
BY DEF Call, CallsOf

LEMMA CallAlone ==
  ASSUME NEW kind, NEW arg, NEW q, q = <<Call(kind, arg)>>
  PROVE  /\ \A k \in 1..Len(q) : q[k].at = "sent"
         /\ \A OK : <<kind, arg, "sent", <<>>, FALSE>> \in OK => Allowed(q, OK)
         /\ \A l : OfKind(q, l) = {} <=> kind # l
         /\ \A l : AtMostOne(q, l)
         /\ \A P : Pending(q, P) <=> <<kind, "sent", FALSE>> \in P
         /\ \A kinds : Told(q, kinds) = {}
<1>0. PICK c : c = Call(kind, arg)
  OBVIOUS
<1>1. /\ c.kind = kind /\ c.arg = arg /\ c.at = "sent" /\ c.got = <<>> /\ c.deaf = FALSE
  BY <1>0 DEF Call
<1>2. q = <<c>>
  BY <1>0
<1>3. Len(q) = 1 /\ q[1] = c
  BY <1>2
<1>4. 1..Len(q) = {1}
  BY <1>3
<1>5. \A k \in 1..Len(q) : q[k] = c
  BY <1>3, <1>4
<1>6. \A OK : <<kind, arg, "sent", <<>>, FALSE>> \in OK => Allowed(q, OK)
  BY <1>1, <1>5 DEF Allowed, Gist
<1>7. \A l : OfKind(q, l) = {} <=> kind # l
  BY <1>1, <1>3, <1>4 DEF OfKind
<1>8. \A l : AtMostOne(q, l)
  BY <1>4 DEF AtMostOne, OfKind
<1>9. \A P : Pending(q, P) <=> <<kind, "sent", FALSE>> \in P
  BY <1>1, <1>3, <1>4 DEF Pending
<1>10. \A kinds : Told(q, kinds) = {}
  BY <1>1, <1>5 DEF Told
<1> QED
  BY <1>0, <1>1, <1>5, <1>6, <1>7, <1>8, <1>9, <1>10

\* On course, unless an accident has touched the topic.
Course(calls, met, topic, kinds, R, dues, t, N) ==
  topic \in met \/ OnCourse(calls, kinds, topic, R, dues, t, N)

\* What keeps a topic on course when call c is answered and more are sent,
\* and the page changes from t to u ...
HearsWell(c, more, met, topic, kinds, R, dues, t, u, N) ==
  \/ topic \in met \/ Pending(more, dues)
  \/ /\ <<c.kind, "served", c.deaf>> \notin dues
     /\ c.kind \notin kinds => (t \in N => u \in N)
     /\ c.kind \in kinds =>
          /\ topic \in c.late => topic \in met
          /\ <<c.kind, c.got>> \in R => u \in N

\* ... when it fails ...
FailsWell(c, more, met, topic, kinds, dues, t, u, N) ==
  \/ topic \in met \/ Pending(more, dues)
  \/ /\ <<c.kind, c.at, c.deaf>> \notin dues
     /\ c.at = "sent" \/ c.kind \notin kinds
     /\ t \in N => u \in N

\* ... and when it is served, somebody listens or not, and what is right
\* changes from R and N to Q and M.
ServesWell(calls, c, got, kinds, R, Q, dues, t, N, M) ==
  \/ c.kind \in kinds /\ <<c.kind, got>> \in Q
  \/ <<c.kind, "served", c.deaf>> \in dues
  \/ /\ c.kind \notin kinds /\ <<c.kind, "sent", c.deaf>> \notin dues
     /\ \A i \in 1..Len(calls) : calls[i].kind \in kinds /\ <<calls[i].kind, calls[i].got>> \in R
                                    => <<calls[i].kind, calls[i].got>> \in Q
     /\ t \in N => t \in M

DeafWell(calls, c, met, topic, kinds, R, Q, dues, t, N, M) ==
  \/ topic \in met
  \/ /\ <<c.kind, "sent", c.deaf>> \notin dues
     /\ \A i \in 1..Len(calls) : calls[i].kind \in kinds /\ <<calls[i].kind, calls[i].got>> \in R
                                    => <<calls[i].kind, calls[i].got>> \in Q
     /\ t \in N => t \in M

LEMMA HeardCourse ==
  ASSUME NEW K, NEW A, NEW G, NEW T, NEW calls \in Seq(CallsOf(K, A, G, T)), NEW j \in 1..Len(calls),
         NEW more \in Seq(CallsOf(K, A, G, T)), \A k \in 1..Len(more) : more[k].at = "sent",
         NEW tells, \A p \in tells : p[2] \in T,
         NEW kinds, NEW topic, NEW R, NEW dues, NEW t, NEW u, NEW N, calls[j].at = "served",
         \A kind \in kinds : <<kind, topic>> \in tells,
         NEW met, NEW met2, met \subseteq met2,
         Course(calls, met, topic, kinds, R, dues, t, N),
         HearsWell(calls[j], more, met2, topic, kinds, R, dues, t, u, N)
  PROVE  Course(Sent(Answered(calls, j, tells), more), met2, topic, kinds, R, dues, u, N)
<1> SUFFICES ASSUME topic \notin met2
             PROVE  OnCourse(Sent(Answered(calls, j, tells), more), kinds, topic, R, dues, u, N)
  BY DEF Course
<1>1. OnCourse(calls, kinds, topic, R, dues, t, N)
  BY DEF Course
<1>2. PICK new : new = Answered(calls, j, tells)
  OBVIOUS
<1>3. new \in Seq(CallsOf(K, A, G, T))
  BY <1>2, AnsweredIs
<1>4. CASE Pending(more, dues)
  <2>1. OnTrack(Sent(new, more), kinds, topic, R, dues)
    BY <1>3, <1>4, SentOnTrack
  <2> QED
    BY <1>2, <2>1 DEF OnCourse
<1>5. CASE ~ Pending(more, dues)
  <2>1. /\ <<calls[j].kind, "served", calls[j].deaf>> \notin dues
        /\ calls[j].kind \notin kinds => (t \in N => u \in N)
        /\ calls[j].kind \in kinds => topic \notin calls[j].late
        /\ calls[j].kind \in kinds => (<<calls[j].kind, calls[j].got>> \in R => u \in N)
    BY <1>5 DEF HearsWell
  <2>2. OnCourse(new, kinds, topic, R, dues, u, N)
    BY <1>1, <1>2, <2>1, AnsweredOnCourse
  <2>3. OnCourse(Sent(new, more), kinds, topic, R, dues, u, N)
    BY <1>3, <2>2, SentOnCourse
  <2> QED
    BY <1>2, <2>3
<1> QED
  BY <1>4, <1>5

LEMMA FailedCourse ==
  ASSUME NEW S, NEW calls \in Seq(S), NEW j \in 1..Len(calls),
         NEW more \in Seq(S), \A k \in 1..Len(more) : more[k].at = "sent",
         NEW kinds, NEW topic, NEW R, NEW dues, NEW t, NEW u, NEW N,
         NEW met, NEW met2, met \subseteq met2,
         Course(calls, met, topic, kinds, R, dues, t, N),
         FailsWell(calls[j], more, met2, topic, kinds, dues, t, u, N)
  PROVE  Course(Sent(RemoveAt(calls, j), more), met2, topic, kinds, R, dues, u, N)
<1> SUFFICES ASSUME topic \notin met2
             PROVE  OnCourse(Sent(RemoveAt(calls, j), more), kinds, topic, R, dues, u, N)
  BY DEF Course
<1>1. OnCourse(calls, kinds, topic, R, dues, t, N)
  BY DEF Course
<1>2. PICK new : new = RemoveAt(calls, j)
  OBVIOUS
<1>3. new \in Seq(S) /\ Rid(new, calls, j)
  BY <1>2, RemovedCall
<1>4. CASE Pending(more, dues)
  <2>1. OnTrack(Sent(new, more), kinds, topic, R, dues)
    BY <1>3, <1>4, SentOnTrack
  <2> QED
    BY <1>2, <2>1 DEF OnCourse
<1>5. CASE ~ Pending(more, dues)
  <2>1. /\ <<calls[j].kind, calls[j].at, calls[j].deaf>> \notin dues
        /\ calls[j].at = "sent" \/ calls[j].kind \notin kinds
        /\ t \in N => u \in N
    BY <1>5 DEF FailsWell
  <2>2. OnCourse(new, kinds, topic, R, dues, u, N)
    BY <1>1, <1>3, <2>1, RidOnCourse
  <2>3. OnCourse(Sent(new, more), kinds, topic, R, dues, u, N)
    BY <1>3, <2>2, SentOnCourse
  <2> QED
    BY <1>2, <2>3
<1> QED
  BY <1>4, <1>5

LEMMA ServedCourse ==
  ASSUME NEW K, NEW A, NEW G, NEW T, NEW calls \in Seq(CallsOf(K, A, G, T)), NEW j \in 1..Len(calls), NEW got \in G,
         NEW kinds, NEW topic, NEW R, NEW Q, NEW dues, NEW t, NEW N, NEW M, calls[j].at = "sent",
         NEW met, Course(calls, met, topic, kinds, R, dues, t, N),
         ServesWell(calls, calls[j], got, kinds, R, Q, dues, t, N, M)
  PROVE  Course(Served(calls, j, got), met, topic, kinds, Q, dues, t, M)
<1> SUFFICES ASSUME topic \notin met
             PROVE  OnCourse(Served(calls, j, got), kinds, topic, Q, dues, t, M)
  BY DEF Course
<1>1. OnCourse(calls, kinds, topic, R, dues, t, N)
  BY DEF Course
<1>2. CASE calls[j].kind \in kinds /\ <<calls[j].kind, got>> \in Q
  BY <1>2, ServedOnCourse
<1>3. CASE <<calls[j].kind, "served", calls[j].deaf>> \in dues
  BY <1>3, ServedOnCourse
<1>4. CASE /\ calls[j].kind \notin kinds /\ <<calls[j].kind, "sent", calls[j].deaf>> \notin dues
           /\ \A i \in 1..Len(calls) : calls[i].kind \in kinds /\ <<calls[i].kind, calls[i].got>> \in R
                                        => <<calls[i].kind, calls[i].got>> \in Q
           /\ t \in N => t \in M
  <2>1. OnCourse(calls, kinds, topic, Q, dues, t, M)
    BY <1>1, <1>4, StillOnCourse
  <2> QED
    BY <1>4, <2>1, ServedOnCourse
<1> QED
  BY <1>2, <1>3, <1>4 DEF ServesWell

LEMMA DeafCourse ==
  ASSUME NEW S, NEW calls \in Seq(S), NEW j \in 1..Len(calls),
         NEW kinds, NEW topic, NEW R, NEW Q, NEW dues, NEW t, NEW N, NEW M, calls[j].at = "sent",
         NEW met, NEW met2, met \subseteq met2, Course(calls, met, topic, kinds, R, dues, t, N),
         DeafWell(calls, calls[j], met2, topic, kinds, R, Q, dues, t, N, M)
  PROVE  Course(RemoveAt(calls, j), met2, topic, kinds, Q, dues, t, M)
<1> SUFFICES ASSUME topic \notin met2
             PROVE  OnCourse(RemoveAt(calls, j), kinds, topic, Q, dues, t, M)
  BY DEF Course
<1>1. OnCourse(calls, kinds, topic, R, dues, t, N)
  BY DEF Course
<1>2. /\ <<calls[j].kind, "sent", calls[j].deaf>> \notin dues
      /\ \A i \in 1..Len(calls) : calls[i].kind \in kinds /\ <<calls[i].kind, calls[i].got>> \in R
                                        => <<calls[i].kind, calls[i].got>> \in Q
      /\ t \in N => t \in M
  BY DEF DeafWell
<1>3. OnCourse(calls, kinds, topic, Q, dues, t, M)
  BY <1>1, <1>2, StillOnCourse
<1>4. Rid(RemoveAt(calls, j), calls, j)
  BY RemovedCall
<1> QED
  BY <1>2, <1>3, <1>4, RidOnCourse

-----------------------------------------------------------------------------
(***************************************************************************)
(* The page of a room.                                                     *)
(***************************************************************************)
RoomKinds == {"room", "posts", "members", "comments", "comment", "reply", "vote", "join", "post"}

RoomArgs == Votes \union {""}

RoomTopics == {"posts", "comments", "vote", "member"}

VoteStates == Votes \union {"none"}

Comments == SUBSET ({0, 1} \X (1..MaxComments))

PostSets == SUBSET Nat

MemberGots == [member : BOOLEAN]
PostsGots == [posts : PostSets]
CommentsGots == [comments : Comments, vote : VoteStates]
VoteGots == [vote : VoteStates]

RoomGots == {<<>>} \union MemberGots \union PostsGots \union CommentsGots \union VoteGots

RoomCallT == CallsOf(RoomKinds, RoomArgs, RoomGots, RoomTopics)

\* What the server says to each.
RoomGot(kind) ==
  CASE kind = "members" -> MemberGots
    [] kind = "posts" -> PostsGots
    [] kind = "comments" -> CommentsGots
    [] kind = "vote" -> VoteGots
    [] OTHER -> {<<>>}

\* Nobody listens only to writes that are under way.
RoomOK ==
  {c \in RoomKinds \X RoomArgs \X {"sent", "served"} \X RoomGots \X BOOLEAN :
     /\ c[3] = "served" => c[4] \in RoomGot(c[1])
     /\ c[5] = TRUE => c[3] = "sent" /\ c[1] \in RoomWrites
     /\ c[1] = "vote" => c[2] \in Votes}

RoomDeaf == {c \in RoomOK : c[5] = TRUE}

ForumT ==
  [entry : Entries, posts : Nat, comments : Comments, mine : Comments, vote : VoteStates, member : BOOLEAN]

ThreadT ==
  [room : BOOLEAN, posts : PostSets, busy : BOOLEAN, open : BOOLEAN, comments : Comments,
   reloading : BOOLEAN, vote : VoteStates, member : BOOLEAN, dialog : BOOLEAN]

\* What calls and states are: nobody listens when the page is gone, and the
\* comments are loaded by one call at a time.
RoomRest(page, f, t, calls) ==
  /\ f \in ForumT /\ f.mine \subseteq f.comments
  /\ t \in ThreadT
  /\ calls \in Seq(RoomCallT)
  /\ Allowed(calls, RoomOK)
  /\ page # "room" => t = NoThread /\ Allowed(calls, RoomDeaf)
  /\ AtMostOne(calls, "comments")
  /\ t.reloading = TRUE <=> OfKind(calls, "comments") # {}

\* Answers that say what is so, calls that will lead to one, and pages that
\* show what is so.
PostsR(f) == {r \in RoomKinds \X RoomGots : r[2].posts = NewestPosts(f.posts)}
PostsDue == {<<"posts", "sent", FALSE>>, <<"post", "served", FALSE>>}
PostsN(f) == {t \in ThreadT : t.posts = NewestPosts(f.posts)}

\* Those of the user's comments that a page can show.
Visible(f) == f.mine \intersect Foremost(f.comments)

CommentsR(f) == {r \in RoomKinds \X RoomGots : Visible(f) \subseteq r[2].comments}
CommentsDue ==
  {<<"comments", "sent", FALSE>>, <<"comment", "served", FALSE>>, <<"reply", "served", FALSE>>}
CommentsN(f) == {t \in ThreadT : Visible(f) \subseteq t.comments \/ (t.open = FALSE /\ t.comments = {})}

VoteR(f) == {r \in RoomKinds \X RoomGots : r[2].vote = f.vote}
VoteDue == {<<"comments", "sent", FALSE>>, <<"vote", "sent", FALSE>>}
VoteN(f) == {t \in ThreadT : t.vote = f.vote \/ t.comments = {}}

MemberR(f) ==
  {r \in RoomKinds \X RoomGots : IF r[1] = "join" THEN f.member = TRUE ELSE r[2].member = f.member}
MemberDue == {<<"members", "sent", FALSE>>, <<"room", "sent", FALSE>>, <<"room", "served", FALSE>>}
MemberN(f) == {t \in ThreadT : t.member = f.member}

PostsCourse(f, t, calls, met) ==
  Course(calls, met, "posts", {"posts"}, PostsR(f), PostsDue, t, PostsN(f))

CommentsCourse(f, t, calls, met) ==
  Course(calls, met, "comments", {"comments"}, CommentsR(f), CommentsDue, t, CommentsN(f))

VoteCourse(f, t, calls, met) ==
  Course(calls, met, "vote", {"comments", "vote"}, VoteR(f), VoteDue, t, VoteN(f))

MemberCourse(f, t, calls, met) ==
  Course(calls, met, "member", {"members", "join"}, MemberR(f), MemberDue, t, MemberN(f))

RoomCourses(f, t, calls, met) ==
  /\ PostsCourse(f, t, calls, met)
  /\ CommentsCourse(f, t, calls, met)
  /\ VoteCourse(f, t, calls, met)
  /\ MemberCourse(f, t, calls, met)

RoomGood(page, f, t, calls, met) ==
  /\ RoomRest(page, f, t, calls)
  /\ page = "room" => RoomCourses(f, t, calls, met)

\* The inductive invariant.
RoomInv == RoomGood(route.page, forum, thread, roomCalls, roomMet)

\* The newest posts are posts.
LEMMA NewestAre == ASSUME NEW n PROVE NewestPosts(n) \in PostSets
BY DEF NewestPosts, PostSets

\* The comments of a post are finitely many.
LEMMA CommentsFinite ==
  ASSUME NEW cs \in Comments
  PROVE  IsFiniteSet(cs) /\ Cardinality(cs) \in Nat
<1>1. MaxComments \in Nat
  BY RoomPageAssumption
<1>2. \A n \in Nat : IsFiniteSet(1..n)
  BY FS_Interval
<1>3. IsFiniteSet({0, 1})
  <2>1. IsFiniteSet({0})
    BY FS_Singleton
  <2>2. {0, 1} = {0} \union {1}
    OBVIOUS
  <2> QED
    BY <2>1, <2>2, FS_AddElement
<1>4. IsFiniteSet({0, 1} \X (1..MaxComments))
  BY <1>1, <1>2, <1>3, FS_Product
<1>5. IsFiniteSet(cs)
  BY <1>4, FS_Subset DEF Comments
<1> QED
  BY <1>5, FS_CardinalityType

\* The comments that come first are among the comments.
LEMMA ForemostAre ==
  ASSUME NEW cs \in Comments
  PROVE  Foremost(cs) \in Comments /\ Foremost(cs) \subseteq cs
BY DEF Foremost, Comments

\* A comment that comes first among more comments did so among fewer.
LEMMA ForemostLess ==
  ASSUME NEW cs \in Comments, NEW ds \in Comments, cs \subseteq ds
  PROVE  cs \intersect Foremost(ds) \subseteq Foremost(cs)
<1> SUFFICES ASSUME NEW c \in cs, c \in Foremost(ds) PROVE c \in Foremost(cs)
  OBVIOUS
<1> DEFINE Few == {d \in cs : Before(d, c)}
           Many == {d \in ds : Before(d, c)}
<1>1. Many \in Comments /\ Few \in Comments /\ Few \subseteq Many
  BY DEF Comments
<1>2. Cardinality(Many) < CommentLimit
  BY DEF Foremost
<1> HIDE DEF Few, Many
<1>3. IsFiniteSet(Many) /\ Cardinality(Many) \in Nat /\ Cardinality(Few) \in Nat
  BY <1>1, CommentsFinite
<1>4. Cardinality(Few) <= Cardinality(Many)
  BY <1>1, <1>3, FS_Subset
<1>5. CommentLimit \in Nat
  BY RoomPageAssumption
<1>6. Cardinality(Few) < CommentLimit
  BY <1>2, <1>3, <1>4, <1>5
<1> QED
  BY <1>6 DEF Few, Foremost

\* A call of the page.
LEMMA RoomCallIs ==
  ASSUME NEW page, NEW f, NEW t, NEW calls, RoomRest(page, f, t, calls), NEW j \in 1..Len(calls)
  PROVE  /\ calls[j].kind \in RoomKinds /\ calls[j].arg \in RoomArgs /\ calls[j].at \in {"sent", "served"}
         /\ calls[j].got \in RoomGots /\ calls[j].deaf \in BOOLEAN /\ calls[j].late \in SUBSET RoomTopics
         /\ calls[j].at = "served" => calls[j].got \in RoomGot(calls[j].kind)
         /\ calls[j].deaf = TRUE => calls[j].at = "sent" /\ calls[j].kind \in RoomWrites
         /\ calls[j].deaf = FALSE => page = "room"
         /\ calls[j].kind = "vote" => calls[j].arg \in Votes
         /\ calls[j].kind = "comments" => page = "room" /\ t.reloading = TRUE
<1>1. calls \in Seq(RoomCallT) /\ Allowed(calls, RoomOK)
  BY DEF RoomRest
<1>2. calls[j] \in RoomCallT
  BY <1>1, ElementOfSeq
<1>3. Gist(calls[j]) \in RoomOK
  BY <1>1 DEF Allowed
<1>4. /\ Gist(calls[j])[1] = calls[j].kind /\ Gist(calls[j])[2] = calls[j].arg /\ Gist(calls[j])[3] = calls[j].at
      /\ Gist(calls[j])[4] = calls[j].got /\ Gist(calls[j])[5] = calls[j].deaf
  BY DEF Gist
<1>5. /\ calls[j].at = "served" => calls[j].got \in RoomGot(calls[j].kind)
      /\ calls[j].deaf = TRUE => calls[j].at = "sent" /\ calls[j].kind \in RoomWrites
      /\ calls[j].kind = "vote" => calls[j].arg \in Votes
  BY <1>3, <1>4 DEF RoomOK
<1>6. page # "room" => calls[j].deaf = TRUE
  <2> SUFFICES ASSUME page # "room" PROVE calls[j].deaf = TRUE
    OBVIOUS
  <2>1. Gist(calls[j]) \in RoomDeaf
    BY DEF RoomRest, Allowed
  <2> QED
    BY <1>4, <2>1 DEF RoomDeaf
<1>7. calls[j].kind = "comments" => t.reloading = TRUE
  BY DEF RoomRest, OfKind
<1>8. calls[j].kind = "comments" => calls[j].deaf # TRUE
  BY <1>5 DEF RoomWrites
<1>9. /\ calls[j].kind \in RoomKinds /\ calls[j].arg \in RoomArgs /\ calls[j].at \in {"sent", "served"}
      /\ calls[j].got \in RoomGots /\ calls[j].deaf \in BOOLEAN /\ calls[j].late \in SUBSET RoomTopics
  BY <1>2 DEF RoomCallT, CallsOf
<1> QED
  BY <1>5, <1>6, <1>7, <1>8, <1>9

\* RoomTells tells of the topics of the page.
LEMMA RoomTellsOf ==
  /\ \A p \in RoomTells : p[2] \in RoomTopics
  /\ \A kind \in {"posts"} : <<kind, "posts">> \in RoomTells
  /\ \A kind \in {"comments"} : <<kind, "comments">> \in RoomTells
  /\ \A kind \in {"comments", "vote"} : <<kind, "vote">> \in RoomTells
  /\ \A kind \in {"members", "join"} : <<kind, "member">> \in RoomTells
BY DEF RoomTells, RoomTopics

LEMMA NoThreadIs == NoThread \in ThreadT /\ NoThread.reloading = FALSE /\ NoThread.open = FALSE
                    /\ NoThread.comments = {} /\ NoThread.room = FALSE
BY DEF NoThread, ThreadT, Comments, PostSets, VoteStates, Votes

\* Calls the page may make together: they are sent, and comments are among
\* them once at most.
RoomMore(more) ==
  /\ more \in Seq(RoomCallT)
  /\ \A k \in 1..Len(more) : more[k].at = "sent"
  /\ Allowed(more, RoomOK)
  /\ AtMostOne(more, "comments")

LEMMA RoomCallMade ==
  ASSUME NEW kind \in RoomKinds, NEW arg \in RoomArgs, kind = "vote" => arg \in Votes, NEW q, q = <<Call(kind, arg)>>
  PROVE  /\ RoomMore(q)
         /\ \A l : OfKind(q, l) = {} <=> kind # l
         /\ \A P : Pending(q, P) <=> <<kind, "sent", FALSE>> \in P
<1>1. <<>> \in RoomGots
  BY DEF RoomGots
<1>2. <<kind, arg, "sent", <<>>, FALSE>> \in RoomOK
  BY <1>1 DEF RoomOK
<1>s. q \in Seq(RoomCallT)
  BY <1>1, CallIs DEF RoomCallT
<1>3. \A k \in 1..Len(q) : q[k].at = "sent"
  BY DEF Call
<1>5. Allowed(q, RoomOK)
  BY <1>2, CallAlone
<1>6. \A l : OfKind(q, l) = {} <=> kind # l
  BY CallAlone
<1>7. AtMostOne(q, "comments")
  BY CallAlone
<1>8. \A P : Pending(q, P) <=> <<kind, "sent", FALSE>> \in P
  BY CallAlone
<1>4. RoomMore(q)
  BY <1>s, <1>3, <1>5, <1>7 DEF RoomMore
<1> QED
  BY <1>4, <1>6, <1>8

LEMMA NoRoomCall ==
  /\ RoomMore(<<>>)
  /\ \A l : OfKind(<<>>, l) = {}
  /\ \A P : ~ Pending(<<>>, P)
BY NoCalls DEF RoomMore

LEMMA RoomMoreAnd ==
  ASSUME NEW a, NEW b, RoomMore(a), RoomMore(b), OfKind(a, "comments") = {} \/ OfKind(b, "comments") = {}
  PROVE  /\ RoomMore(a \o b)
         /\ \A l : OfKind(a \o b, l) = {} <=> OfKind(a, l) = {} /\ OfKind(b, l) = {}
         /\ \A P : Pending(a \o b, P) <=> Pending(a, P) \/ Pending(b, P)
<1>1. a \in Seq(RoomCallT) /\ b \in Seq(RoomCallT)
  BY DEF RoomMore
<1>2. a \o b = Sent(a, b)
  BY DEF Sent
<1>3. \A l : OfKind(Sent(a, b), l) = {} <=> OfKind(a, l) = {} /\ OfKind(b, l) = {}
  BY <1>1, SentKinds
<1>4. AtMostOne(Sent(a, b), "comments")
  BY <1>1, SentKinds DEF RoomMore
<1>5. \A P : Pending(Sent(a, b), P) <=> Pending(a, P) \/ Pending(b, P)
  BY <1>1, SentPending
<1>6. Allowed(Sent(a, b), RoomOK)
  BY <1>1, SentAllowed DEF RoomMore
<1>7. Sent(a, b) \in Seq(RoomCallT)
  BY <1>1, SentIs
<1>8. \A k \in 1..Len(Sent(a, b)) : Sent(a, b)[k].at = "sent"
  <2>0. PICK new : new = Sent(a, b)
    OBVIOUS
  <2>1. Len(Sent(a, b)) = Len(a) + Len(b)
    BY <1>1, SentIs
  <2>2. \A k \in 1..Len(a) : Sent(a, b)[k] = a[k]
    BY <1>1, SentIs
  <2>3. \A k \in 1..Len(b) : Sent(a, b)[Len(a) + k] = b[k]
    BY <1>1, SentIs
  <2>4. Len(a) \in Nat /\ Len(b) \in Nat
    BY <1>1, LenProperties
  <2>5. ASSUME NEW k \in 1..Len(new) PROVE new[k].at = "sent"
    <3>1. CASE k <= Len(a)
      BY <2>0, <2>1, <2>2, <2>4, <3>1 DEF RoomMore
    <3>2. CASE ~ k <= Len(a)
      <4>1. k - Len(a) \in 1..Len(b) /\ k = Len(a) + (k - Len(a))
        BY <2>0, <2>1, <2>4, <3>2
      <4>2. new[k] = b[k - Len(a)]
        BY <2>0, <2>3, <4>1
      <4> QED
        BY <4>1, <4>2 DEF RoomMore
    <3> QED
      BY <3>1, <3>2
  <2> QED
    BY <2>0, <2>5
<1> QED
  BY <1>2, <1>3, <1>4, <1>5, <1>6, <1>7, <1>8 DEF RoomMore

\* A call is gone and others are made.
LEMMA RoomRestGone ==
  ASSUME NEW f, NEW t, NEW calls, RoomRest("room", f, t, calls), NEW j \in 1..Len(calls),
         NEW new \in Seq(RoomCallT), Rid(new, calls, j), NEW more, RoomMore(more), NEW u \in ThreadT,
         \/ /\ calls[j].kind # "comments"
            /\ t.reloading = TRUE => OfKind(more, "comments") = {}
            /\ u.reloading = TRUE <=> t.reloading = TRUE \/ OfKind(more, "comments") # {}
         \/ calls[j].kind = "comments" /\ OfKind(more, "comments") = {} /\ u.reloading # TRUE
  PROVE  RoomRest("room", f, u, Sent(new, more))
<1>1. /\ f \in ForumT /\ f.mine \subseteq f.comments /\ calls \in Seq(RoomCallT) /\ Allowed(calls, RoomOK)
      /\ AtMostOne(calls, "comments") /\ (t.reloading = TRUE <=> OfKind(calls, "comments") # {})
  BY DEF RoomRest
<1>2. /\ more \in Seq(RoomCallT) /\ Allowed(more, RoomOK) /\ AtMostOne(more, "comments")
  BY DEF RoomMore
<1>3. Sent(new, more) \in Seq(RoomCallT)
  BY <1>2, SentIs
<1>4. Allowed(Sent(new, more), RoomOK)
  <2>1. Allowed(new, RoomOK)
    BY <1>1, RidAllowed
  <2> QED
    BY <1>2, <2>1, SentAllowed
<1>5. AtMostOne(new, "comments")
  BY <1>1, RidKinds
<1>6. OfKind(Sent(new, more), "comments") = {} <=> OfKind(new, "comments") = {} /\ OfKind(more, "comments") = {}
  BY <1>2, SentKinds
<1>7. CASE calls[j].kind # "comments"
  <2>1. OfKind(new, "comments") = {} <=> OfKind(calls, "comments") = {}
    BY <1>1, <1>7, RidKinds
  <2>2. AtMostOne(Sent(new, more), "comments")
    BY <1>1, <1>2, <1>5, <1>7, <2>1, SentKinds
  <2>3. u.reloading = TRUE <=> OfKind(Sent(new, more), "comments") # {}
    BY <1>1, <1>6, <1>7, <2>1
  <2> QED
    BY <1>1, <1>3, <1>4, <2>2, <2>3 DEF RoomRest
<1>8. CASE calls[j].kind = "comments"
  <2>1. OfKind(new, "comments") = {}
    BY <1>1, <1>8, RidKinds
  <2>2. AtMostOne(Sent(new, more), "comments")
    BY <1>2, <2>1, SentKinds
  <2>3. u.reloading = TRUE <=> OfKind(Sent(new, more), "comments") # {}
    BY <1>6, <1>8, <2>1
  <2> QED
    BY <1>1, <1>3, <1>4, <2>2, <2>3 DEF RoomRest
<1> QED
  BY <1>7, <1>8

\* Calls are made.
LEMMA RoomRestSent ==
  ASSUME NEW f, NEW t, NEW calls, RoomRest("room", f, t, calls),
         NEW more, RoomMore(more), NEW u \in ThreadT,
         t.reloading = TRUE => OfKind(more, "comments") = {},
         u.reloading = TRUE <=> t.reloading = TRUE \/ OfKind(more, "comments") # {}
  PROVE  RoomRest("room", f, u, Sent(calls, more))
<1>1. /\ f \in ForumT /\ f.mine \subseteq f.comments /\ calls \in Seq(RoomCallT) /\ Allowed(calls, RoomOK)
      /\ AtMostOne(calls, "comments") /\ (t.reloading = TRUE <=> OfKind(calls, "comments") # {})
  BY DEF RoomRest
<1>2. /\ more \in Seq(RoomCallT) /\ Allowed(more, RoomOK) /\ AtMostOne(more, "comments")
  BY DEF RoomMore
<1>3. Sent(calls, more) \in Seq(RoomCallT)
  BY <1>1, <1>2, SentIs
<1>4. Allowed(Sent(calls, more), RoomOK)
  BY <1>1, <1>2, SentAllowed
<1>5. OfKind(Sent(calls, more), "comments") = {} <=> OfKind(calls, "comments") = {} /\ OfKind(more, "comments") = {}
  BY <1>1, <1>2, SentKinds
<1>6. AtMostOne(Sent(calls, more), "comments")
  BY <1>1, <1>2, SentKinds
<1>7. u.reloading = TRUE <=> OfKind(Sent(calls, more), "comments") # {}
  BY <1>1, <1>5
<1> QED
  BY <1>1, <1>3, <1>4, <1>6, <1>7 DEF RoomRest

\* A call is served.
LEMMA RoomRestServed ==
  ASSUME NEW f, NEW g \in ForumT, g.mine \subseteq g.comments, NEW t, NEW calls, RoomRest("room", f, t, calls),
         NEW j \in 1..Len(calls), calls[j].deaf = FALSE, NEW got \in RoomGots, got \in RoomGot(calls[j].kind)
  PROVE  RoomRest("room", g, t, Served(calls, j, got))
<1>1. /\ t \in ThreadT /\ calls \in Seq(RoomCallT) /\ Allowed(calls, RoomOK)
      /\ AtMostOne(calls, "comments") /\ (t.reloading = TRUE <=> OfKind(calls, "comments") # {})
  BY DEF RoomRest
<1>2. calls \in Seq(CallsOf(RoomKinds, RoomArgs, RoomGots, RoomTopics))
  BY <1>1 DEF RoomCallT
<1>3. Served(calls, j, got) \in Seq(RoomCallT)
  BY <1>2, ServedIs DEF RoomCallT
<1>4. Allowed(Served(calls, j, got), RoomOK)
  <2>1. /\ calls[j].kind \in RoomKinds /\ calls[j].arg \in RoomArgs
        /\ calls[j].kind = "vote" => calls[j].arg \in Votes
    BY RoomCallIs
  <2>2. <<calls[j].kind, calls[j].arg, "served", got, calls[j].deaf>> \in RoomOK
    BY <2>1 DEF RoomOK
  <2> QED
    BY <1>1, <1>2, <2>2, ServedAllowed
<1>5. OfKind(Served(calls, j, got), "comments") = {} <=> OfKind(calls, "comments") = {}
  BY <1>2, ServedKinds
<1>6. AtMostOne(Served(calls, j, got), "comments")
  BY <1>1, <1>2, ServedKinds
<1> QED
  BY <1>1, <1>3, <1>4, <1>5, <1>6 DEF RoomRest

\* A call is served and nobody listens.
LEMMA RoomRestDeaf ==
  ASSUME NEW page, NEW f, NEW g \in ForumT, g.mine \subseteq g.comments, NEW t, NEW calls, RoomRest(page, f, t, calls),
         NEW j \in 1..Len(calls), calls[j].deaf = TRUE
  PROVE  RoomRest(page, g, t, RemoveAt(calls, j))
<1>1. /\ t \in ThreadT /\ calls \in Seq(RoomCallT) /\ Allowed(calls, RoomOK)
      /\ AtMostOne(calls, "comments") /\ (t.reloading = TRUE <=> OfKind(calls, "comments") # {})
      /\ page # "room" => t = NoThread /\ Allowed(calls, RoomDeaf)
  BY DEF RoomRest
<1>2. RemoveAt(calls, j) \in Seq(RoomCallT) /\ Rid(RemoveAt(calls, j), calls, j)
  BY <1>1, RemovedCall
<1>3. Allowed(RemoveAt(calls, j), RoomOK)
  BY <1>1, <1>2, RidAllowed
<1>4. Allowed(calls, RoomDeaf) => Allowed(RemoveAt(calls, j), RoomDeaf)
  BY <1>1, <1>2, RidAllowed
<1>5. calls[j].kind # "comments"
  <2>1. calls[j].kind \in RoomWrites
    BY RoomCallIs
  <2> QED
    BY <2>1 DEF RoomWrites
<1>6. OfKind(RemoveAt(calls, j), "comments") = {} <=> OfKind(calls, "comments") = {}
  BY <1>1, <1>2, <1>5, RidKinds
<1>7. AtMostOne(RemoveAt(calls, j), "comments")
  BY <1>1, <1>2, RidKinds
<1> QED
  BY <1>1, <1>2, <1>3, <1>4, <1>6, <1>7 DEF RoomRest

-----------------------------------------------------------------------------
\* What keeps the page good when a call is answered ...
RoomHears(f, c, more, met, t, u) ==
  /\ HearsWell(c, more, met, "posts", {"posts"}, PostsR(f), PostsDue, t, u, PostsN(f))
  /\ HearsWell(c, more, met, "comments", {"comments"}, CommentsR(f), CommentsDue, t, u, CommentsN(f))
  /\ HearsWell(c, more, met, "vote", {"comments", "vote"}, VoteR(f), VoteDue, t, u, VoteN(f))
  /\ HearsWell(c, more, met, "member", {"members", "join"}, MemberR(f), MemberDue, t, u, MemberN(f))

\* ... fails ...
RoomFails(f, c, more, met, t, u) ==
  /\ FailsWell(c, more, met, "posts", {"posts"}, PostsDue, t, u, PostsN(f))
  /\ FailsWell(c, more, met, "comments", {"comments"}, CommentsDue, t, u, CommentsN(f))
  /\ FailsWell(c, more, met, "vote", {"comments", "vote"}, VoteDue, t, u, VoteN(f))
  /\ FailsWell(c, more, met, "member", {"members", "join"}, MemberDue, t, u, MemberN(f))

\* ... is served ...
RoomServes(f, g, calls, c, got, t) ==
  /\ ServesWell(calls, c, got, {"posts"}, PostsR(f), PostsR(g), PostsDue, t, PostsN(f), PostsN(g))
  /\ ServesWell(calls, c, got, {"comments"}, CommentsR(f), CommentsR(g), CommentsDue, t, CommentsN(f), CommentsN(g))
  /\ ServesWell(calls, c, got, {"comments", "vote"}, VoteR(f), VoteR(g), VoteDue, t, VoteN(f), VoteN(g))
  /\ ServesWell(calls, c, got, {"members", "join"}, MemberR(f), MemberR(g), MemberDue, t, MemberN(f), MemberN(g))

RoomServesDeaf(f, g, calls, c, met, t) ==
  /\ DeafWell(calls, c, met, "posts", {"posts"}, PostsR(f), PostsR(g), PostsDue, t, PostsN(f), PostsN(g))
  /\ DeafWell(calls, c, met, "comments", {"comments"}, CommentsR(f), CommentsR(g), CommentsDue, t, CommentsN(f), CommentsN(g))
  /\ DeafWell(calls, c, met, "vote", {"comments", "vote"}, VoteR(f), VoteR(g), VoteDue, t, VoteN(f), VoteN(g))
  /\ DeafWell(calls, c, met, "member", {"members", "join"}, MemberR(f), MemberR(g), MemberDue, t, MemberN(f), MemberN(g))

LEMMA RoomHeard ==
  ASSUME NEW page, NEW f, NEW t, NEW calls, NEW met, RoomGood(page, f, t, calls, met), NEW j \in 1..Len(calls),
         calls[j].at = "served", NEW more, RoomMore(more), NEW u \in ThreadT, NEW met2, met \subseteq met2,
         \/ /\ calls[j].kind # "comments"
            /\ t.reloading = TRUE => OfKind(more, "comments") = {}
            /\ u.reloading = TRUE <=> t.reloading = TRUE \/ OfKind(more, "comments") # {}
         \/ calls[j].kind = "comments" /\ OfKind(more, "comments") = {} /\ u.reloading # TRUE,
         RoomHears(f, calls[j], more, met2, t, u)
  PROVE  RoomGood(page, f, u, Sent(Answered(calls, j, RoomTells), more), met2)
<1>1. RoomRest(page, f, t, calls) /\ (page = "room" => RoomCourses(f, t, calls, met))
  BY DEF RoomGood
<1>2. page = "room"
  BY <1>1, RoomCallIs
<1>3. calls \in Seq(CallsOf(RoomKinds, RoomArgs, RoomGots, RoomTopics)) /\ calls \in Seq(RoomCallT)
  BY <1>1 DEF RoomRest, RoomCallT
<1>4. /\ more \in Seq(CallsOf(RoomKinds, RoomArgs, RoomGots, RoomTopics))
      /\ \A k \in 1..Len(more) : more[k].at = "sent"
  BY DEF RoomMore, RoomCallT
<1>5. \A p \in RoomTells : p[2] \in RoomTopics
  BY RoomTellsOf
<1>6. PICK new : new = Answered(calls, j, RoomTells)
  OBVIOUS
<1>7. new \in Seq(RoomCallT) /\ Rid(new, calls, j)
  BY <1>3, <1>5, <1>6, AnsweredIs DEF RoomCallT
<1>8. RoomRest(page, f, u, Sent(new, more))
  BY <1>1, <1>2, <1>7, RoomRestGone
<1>9. PostsCourse(f, u, Sent(Answered(calls, j, RoomTells), more), met2)
  <2>1. Course(calls, met, "posts", {"posts"}, PostsR(f), PostsDue, t, PostsN(f))
    BY <1>1, <1>2 DEF RoomCourses, PostsCourse
  <2>2. HearsWell(calls[j], more, met2, "posts", {"posts"}, PostsR(f), PostsDue, t, u, PostsN(f))
    BY DEF RoomHears
  <2>3. \A kind \in {"posts"} : <<kind, "posts">> \in RoomTells
    BY RoomTellsOf
  <2> QED
    BY <1>3, <1>4, <1>5, <2>1, <2>2, <2>3, HeardCourse DEF PostsCourse
<1>10. CommentsCourse(f, u, Sent(Answered(calls, j, RoomTells), more), met2)
  <2>1. Course(calls, met, "comments", {"comments"}, CommentsR(f), CommentsDue, t, CommentsN(f))
    BY <1>1, <1>2 DEF RoomCourses, CommentsCourse
  <2>2. HearsWell(calls[j], more, met2, "comments", {"comments"}, CommentsR(f), CommentsDue, t, u, CommentsN(f))
    BY DEF RoomHears
  <2>3. \A kind \in {"comments"} : <<kind, "comments">> \in RoomTells
    BY RoomTellsOf
  <2> QED
    BY <1>3, <1>4, <1>5, <2>1, <2>2, <2>3, HeardCourse DEF CommentsCourse
<1>11. VoteCourse(f, u, Sent(Answered(calls, j, RoomTells), more), met2)
  <2>1. Course(calls, met, "vote", {"comments", "vote"}, VoteR(f), VoteDue, t, VoteN(f))
    BY <1>1, <1>2 DEF RoomCourses, VoteCourse
  <2>2. HearsWell(calls[j], more, met2, "vote", {"comments", "vote"}, VoteR(f), VoteDue, t, u, VoteN(f))
    BY DEF RoomHears
  <2>3. \A kind \in {"comments", "vote"} : <<kind, "vote">> \in RoomTells
    BY RoomTellsOf
  <2> QED
    BY <1>3, <1>4, <1>5, <2>1, <2>2, <2>3, HeardCourse DEF VoteCourse
<1>12. MemberCourse(f, u, Sent(Answered(calls, j, RoomTells), more), met2)
  <2>1. Course(calls, met, "member", {"members", "join"}, MemberR(f), MemberDue, t, MemberN(f))
    BY <1>1, <1>2 DEF RoomCourses, MemberCourse
  <2>2. HearsWell(calls[j], more, met2, "member", {"members", "join"}, MemberR(f), MemberDue, t, u, MemberN(f))
    BY DEF RoomHears
  <2>3. \A kind \in {"members", "join"} : <<kind, "member">> \in RoomTells
    BY RoomTellsOf
  <2> QED
    BY <1>3, <1>4, <1>5, <2>1, <2>2, <2>3, HeardCourse DEF MemberCourse
<1> QED
  BY <1>6, <1>8, <1>9, <1>10, <1>11, <1>12 DEF RoomGood, RoomCourses

LEMMA RoomFailed ==
  ASSUME NEW page, NEW f, NEW t, NEW calls, NEW met, RoomGood(page, f, t, calls, met), NEW j \in 1..Len(calls),
         calls[j].deaf = FALSE, NEW more, RoomMore(more), NEW u \in ThreadT, NEW met2, met \subseteq met2,
         \/ /\ calls[j].kind # "comments"
            /\ t.reloading = TRUE => OfKind(more, "comments") = {}
            /\ u.reloading = TRUE <=> t.reloading = TRUE \/ OfKind(more, "comments") # {}
         \/ calls[j].kind = "comments" /\ OfKind(more, "comments") = {} /\ u.reloading # TRUE,
         RoomFails(f, calls[j], more, met2, t, u)
  PROVE  RoomGood(page, f, u, Sent(RemoveAt(calls, j), more), met2)
<1>1. RoomRest(page, f, t, calls) /\ (page = "room" => RoomCourses(f, t, calls, met))
  BY DEF RoomGood
<1>2. page = "room"
  BY <1>1, RoomCallIs
<1>3. calls \in Seq(RoomCallT)
  BY <1>1 DEF RoomRest
<1>4. /\ more \in Seq(RoomCallT) /\ \A k \in 1..Len(more) : more[k].at = "sent"
  BY DEF RoomMore
<1>7. RemoveAt(calls, j) \in Seq(RoomCallT) /\ Rid(RemoveAt(calls, j), calls, j)
  BY <1>3, RemovedCall
<1>8. RoomRest(page, f, u, Sent(RemoveAt(calls, j), more))
  BY <1>1, <1>2, <1>7, RoomRestGone
<1>9. PostsCourse(f, u, Sent(RemoveAt(calls, j), more), met2)
  <2>1. Course(calls, met, "posts", {"posts"}, PostsR(f), PostsDue, t, PostsN(f))
    BY <1>1, <1>2 DEF RoomCourses, PostsCourse
  <2>2. FailsWell(calls[j], more, met2, "posts", {"posts"}, PostsDue, t, u, PostsN(f))
    BY DEF RoomFails
  <2> QED
    BY <1>3, <1>4, <2>1, <2>2, FailedCourse DEF PostsCourse
<1>10. CommentsCourse(f, u, Sent(RemoveAt(calls, j), more), met2)
  <2>1. Course(calls, met, "comments", {"comments"}, CommentsR(f), CommentsDue, t, CommentsN(f))
    BY <1>1, <1>2 DEF RoomCourses, CommentsCourse
  <2>2. FailsWell(calls[j], more, met2, "comments", {"comments"}, CommentsDue, t, u, CommentsN(f))
    BY DEF RoomFails
  <2> QED
    BY <1>3, <1>4, <2>1, <2>2, FailedCourse DEF CommentsCourse
<1>11. VoteCourse(f, u, Sent(RemoveAt(calls, j), more), met2)
  <2>1. Course(calls, met, "vote", {"comments", "vote"}, VoteR(f), VoteDue, t, VoteN(f))
    BY <1>1, <1>2 DEF RoomCourses, VoteCourse
  <2>2. FailsWell(calls[j], more, met2, "vote", {"comments", "vote"}, VoteDue, t, u, VoteN(f))
    BY DEF RoomFails
  <2> QED
    BY <1>3, <1>4, <2>1, <2>2, FailedCourse DEF VoteCourse
<1>12. MemberCourse(f, u, Sent(RemoveAt(calls, j), more), met2)
  <2>1. Course(calls, met, "member", {"members", "join"}, MemberR(f), MemberDue, t, MemberN(f))
    BY <1>1, <1>2 DEF RoomCourses, MemberCourse
  <2>2. FailsWell(calls[j], more, met2, "member", {"members", "join"}, MemberDue, t, u, MemberN(f))
    BY DEF RoomFails
  <2> QED
    BY <1>3, <1>4, <2>1, <2>2, FailedCourse DEF MemberCourse
<1> QED
  BY <1>8, <1>9, <1>10, <1>11, <1>12 DEF RoomGood, RoomCourses

LEMMA RoomServed ==
  ASSUME NEW page, NEW f, NEW g \in ForumT, g.mine \subseteq g.comments, NEW t, NEW calls, NEW met,
         RoomGood(page, f, t, calls, met), NEW j \in 1..Len(calls), calls[j].at = "sent", calls[j].deaf = FALSE,
         NEW got \in RoomGots, got \in RoomGot(calls[j].kind), RoomServes(f, g, calls, calls[j], got, t)
  PROVE  RoomGood(page, g, t, Served(calls, j, got), met)
<1>1. RoomRest(page, f, t, calls) /\ (page = "room" => RoomCourses(f, t, calls, met))
  BY DEF RoomGood
<1>2. page = "room"
  BY <1>1, RoomCallIs
<1>3. calls \in Seq(CallsOf(RoomKinds, RoomArgs, RoomGots, RoomTopics))
  BY <1>1 DEF RoomRest, RoomCallT
<1>8. RoomRest(page, g, t, Served(calls, j, got))
  BY <1>1, <1>2, RoomRestServed
<1>9. PostsCourse(g, t, Served(calls, j, got), met)
  <2>1. Course(calls, met, "posts", {"posts"}, PostsR(f), PostsDue, t, PostsN(f))
    BY <1>1, <1>2 DEF RoomCourses, PostsCourse
  <2>2. ServesWell(calls, calls[j], got, {"posts"}, PostsR(f), PostsR(g), PostsDue, t, PostsN(f), PostsN(g))
    BY DEF RoomServes
  <2> QED
    BY <1>3, <2>1, <2>2, ServedCourse DEF PostsCourse
<1>10. CommentsCourse(g, t, Served(calls, j, got), met)
  <2>1. Course(calls, met, "comments", {"comments"}, CommentsR(f), CommentsDue, t, CommentsN(f))
    BY <1>1, <1>2 DEF RoomCourses, CommentsCourse
  <2>2. ServesWell(calls, calls[j], got, {"comments"}, CommentsR(f), CommentsR(g), CommentsDue, t, CommentsN(f), CommentsN(g))
    BY DEF RoomServes
  <2> QED
    BY <1>3, <2>1, <2>2, ServedCourse DEF CommentsCourse
<1>11. VoteCourse(g, t, Served(calls, j, got), met)
  <2>1. Course(calls, met, "vote", {"comments", "vote"}, VoteR(f), VoteDue, t, VoteN(f))
    BY <1>1, <1>2 DEF RoomCourses, VoteCourse
  <2>2. ServesWell(calls, calls[j], got, {"comments", "vote"}, VoteR(f), VoteR(g), VoteDue, t, VoteN(f), VoteN(g))
    BY DEF RoomServes
  <2> QED
    BY <1>3, <2>1, <2>2, ServedCourse DEF VoteCourse
<1>12. MemberCourse(g, t, Served(calls, j, got), met)
  <2>1. Course(calls, met, "member", {"members", "join"}, MemberR(f), MemberDue, t, MemberN(f))
    BY <1>1, <1>2 DEF RoomCourses, MemberCourse
  <2>2. ServesWell(calls, calls[j], got, {"members", "join"}, MemberR(f), MemberR(g), MemberDue, t, MemberN(f), MemberN(g))
    BY DEF RoomServes
  <2> QED
    BY <1>3, <2>1, <2>2, ServedCourse DEF MemberCourse
<1> QED
  BY <1>8, <1>9, <1>10, <1>11, <1>12 DEF RoomGood, RoomCourses

LEMMA RoomServedDeaf ==
  ASSUME NEW page, NEW f, NEW g \in ForumT, g.mine \subseteq g.comments, NEW t, NEW calls, NEW met,
         RoomGood(page, f, t, calls, met), NEW j \in 1..Len(calls), calls[j].at = "sent", calls[j].deaf = TRUE,
         NEW met2, met \subseteq met2, RoomServesDeaf(f, g, calls, calls[j], met2, t)
  PROVE  RoomGood(page, g, t, RemoveAt(calls, j), met2)
<1>1. RoomRest(page, f, t, calls) /\ (page = "room" => RoomCourses(f, t, calls, met))
  BY DEF RoomGood
<1>3. calls \in Seq(RoomCallT)
  BY <1>1 DEF RoomRest
<1>8. RoomRest(page, g, t, RemoveAt(calls, j))
  BY <1>1, RoomRestDeaf
<1>9. ASSUME page = "room" PROVE PostsCourse(g, t, RemoveAt(calls, j), met2)
  <2>1. Course(calls, met, "posts", {"posts"}, PostsR(f), PostsDue, t, PostsN(f))
    BY <1>1, <1>9 DEF RoomCourses, PostsCourse
  <2>2. DeafWell(calls, calls[j], met2, "posts", {"posts"}, PostsR(f), PostsR(g), PostsDue, t, PostsN(f), PostsN(g))
    BY DEF RoomServesDeaf
  <2> QED
    BY <1>3, <2>1, <2>2, DeafCourse DEF PostsCourse
<1>10. ASSUME page = "room" PROVE CommentsCourse(g, t, RemoveAt(calls, j), met2)
  <2>1. Course(calls, met, "comments", {"comments"}, CommentsR(f), CommentsDue, t, CommentsN(f))
    BY <1>1, <1>10 DEF RoomCourses, CommentsCourse
  <2>2. DeafWell(calls, calls[j], met2, "comments", {"comments"}, CommentsR(f), CommentsR(g), CommentsDue, t, CommentsN(f), CommentsN(g))
    BY DEF RoomServesDeaf
  <2> QED
    BY <1>3, <2>1, <2>2, DeafCourse DEF CommentsCourse
<1>11. ASSUME page = "room" PROVE VoteCourse(g, t, RemoveAt(calls, j), met2)
  <2>1. Course(calls, met, "vote", {"comments", "vote"}, VoteR(f), VoteDue, t, VoteN(f))
    BY <1>1, <1>11 DEF RoomCourses, VoteCourse
  <2>2. DeafWell(calls, calls[j], met2, "vote", {"comments", "vote"}, VoteR(f), VoteR(g), VoteDue, t, VoteN(f), VoteN(g))
    BY DEF RoomServesDeaf
  <2> QED
    BY <1>3, <2>1, <2>2, DeafCourse DEF VoteCourse
<1>12. ASSUME page = "room" PROVE MemberCourse(g, t, RemoveAt(calls, j), met2)
  <2>1. Course(calls, met, "member", {"members", "join"}, MemberR(f), MemberDue, t, MemberN(f))
    BY <1>1, <1>12 DEF RoomCourses, MemberCourse
  <2>2. DeafWell(calls, calls[j], met2, "member", {"members", "join"}, MemberR(f), MemberR(g), MemberDue, t, MemberN(f), MemberN(g))
    BY DEF RoomServesDeaf
  <2> QED
    BY <1>3, <2>1, <2>2, DeafCourse DEF MemberCourse
<1> QED
  BY <1>8, <1>9, <1>10, <1>11, <1>12 DEF RoomGood, RoomCourses

\* The calls that follow a comment.
LEMMA LoadsMore ==
  ASSUME NEW t, t = thread, t \in ThreadT, NEW more, more = LoadComments \o LoadPosts
  PROVE  /\ RoomMore(more)
         /\ OfKind(more, "comments") = {} <=> t.reloading = TRUE
         /\ Pending(more, PostsDue)
         /\ t.reloading # TRUE => Pending(more, CommentsDue) /\ Pending(more, VoteDue)
<1>1. PICK a, b : a = LoadComments /\ b = LoadPosts
  OBVIOUS
<1>2. RoomMore(b) /\ OfKind(b, "comments") = {} /\ (\A P : Pending(b, P) <=> <<"posts", "sent", FALSE>> \in P)
  <2>1. b = <<Call("posts", "")>>
    BY <1>1 DEF LoadPosts
  <2>2. "posts" \in RoomKinds /\ "" \in RoomArgs /\ "posts" # "comments"
    BY DEF RoomKinds, RoomArgs
  <2> QED
    BY <2>1, <2>2, RoomCallMade
<1>3. RoomMore(a) /\ (OfKind(a, "comments") = {} <=> t.reloading = TRUE)
      /\ (t.reloading # TRUE => \A P : Pending(a, P) <=> <<"comments", "sent", FALSE>> \in P)
  <2>1. CASE t.reloading = TRUE
    <3>1. a = <<>>
      BY <1>1, <2>1 DEF LoadComments
    <3> QED
      BY <2>1, <3>1, NoRoomCall
  <2>2. CASE t.reloading # TRUE
    <3>1. a = <<Call("comments", "")>>
      BY <1>1, <2>2 DEF LoadComments, ThreadT
    <3>2. "comments" \in RoomKinds /\ "" \in RoomArgs
      BY DEF RoomKinds, RoomArgs
    <3> QED
      BY <2>2, <3>1, <3>2, RoomCallMade
  <2> QED
    BY <2>1, <2>2
<1>4. more = a \o b
  BY <1>1
<1>5. RoomMore(more)
  BY <1>2, <1>3, <1>4, RoomMoreAnd
<1>6. \A l : OfKind(more, l) = {} <=> OfKind(a, l) = {} /\ OfKind(b, l) = {}
  <2>1. a \in Seq(RoomCallT) /\ b \in Seq(RoomCallT) /\ more = Sent(a, b)
    BY <1>2, <1>3, <1>4 DEF RoomMore, Sent
  <2> QED
    BY <2>1, SentKinds
<1>7. \A P : Pending(more, P) <=> Pending(a, P) \/ Pending(b, P)
  BY <1>2, <1>3, <1>4, RoomMoreAnd
<1> QED
  BY <1>2, <1>3, <1>5, <1>6, <1>7 DEF PostsDue, CommentsDue, VoteDue

\* The room is there.
LEMMA RoomLoadedGood ==
  ASSUME RoomInv, NEW j \in 1..Len(roomCalls), RoomLoaded(j)
  PROVE  RoomInv'
<1>0. PICK page, f, t, calls, met, u, more, new :
        /\ page = route.page /\ f = forum /\ t = thread /\ calls = roomCalls /\ met = roomMet
        /\ u = thread' /\ new = roomMet' /\ more = CheckMembership
  OBVIOUS
<1>1. RoomGood(page, f, t, calls, met) /\ j \in 1..Len(calls)
  BY <1>0 DEF RoomInv
<1>2. /\ calls[j].kind = "room" /\ calls[j].at = "served" /\ roomCalls' = Sent(Answered(calls, j, RoomTells), more)
      /\ route' = route /\ forum' = f /\ u = [t EXCEPT !.room = TRUE] /\ new = met
  BY <1>0 DEF RoomLoaded, Heard, Unprompted, browserVars
<1>3. RoomRest(page, f, t, calls) /\ t \in ThreadT /\ f \in ForumT
  BY <1>1 DEF RoomGood, RoomRest
<1>4. /\ calls[j].got \in RoomGot("room") /\ calls[j].deaf \in BOOLEAN
      /\ calls[j].got \in RoomGots
  <2>1. calls[j].got \in RoomGot(calls[j].kind)
    BY <1>1, <1>2, <1>3, RoomCallIs
  <2>2. calls[j].got \in RoomGots /\ calls[j].deaf \in BOOLEAN
    BY <1>1, <1>3, RoomCallIs
  <2> QED
    BY <1>2, <2>1, <2>2
<1>5. /\ RoomMore(more) /\ OfKind(more, "comments") = {}
      /\ Pending(more, MemberDue)
  <2>1. more = <<Call("members", "")>>
    BY <1>0 DEF CheckMembership
  <2>2. "members" \in RoomKinds /\ "" \in RoomArgs /\ "members" # "comments"
    BY DEF RoomKinds, RoomArgs
  <2>3. RoomMore(more)
    BY <2>1, <2>2, RoomCallMade
  <2>4. \A l : OfKind(more, l) = {} <=> "members" # l
    BY <2>1, <2>2, RoomCallMade
  <2>5. \A P : Pending(more, P) <=> <<"members", "sent", FALSE>> \in P
    BY <2>1, <2>2, RoomCallMade
  <2> QED
    BY <2>2, <2>3, <2>4, <2>5 DEF MemberDue
<1>6. u \in ThreadT /\ met \subseteq new
  <2>1. u \in ThreadT
    BY <1>2, <1>3, <1>4 DEF ThreadT, RoomGot, MemberGots, PostsGots, CommentsGots, VoteGots
  <2> QED
    BY <1>0, <1>2, <2>1
<1>7. RoomHears(f, calls[j], more, new, t, u)
  <2>1. HearsWell(calls[j], more, new, "posts", {"posts"}, PostsR(f), PostsDue, t, u, PostsN(f))
    BY <1>0, <1>2, <1>3, <1>4, <1>5, <1>6 DEF HearsWell, PostsR, PostsDue, PostsN, ThreadT, RoomGot, MemberGots, PostsGots, CommentsGots, VoteGots
  <2>2. HearsWell(calls[j], more, new, "comments", {"comments"}, CommentsR(f), CommentsDue, t, u, CommentsN(f))
    BY <1>0, <1>2, <1>3, <1>4, <1>5, <1>6 DEF HearsWell, CommentsR, CommentsDue, CommentsN, ThreadT, RoomGot, MemberGots, PostsGots, CommentsGots, VoteGots
  <2>3. HearsWell(calls[j], more, new, "vote", {"comments", "vote"}, VoteR(f), VoteDue, t, u, VoteN(f))
    BY <1>0, <1>2, <1>3, <1>4, <1>5, <1>6 DEF HearsWell, VoteR, VoteDue, VoteN, ThreadT, RoomGot, MemberGots, PostsGots, CommentsGots, VoteGots
  <2>4. HearsWell(calls[j], more, new, "member", {"members", "join"}, MemberR(f), MemberDue, t, u, MemberN(f))
    BY <1>0, <1>2, <1>3, <1>4, <1>5, <1>6 DEF HearsWell, MemberR, MemberDue, MemberN, ThreadT, RoomGot, MemberGots, PostsGots, CommentsGots, VoteGots
  <2> QED
    BY <2>1, <2>2, <2>3, <2>4 DEF RoomHears
<1>8. /\ calls[j].kind # "comments"
      /\ t.reloading = TRUE => OfKind(more, "comments") = {}
      /\ u.reloading = TRUE <=> t.reloading = TRUE \/ OfKind(more, "comments") # {}
  BY <1>2, <1>3, <1>5 DEF ThreadT
<1>9. RoomGood(page, f, u, Sent(Answered(calls, j, RoomTells), more), new)
  BY <1>1, <1>2, <1>5, <1>6, <1>7, <1>8, RoomHeard
<1> QED
  BY <1>0, <1>2, <1>9 DEF RoomInv

\* The members are there.
LEMMA MembersLoadedGood ==
  ASSUME RoomInv, NEW j \in 1..Len(roomCalls), MembersLoaded(j)
  PROVE  RoomInv'
<1>0. PICK page, f, t, calls, met, u, more, new :
        /\ page = route.page /\ f = forum /\ t = thread /\ calls = roomCalls /\ met = roomMet
        /\ u = thread' /\ new = roomMet' /\ more = <<>>
  OBVIOUS
<1>1. RoomGood(page, f, t, calls, met) /\ j \in 1..Len(calls)
  BY <1>0 DEF RoomInv
<1>2. /\ calls[j].kind = "members" /\ calls[j].at = "served" /\ roomCalls' = Sent(Answered(calls, j, RoomTells), more)
      /\ route' = route /\ forum' = f /\ u = [t EXCEPT !.member = calls[j].got.member] /\ new = met \union calls[j].late
  BY <1>0 DEF MembersLoaded, Heard, Unprompted, browserVars
<1>3. RoomRest(page, f, t, calls) /\ t \in ThreadT /\ f \in ForumT
  BY <1>1 DEF RoomGood, RoomRest
<1>4. /\ calls[j].got \in RoomGot("members") /\ calls[j].deaf \in BOOLEAN
      /\ calls[j].got \in RoomGots
  <2>1. calls[j].got \in RoomGot(calls[j].kind)
    BY <1>1, <1>2, <1>3, RoomCallIs
  <2>2. calls[j].got \in RoomGots /\ calls[j].deaf \in BOOLEAN
    BY <1>1, <1>3, RoomCallIs
  <2> QED
    BY <1>2, <2>1, <2>2
<1>5. RoomMore(more) /\ OfKind(more, "comments") = {}
  BY <1>0, NoRoomCall
<1>6. u \in ThreadT /\ met \subseteq new
  <2>1. u \in ThreadT
    BY <1>2, <1>3, <1>4 DEF ThreadT, RoomGot, MemberGots, PostsGots, CommentsGots, VoteGots
  <2> QED
    BY <1>0, <1>2, <2>1
<1>7. RoomHears(f, calls[j], more, new, t, u)
  <2>1. HearsWell(calls[j], more, new, "posts", {"posts"}, PostsR(f), PostsDue, t, u, PostsN(f))
    BY <1>0, <1>2, <1>3, <1>4, <1>5, <1>6 DEF HearsWell, PostsR, PostsDue, PostsN, ThreadT, RoomGot, MemberGots, PostsGots, CommentsGots, VoteGots
  <2>2. HearsWell(calls[j], more, new, "comments", {"comments"}, CommentsR(f), CommentsDue, t, u, CommentsN(f))
    BY <1>0, <1>2, <1>3, <1>4, <1>5, <1>6 DEF HearsWell, CommentsR, CommentsDue, CommentsN, ThreadT, RoomGot, MemberGots, PostsGots, CommentsGots, VoteGots
  <2>3. HearsWell(calls[j], more, new, "vote", {"comments", "vote"}, VoteR(f), VoteDue, t, u, VoteN(f))
    BY <1>0, <1>2, <1>3, <1>4, <1>5, <1>6 DEF HearsWell, VoteR, VoteDue, VoteN, ThreadT, RoomGot, MemberGots, PostsGots, CommentsGots, VoteGots
  <2>4. HearsWell(calls[j], more, new, "member", {"members", "join"}, MemberR(f), MemberDue, t, u, MemberN(f))
    BY <1>0, <1>2, <1>3, <1>4, <1>5, <1>6 DEF HearsWell, MemberR, MemberDue, MemberN, ThreadT, RoomGot, MemberGots, PostsGots, CommentsGots, VoteGots
  <2> QED
    BY <2>1, <2>2, <2>3, <2>4 DEF RoomHears
<1>8. /\ calls[j].kind # "comments"
      /\ t.reloading = TRUE => OfKind(more, "comments") = {}
      /\ u.reloading = TRUE <=> t.reloading = TRUE \/ OfKind(more, "comments") # {}
  BY <1>2, <1>3, <1>5 DEF ThreadT
<1>9. RoomGood(page, f, u, Sent(Answered(calls, j, RoomTells), more), new)
  BY <1>1, <1>2, <1>5, <1>6, <1>7, <1>8, RoomHeard
<1> QED
  BY <1>0, <1>2, <1>9 DEF RoomInv

\* The posts are there.
LEMMA PostsLoadedGood ==
  ASSUME RoomInv, NEW j \in 1..Len(roomCalls), PostsLoaded(j)
  PROVE  RoomInv'
<1>0. PICK page, f, t, calls, met, u, more, new :
        /\ page = route.page /\ f = forum /\ t = thread /\ calls = roomCalls /\ met = roomMet
        /\ u = thread' /\ new = roomMet' /\ more = <<>>
  OBVIOUS
<1>1. RoomGood(page, f, t, calls, met) /\ j \in 1..Len(calls)
  BY <1>0 DEF RoomInv
<1>2. /\ calls[j].kind = "posts" /\ calls[j].at = "served" /\ roomCalls' = Sent(Answered(calls, j, RoomTells), more)
      /\ route' = route /\ forum' = f /\ u = [t EXCEPT !.posts = calls[j].got.posts, !.busy = FALSE] /\ new = met \union calls[j].late
  BY <1>0 DEF PostsLoaded, Heard, Unprompted, browserVars
<1>3. RoomRest(page, f, t, calls) /\ t \in ThreadT /\ f \in ForumT
  BY <1>1 DEF RoomGood, RoomRest
<1>4. /\ calls[j].got \in RoomGot("posts") /\ calls[j].deaf \in BOOLEAN
      /\ calls[j].got \in RoomGots
  <2>1. calls[j].got \in RoomGot(calls[j].kind)
    BY <1>1, <1>2, <1>3, RoomCallIs
  <2>2. calls[j].got \in RoomGots /\ calls[j].deaf \in BOOLEAN
    BY <1>1, <1>3, RoomCallIs
  <2> QED
    BY <1>2, <2>1, <2>2
<1>5. RoomMore(more) /\ OfKind(more, "comments") = {}
  BY <1>0, NoRoomCall
<1>6. u \in ThreadT /\ met \subseteq new
  <2>1. u \in ThreadT
    BY <1>2, <1>3, <1>4 DEF ThreadT, RoomGot, MemberGots, PostsGots, CommentsGots, VoteGots
  <2> QED
    BY <1>0, <1>2, <2>1
<1>7. RoomHears(f, calls[j], more, new, t, u)
  <2>1. HearsWell(calls[j], more, new, "posts", {"posts"}, PostsR(f), PostsDue, t, u, PostsN(f))
    BY <1>0, <1>2, <1>3, <1>4, <1>5, <1>6 DEF HearsWell, PostsR, PostsDue, PostsN, ThreadT, RoomGot, MemberGots, PostsGots, CommentsGots, VoteGots
  <2>2. HearsWell(calls[j], more, new, "comments", {"comments"}, CommentsR(f), CommentsDue, t, u, CommentsN(f))
    BY <1>0, <1>2, <1>3, <1>4, <1>5, <1>6 DEF HearsWell, CommentsR, CommentsDue, CommentsN, ThreadT, RoomGot, MemberGots, PostsGots, CommentsGots, VoteGots
  <2>3. HearsWell(calls[j], more, new, "vote", {"comments", "vote"}, VoteR(f), VoteDue, t, u, VoteN(f))
    BY <1>0, <1>2, <1>3, <1>4, <1>5, <1>6 DEF HearsWell, VoteR, VoteDue, VoteN, ThreadT, RoomGot, MemberGots, PostsGots, CommentsGots, VoteGots
  <2>4. HearsWell(calls[j], more, new, "member", {"members", "join"}, MemberR(f), MemberDue, t, u, MemberN(f))
    BY <1>0, <1>2, <1>3, <1>4, <1>5, <1>6 DEF HearsWell, MemberR, MemberDue, MemberN, ThreadT, RoomGot, MemberGots, PostsGots, CommentsGots, VoteGots
  <2> QED
    BY <2>1, <2>2, <2>3, <2>4 DEF RoomHears
<1>8. /\ calls[j].kind # "comments"
      /\ t.reloading = TRUE => OfKind(more, "comments") = {}
      /\ u.reloading = TRUE <=> t.reloading = TRUE \/ OfKind(more, "comments") # {}
  BY <1>2, <1>3, <1>5 DEF ThreadT
<1>9. RoomGood(page, f, u, Sent(Answered(calls, j, RoomTells), more), new)
  BY <1>1, <1>2, <1>5, <1>6, <1>7, <1>8, RoomHeard
<1> QED
  BY <1>0, <1>2, <1>9 DEF RoomInv

\* The comments are there.
LEMMA CommentsLoadedGood ==
  ASSUME RoomInv, NEW j \in 1..Len(roomCalls), CommentsLoaded(j)
  PROVE  RoomInv'
<1>0. PICK page, f, t, calls, met, u, more, new :
        /\ page = route.page /\ f = forum /\ t = thread /\ calls = roomCalls /\ met = roomMet
        /\ u = thread' /\ new = roomMet' /\ more = <<>>
  OBVIOUS
<1>1. RoomGood(page, f, t, calls, met) /\ j \in 1..Len(calls)
  BY <1>0 DEF RoomInv
<1>2. /\ calls[j].kind = "comments" /\ calls[j].at = "served" /\ roomCalls' = Sent(Answered(calls, j, RoomTells), more)
      /\ route' = route /\ forum' = f /\ u = [t EXCEPT !.comments = calls[j].got.comments, !.vote = calls[j].got.vote, !.reloading = FALSE] /\ new = met \union calls[j].late
  BY <1>0 DEF CommentsLoaded, Heard, Unprompted, browserVars
<1>3. RoomRest(page, f, t, calls) /\ t \in ThreadT /\ f \in ForumT
  BY <1>1 DEF RoomGood, RoomRest
<1>4. /\ calls[j].got \in RoomGot("comments") /\ calls[j].deaf \in BOOLEAN
      /\ calls[j].got \in RoomGots /\ t.reloading = TRUE
  <2>1. calls[j].got \in RoomGot(calls[j].kind)
    BY <1>1, <1>2, <1>3, RoomCallIs
  <2>2. calls[j].got \in RoomGots /\ calls[j].deaf \in BOOLEAN
    BY <1>1, <1>3, RoomCallIs
  <2>3. t.reloading = TRUE
    BY <1>1, <1>2, <1>3 DEF RoomRest, OfKind
  <2> QED
    BY <1>2, <2>1, <2>2, <2>3
<1>5. RoomMore(more) /\ OfKind(more, "comments") = {}
  BY <1>0, NoRoomCall
<1>6. u \in ThreadT /\ met \subseteq new
  <2>1. u \in ThreadT
    BY <1>2, <1>3, <1>4 DEF ThreadT, RoomGot, MemberGots, PostsGots, CommentsGots, VoteGots
  <2> QED
    BY <1>0, <1>2, <2>1
<1>7. RoomHears(f, calls[j], more, new, t, u)
  <2>1. HearsWell(calls[j], more, new, "posts", {"posts"}, PostsR(f), PostsDue, t, u, PostsN(f))
    BY <1>0, <1>2, <1>3, <1>4, <1>5, <1>6 DEF HearsWell, PostsR, PostsDue, PostsN, ThreadT, RoomGot, MemberGots, PostsGots, CommentsGots, VoteGots
  <2>2. HearsWell(calls[j], more, new, "comments", {"comments"}, CommentsR(f), CommentsDue, t, u, CommentsN(f))
    BY <1>0, <1>2, <1>3, <1>4, <1>5, <1>6 DEF HearsWell, CommentsR, CommentsDue, CommentsN, ThreadT, RoomGot, MemberGots, PostsGots, CommentsGots, VoteGots
  <2>3. HearsWell(calls[j], more, new, "vote", {"comments", "vote"}, VoteR(f), VoteDue, t, u, VoteN(f))
    BY <1>0, <1>2, <1>3, <1>4, <1>5, <1>6 DEF HearsWell, VoteR, VoteDue, VoteN, ThreadT, RoomGot, MemberGots, PostsGots, CommentsGots, VoteGots
  <2>4. HearsWell(calls[j], more, new, "member", {"members", "join"}, MemberR(f), MemberDue, t, u, MemberN(f))
    BY <1>0, <1>2, <1>3, <1>4, <1>5, <1>6 DEF HearsWell, MemberR, MemberDue, MemberN, ThreadT, RoomGot, MemberGots, PostsGots, CommentsGots, VoteGots
  <2> QED
    BY <2>1, <2>2, <2>3, <2>4 DEF RoomHears
<1>8. calls[j].kind = "comments" /\ OfKind(more, "comments") = {} /\ u.reloading # TRUE
  BY <1>2, <1>3, <1>5 DEF ThreadT
<1>9. RoomGood(page, f, u, Sent(Answered(calls, j, RoomTells), more), new)
  BY <1>1, <1>2, <1>5, <1>6, <1>7, <1>8, RoomHeard
<1> QED
  BY <1>0, <1>2, <1>9 DEF RoomInv

\* A comment has been made.
LEMMA CommentedGood ==
  ASSUME RoomInv, NEW j \in 1..Len(roomCalls), Commented(j)
  PROVE  RoomInv'
<1>0. PICK page, f, t, calls, met, u, more, new :
        /\ page = route.page /\ f = forum /\ t = thread /\ calls = roomCalls /\ met = roomMet
        /\ u = thread' /\ new = roomMet' /\ more = LoadComments \o LoadPosts
  OBVIOUS
<1>1. RoomGood(page, f, t, calls, met) /\ j \in 1..Len(calls)
  BY <1>0 DEF RoomInv
<1>2. /\ calls[j].kind = "comment" /\ calls[j].at = "served" /\ roomCalls' = Sent(Answered(calls, j, RoomTells), more)
      /\ route' = route /\ forum' = f /\ u = [t EXCEPT !.reloading = TRUE, !.busy = TRUE] /\ new = (IF t.reloading THEN met \union {"comments"} ELSE met)
  BY <1>0 DEF Commented, Heard, Unprompted, browserVars
<1>3. RoomRest(page, f, t, calls) /\ t \in ThreadT /\ f \in ForumT
  BY <1>1 DEF RoomGood, RoomRest
<1>4. /\ calls[j].got \in RoomGot("comment") /\ calls[j].deaf \in BOOLEAN
      /\ calls[j].got \in RoomGots
  <2>1. calls[j].got \in RoomGot(calls[j].kind)
    BY <1>1, <1>2, <1>3, RoomCallIs
  <2>2. calls[j].got \in RoomGots /\ calls[j].deaf \in BOOLEAN
    BY <1>1, <1>3, RoomCallIs
  <2> QED
    BY <1>2, <2>1, <2>2
<1>5. /\ RoomMore(more)
      /\ OfKind(more, "comments") = {} <=> t.reloading = TRUE
      /\ Pending(more, PostsDue)
      /\ t.reloading # TRUE => Pending(more, CommentsDue) /\ Pending(more, VoteDue)
  BY <1>0, <1>3, LoadsMore
<1>6. u \in ThreadT /\ met \subseteq new
  <2>1. u \in ThreadT
    BY <1>2, <1>3, <1>4 DEF ThreadT, RoomGot, MemberGots, PostsGots, CommentsGots, VoteGots
  <2> QED
    BY <1>0, <1>2, <2>1
<1>7. RoomHears(f, calls[j], more, new, t, u)
  <2>1. HearsWell(calls[j], more, new, "posts", {"posts"}, PostsR(f), PostsDue, t, u, PostsN(f))
    BY <1>0, <1>2, <1>3, <1>4, <1>5, <1>6 DEF HearsWell, PostsR, PostsDue, PostsN, ThreadT, RoomGot, MemberGots, PostsGots, CommentsGots, VoteGots
  <2>2. HearsWell(calls[j], more, new, "comments", {"comments"}, CommentsR(f), CommentsDue, t, u, CommentsN(f))
    BY <1>0, <1>2, <1>3, <1>4, <1>5, <1>6 DEF HearsWell, CommentsR, CommentsDue, CommentsN, ThreadT, RoomGot, MemberGots, PostsGots, CommentsGots, VoteGots
  <2>3. HearsWell(calls[j], more, new, "vote", {"comments", "vote"}, VoteR(f), VoteDue, t, u, VoteN(f))
    BY <1>0, <1>2, <1>3, <1>4, <1>5, <1>6 DEF HearsWell, VoteR, VoteDue, VoteN, ThreadT, RoomGot, MemberGots, PostsGots, CommentsGots, VoteGots
  <2>4. HearsWell(calls[j], more, new, "member", {"members", "join"}, MemberR(f), MemberDue, t, u, MemberN(f))
    BY <1>0, <1>2, <1>3, <1>4, <1>5, <1>6 DEF HearsWell, MemberR, MemberDue, MemberN, ThreadT, RoomGot, MemberGots, PostsGots, CommentsGots, VoteGots
  <2> QED
    BY <2>1, <2>2, <2>3, <2>4 DEF RoomHears
<1>8. /\ calls[j].kind # "comments"
      /\ t.reloading = TRUE => OfKind(more, "comments") = {}
      /\ u.reloading = TRUE <=> t.reloading = TRUE \/ OfKind(more, "comments") # {}
  BY <1>2, <1>3, <1>5 DEF ThreadT
<1>9. RoomGood(page, f, u, Sent(Answered(calls, j, RoomTells), more), new)
  BY <1>1, <1>2, <1>5, <1>6, <1>7, <1>8, RoomHeard
<1> QED
  BY <1>0, <1>2, <1>9 DEF RoomInv

\* A reply has been made.
LEMMA RepliedGood ==
  ASSUME RoomInv, NEW j \in 1..Len(roomCalls), Replied(j)
  PROVE  RoomInv'
<1>0. PICK page, f, t, calls, met, u, more, new :
        /\ page = route.page /\ f = forum /\ t = thread /\ calls = roomCalls /\ met = roomMet
        /\ u = thread' /\ new = roomMet' /\ more = LoadComments \o LoadPosts
  OBVIOUS
<1>1. RoomGood(page, f, t, calls, met) /\ j \in 1..Len(calls)
  BY <1>0 DEF RoomInv
<1>2. /\ calls[j].kind = "reply" /\ calls[j].at = "served" /\ roomCalls' = Sent(Answered(calls, j, RoomTells), more)
      /\ route' = route /\ forum' = f /\ u = [t EXCEPT !.reloading = TRUE, !.busy = TRUE] /\ new = (IF t.reloading THEN met \union {"comments"} ELSE met)
  BY <1>0 DEF Replied, Heard, Unprompted, browserVars
<1>3. RoomRest(page, f, t, calls) /\ t \in ThreadT /\ f \in ForumT
  BY <1>1 DEF RoomGood, RoomRest
<1>4. /\ calls[j].got \in RoomGot("reply") /\ calls[j].deaf \in BOOLEAN
      /\ calls[j].got \in RoomGots
  <2>1. calls[j].got \in RoomGot(calls[j].kind)
    BY <1>1, <1>2, <1>3, RoomCallIs
  <2>2. calls[j].got \in RoomGots /\ calls[j].deaf \in BOOLEAN
    BY <1>1, <1>3, RoomCallIs
  <2> QED
    BY <1>2, <2>1, <2>2
<1>5. /\ RoomMore(more)
      /\ OfKind(more, "comments") = {} <=> t.reloading = TRUE
      /\ Pending(more, PostsDue)
      /\ t.reloading # TRUE => Pending(more, CommentsDue) /\ Pending(more, VoteDue)
  BY <1>0, <1>3, LoadsMore
<1>6. u \in ThreadT /\ met \subseteq new
  <2>1. u \in ThreadT
    BY <1>2, <1>3, <1>4 DEF ThreadT, RoomGot, MemberGots, PostsGots, CommentsGots, VoteGots
  <2> QED
    BY <1>0, <1>2, <2>1
<1>7. RoomHears(f, calls[j], more, new, t, u)
  <2>1. HearsWell(calls[j], more, new, "posts", {"posts"}, PostsR(f), PostsDue, t, u, PostsN(f))
    BY <1>0, <1>2, <1>3, <1>4, <1>5, <1>6 DEF HearsWell, PostsR, PostsDue, PostsN, ThreadT, RoomGot, MemberGots, PostsGots, CommentsGots, VoteGots
  <2>2. HearsWell(calls[j], more, new, "comments", {"comments"}, CommentsR(f), CommentsDue, t, u, CommentsN(f))
    BY <1>0, <1>2, <1>3, <1>4, <1>5, <1>6 DEF HearsWell, CommentsR, CommentsDue, CommentsN, ThreadT, RoomGot, MemberGots, PostsGots, CommentsGots, VoteGots
  <2>3. HearsWell(calls[j], more, new, "vote", {"comments", "vote"}, VoteR(f), VoteDue, t, u, VoteN(f))
    BY <1>0, <1>2, <1>3, <1>4, <1>5, <1>6 DEF HearsWell, VoteR, VoteDue, VoteN, ThreadT, RoomGot, MemberGots, PostsGots, CommentsGots, VoteGots
  <2>4. HearsWell(calls[j], more, new, "member", {"members", "join"}, MemberR(f), MemberDue, t, u, MemberN(f))
    BY <1>0, <1>2, <1>3, <1>4, <1>5, <1>6 DEF HearsWell, MemberR, MemberDue, MemberN, ThreadT, RoomGot, MemberGots, PostsGots, CommentsGots, VoteGots
  <2> QED
    BY <2>1, <2>2, <2>3, <2>4 DEF RoomHears
<1>8. /\ calls[j].kind # "comments"
      /\ t.reloading = TRUE => OfKind(more, "comments") = {}
      /\ u.reloading = TRUE <=> t.reloading = TRUE \/ OfKind(more, "comments") # {}
  BY <1>2, <1>3, <1>5 DEF ThreadT
<1>9. RoomGood(page, f, u, Sent(Answered(calls, j, RoomTells), more), new)
  BY <1>1, <1>2, <1>5, <1>6, <1>7, <1>8, RoomHeard
<1> QED
  BY <1>0, <1>2, <1>9 DEF RoomInv

\* A vote has been given.
LEMMA UpvotesGood ==
  ASSUME RoomInv, NEW j \in 1..Len(roomCalls), Upvotes(j)
  PROVE  RoomInv'
<1>0. PICK page, f, t, calls, met, u, more, new :
        /\ page = route.page /\ f = forum /\ t = thread /\ calls = roomCalls /\ met = roomMet
        /\ u = thread' /\ new = roomMet' /\ more = <<>>
  OBVIOUS
<1>1. RoomGood(page, f, t, calls, met) /\ j \in 1..Len(calls)
  BY <1>0 DEF RoomInv
<1>2. /\ calls[j].kind = "vote" /\ calls[j].at = "served" /\ roomCalls' = Sent(Answered(calls, j, RoomTells), more)
      /\ route' = route /\ forum' = f /\ u = [t EXCEPT !.vote = calls[j].got.vote] /\ new = met \union calls[j].late
  BY <1>0 DEF Upvotes, Heard, Unprompted, browserVars
<1>3. RoomRest(page, f, t, calls) /\ t \in ThreadT /\ f \in ForumT
  BY <1>1 DEF RoomGood, RoomRest
<1>4. /\ calls[j].got \in RoomGot("vote") /\ calls[j].deaf \in BOOLEAN
      /\ calls[j].got \in RoomGots
  <2>1. calls[j].got \in RoomGot(calls[j].kind)
    BY <1>1, <1>2, <1>3, RoomCallIs
  <2>2. calls[j].got \in RoomGots /\ calls[j].deaf \in BOOLEAN
    BY <1>1, <1>3, RoomCallIs
  <2> QED
    BY <1>2, <2>1, <2>2
<1>5. RoomMore(more) /\ OfKind(more, "comments") = {}
  BY <1>0, NoRoomCall
<1>6. u \in ThreadT /\ met \subseteq new
  <2>1. u \in ThreadT
    BY <1>2, <1>3, <1>4 DEF ThreadT, RoomGot, MemberGots, PostsGots, CommentsGots, VoteGots
  <2> QED
    BY <1>0, <1>2, <2>1
<1>7. RoomHears(f, calls[j], more, new, t, u)
  <2>1. HearsWell(calls[j], more, new, "posts", {"posts"}, PostsR(f), PostsDue, t, u, PostsN(f))
    BY <1>0, <1>2, <1>3, <1>4, <1>5, <1>6 DEF HearsWell, PostsR, PostsDue, PostsN, ThreadT, RoomGot, MemberGots, PostsGots, CommentsGots, VoteGots
  <2>2. HearsWell(calls[j], more, new, "comments", {"comments"}, CommentsR(f), CommentsDue, t, u, CommentsN(f))
    BY <1>0, <1>2, <1>3, <1>4, <1>5, <1>6 DEF HearsWell, CommentsR, CommentsDue, CommentsN, ThreadT, RoomGot, MemberGots, PostsGots, CommentsGots, VoteGots
  <2>3. HearsWell(calls[j], more, new, "vote", {"comments", "vote"}, VoteR(f), VoteDue, t, u, VoteN(f))
    BY <1>0, <1>2, <1>3, <1>4, <1>5, <1>6 DEF HearsWell, VoteR, VoteDue, VoteN, ThreadT, RoomGot, MemberGots, PostsGots, CommentsGots, VoteGots
  <2>4. HearsWell(calls[j], more, new, "member", {"members", "join"}, MemberR(f), MemberDue, t, u, MemberN(f))
    BY <1>0, <1>2, <1>3, <1>4, <1>5, <1>6 DEF HearsWell, MemberR, MemberDue, MemberN, ThreadT, RoomGot, MemberGots, PostsGots, CommentsGots, VoteGots
  <2> QED
    BY <2>1, <2>2, <2>3, <2>4 DEF RoomHears
<1>8. /\ calls[j].kind # "comments"
      /\ t.reloading = TRUE => OfKind(more, "comments") = {}
      /\ u.reloading = TRUE <=> t.reloading = TRUE \/ OfKind(more, "comments") # {}
  BY <1>2, <1>3, <1>5 DEF ThreadT
<1>9. RoomGood(page, f, u, Sent(Answered(calls, j, RoomTells), more), new)
  BY <1>1, <1>2, <1>5, <1>6, <1>7, <1>8, RoomHeard
<1> QED
  BY <1>0, <1>2, <1>9 DEF RoomInv

\* A vote has been given.
LEMMA DownvotesGood ==
  ASSUME RoomInv, NEW j \in 1..Len(roomCalls), Downvotes(j)
  PROVE  RoomInv'
<1>0. PICK page, f, t, calls, met, u, more, new :
        /\ page = route.page /\ f = forum /\ t = thread /\ calls = roomCalls /\ met = roomMet
        /\ u = thread' /\ new = roomMet' /\ more = <<>>
  OBVIOUS
<1>1. RoomGood(page, f, t, calls, met) /\ j \in 1..Len(calls)
  BY <1>0 DEF RoomInv
<1>2. /\ calls[j].kind = "vote" /\ calls[j].at = "served" /\ roomCalls' = Sent(Answered(calls, j, RoomTells), more)
      /\ route' = route /\ forum' = f /\ u = [t EXCEPT !.vote = calls[j].got.vote] /\ new = met \union calls[j].late
  BY <1>0 DEF Downvotes, Heard, Unprompted, browserVars
<1>3. RoomRest(page, f, t, calls) /\ t \in ThreadT /\ f \in ForumT
  BY <1>1 DEF RoomGood, RoomRest
<1>4. /\ calls[j].got \in RoomGot("vote") /\ calls[j].deaf \in BOOLEAN
      /\ calls[j].got \in RoomGots
  <2>1. calls[j].got \in RoomGot(calls[j].kind)
    BY <1>1, <1>2, <1>3, RoomCallIs
  <2>2. calls[j].got \in RoomGots /\ calls[j].deaf \in BOOLEAN
    BY <1>1, <1>3, RoomCallIs
  <2> QED
    BY <1>2, <2>1, <2>2
<1>5. RoomMore(more) /\ OfKind(more, "comments") = {}
  BY <1>0, NoRoomCall
<1>6. u \in ThreadT /\ met \subseteq new
  <2>1. u \in ThreadT
    BY <1>2, <1>3, <1>4 DEF ThreadT, RoomGot, MemberGots, PostsGots, CommentsGots, VoteGots
  <2> QED
    BY <1>0, <1>2, <2>1
<1>7. RoomHears(f, calls[j], more, new, t, u)
  <2>1. HearsWell(calls[j], more, new, "posts", {"posts"}, PostsR(f), PostsDue, t, u, PostsN(f))
    BY <1>0, <1>2, <1>3, <1>4, <1>5, <1>6 DEF HearsWell, PostsR, PostsDue, PostsN, ThreadT, RoomGot, MemberGots, PostsGots, CommentsGots, VoteGots
  <2>2. HearsWell(calls[j], more, new, "comments", {"comments"}, CommentsR(f), CommentsDue, t, u, CommentsN(f))
    BY <1>0, <1>2, <1>3, <1>4, <1>5, <1>6 DEF HearsWell, CommentsR, CommentsDue, CommentsN, ThreadT, RoomGot, MemberGots, PostsGots, CommentsGots, VoteGots
  <2>3. HearsWell(calls[j], more, new, "vote", {"comments", "vote"}, VoteR(f), VoteDue, t, u, VoteN(f))
    BY <1>0, <1>2, <1>3, <1>4, <1>5, <1>6 DEF HearsWell, VoteR, VoteDue, VoteN, ThreadT, RoomGot, MemberGots, PostsGots, CommentsGots, VoteGots
  <2>4. HearsWell(calls[j], more, new, "member", {"members", "join"}, MemberR(f), MemberDue, t, u, MemberN(f))
    BY <1>0, <1>2, <1>3, <1>4, <1>5, <1>6 DEF HearsWell, MemberR, MemberDue, MemberN, ThreadT, RoomGot, MemberGots, PostsGots, CommentsGots, VoteGots
  <2> QED
    BY <2>1, <2>2, <2>3, <2>4 DEF RoomHears
<1>8. /\ calls[j].kind # "comments"
      /\ t.reloading = TRUE => OfKind(more, "comments") = {}
      /\ u.reloading = TRUE <=> t.reloading = TRUE \/ OfKind(more, "comments") # {}
  BY <1>2, <1>3, <1>5 DEF ThreadT
<1>9. RoomGood(page, f, u, Sent(Answered(calls, j, RoomTells), more), new)
  BY <1>1, <1>2, <1>5, <1>6, <1>7, <1>8, RoomHeard
<1> QED
  BY <1>0, <1>2, <1>9 DEF RoomInv

\* The user has joined.
LEMMA JoinedGood ==
  ASSUME RoomInv, NEW j \in 1..Len(roomCalls), Joined(j)
  PROVE  RoomInv'
<1>0. PICK page, f, t, calls, met, u, more, new :
        /\ page = route.page /\ f = forum /\ t = thread /\ calls = roomCalls /\ met = roomMet
        /\ u = thread' /\ new = roomMet' /\ more = LoadRoom
  OBVIOUS
<1>1. RoomGood(page, f, t, calls, met) /\ j \in 1..Len(calls)
  BY <1>0 DEF RoomInv
<1>2. /\ calls[j].kind = "join" /\ calls[j].at = "served" /\ roomCalls' = Sent(Answered(calls, j, RoomTells), more)
      /\ route' = route /\ forum' = f /\ u = [t EXCEPT !.member = TRUE] /\ new = met
  BY <1>0 DEF Joined, Heard, Unprompted, browserVars
<1>3. RoomRest(page, f, t, calls) /\ t \in ThreadT /\ f \in ForumT
  BY <1>1 DEF RoomGood, RoomRest
<1>4. /\ calls[j].got \in RoomGot("join") /\ calls[j].deaf \in BOOLEAN
      /\ calls[j].got \in RoomGots
  <2>1. calls[j].got \in RoomGot(calls[j].kind)
    BY <1>1, <1>2, <1>3, RoomCallIs
  <2>2. calls[j].got \in RoomGots /\ calls[j].deaf \in BOOLEAN
    BY <1>1, <1>3, RoomCallIs
  <2> QED
    BY <1>2, <2>1, <2>2
<1>5. /\ RoomMore(more) /\ OfKind(more, "comments") = {}
      /\ Pending(more, MemberDue)
  <2>1. more = <<Call("room", "")>>
    BY <1>0 DEF LoadRoom
  <2>2. "room" \in RoomKinds /\ "" \in RoomArgs /\ "room" # "comments"
    BY DEF RoomKinds, RoomArgs
  <2>3. RoomMore(more)
    BY <2>1, <2>2, RoomCallMade
  <2>4. \A l : OfKind(more, l) = {} <=> "room" # l
    BY <2>1, <2>2, RoomCallMade
  <2>5. \A P : Pending(more, P) <=> <<"room", "sent", FALSE>> \in P
    BY <2>1, <2>2, RoomCallMade
  <2> QED
    BY <2>2, <2>3, <2>4, <2>5 DEF MemberDue
<1>6. u \in ThreadT /\ met \subseteq new
  <2>1. u \in ThreadT
    BY <1>2, <1>3, <1>4 DEF ThreadT, RoomGot, MemberGots, PostsGots, CommentsGots, VoteGots
  <2> QED
    BY <1>0, <1>2, <2>1
<1>7. RoomHears(f, calls[j], more, new, t, u)
  <2>1. HearsWell(calls[j], more, new, "posts", {"posts"}, PostsR(f), PostsDue, t, u, PostsN(f))
    BY <1>0, <1>2, <1>3, <1>4, <1>5, <1>6 DEF HearsWell, PostsR, PostsDue, PostsN, ThreadT, RoomGot, MemberGots, PostsGots, CommentsGots, VoteGots
  <2>2. HearsWell(calls[j], more, new, "comments", {"comments"}, CommentsR(f), CommentsDue, t, u, CommentsN(f))
    BY <1>0, <1>2, <1>3, <1>4, <1>5, <1>6 DEF HearsWell, CommentsR, CommentsDue, CommentsN, ThreadT, RoomGot, MemberGots, PostsGots, CommentsGots, VoteGots
  <2>3. HearsWell(calls[j], more, new, "vote", {"comments", "vote"}, VoteR(f), VoteDue, t, u, VoteN(f))
    BY <1>0, <1>2, <1>3, <1>4, <1>5, <1>6 DEF HearsWell, VoteR, VoteDue, VoteN, ThreadT, RoomGot, MemberGots, PostsGots, CommentsGots, VoteGots
  <2>4. HearsWell(calls[j], more, new, "member", {"members", "join"}, MemberR(f), MemberDue, t, u, MemberN(f))
    BY <1>0, <1>2, <1>3, <1>4, <1>5, <1>6 DEF HearsWell, MemberR, MemberDue, MemberN, ThreadT, RoomGot, MemberGots, PostsGots, CommentsGots, VoteGots
  <2> QED
    BY <2>1, <2>2, <2>3, <2>4 DEF RoomHears
<1>8. /\ calls[j].kind # "comments"
      /\ t.reloading = TRUE => OfKind(more, "comments") = {}
      /\ u.reloading = TRUE <=> t.reloading = TRUE \/ OfKind(more, "comments") # {}
  BY <1>2, <1>3, <1>5 DEF ThreadT
<1>9. RoomGood(page, f, u, Sent(Answered(calls, j, RoomTells), more), new)
  BY <1>1, <1>2, <1>5, <1>6, <1>7, <1>8, RoomHeard
<1> QED
  BY <1>0, <1>2, <1>9 DEF RoomInv

\* A post has been made.
LEMMA PostedGood ==
  ASSUME RoomInv, NEW j \in 1..Len(roomCalls), Posted(j)
  PROVE  RoomInv'
<1>0. PICK page, f, t, calls, met, u, more, new :
        /\ page = route.page /\ f = forum /\ t = thread /\ calls = roomCalls /\ met = roomMet
        /\ u = thread' /\ new = roomMet' /\ more = LoadPosts
  OBVIOUS
<1>1. RoomGood(page, f, t, calls, met) /\ j \in 1..Len(calls)
  BY <1>0 DEF RoomInv
<1>2. /\ calls[j].kind = "post" /\ calls[j].at = "served" /\ roomCalls' = Sent(Answered(calls, j, RoomTells), more)
      /\ route' = route /\ forum' = f /\ u = [t EXCEPT !.dialog = FALSE, !.busy = TRUE] /\ new = met
  BY <1>0 DEF Posted, Heard, Unprompted, browserVars
<1>3. RoomRest(page, f, t, calls) /\ t \in ThreadT /\ f \in ForumT
  BY <1>1 DEF RoomGood, RoomRest
<1>4. /\ calls[j].got \in RoomGot("post") /\ calls[j].deaf \in BOOLEAN
      /\ calls[j].got \in RoomGots
  <2>1. calls[j].got \in RoomGot(calls[j].kind)
    BY <1>1, <1>2, <1>3, RoomCallIs
  <2>2. calls[j].got \in RoomGots /\ calls[j].deaf \in BOOLEAN
    BY <1>1, <1>3, RoomCallIs
  <2> QED
    BY <1>2, <2>1, <2>2
<1>5. /\ RoomMore(more) /\ OfKind(more, "comments") = {}
      /\ Pending(more, PostsDue)
  <2>1. more = <<Call("posts", "")>>
    BY <1>0 DEF LoadPosts
  <2>2. "posts" \in RoomKinds /\ "" \in RoomArgs /\ "posts" # "comments"
    BY DEF RoomKinds, RoomArgs
  <2>3. RoomMore(more)
    BY <2>1, <2>2, RoomCallMade
  <2>4. \A l : OfKind(more, l) = {} <=> "posts" # l
    BY <2>1, <2>2, RoomCallMade
  <2>5. \A P : Pending(more, P) <=> <<"posts", "sent", FALSE>> \in P
    BY <2>1, <2>2, RoomCallMade
  <2> QED
    BY <2>2, <2>3, <2>4, <2>5 DEF PostsDue
<1>6. u \in ThreadT /\ met \subseteq new
  <2>1. u \in ThreadT
    BY <1>2, <1>3, <1>4 DEF ThreadT, RoomGot, MemberGots, PostsGots, CommentsGots, VoteGots
  <2> QED
    BY <1>0, <1>2, <2>1
<1>7. RoomHears(f, calls[j], more, new, t, u)
  <2>1. HearsWell(calls[j], more, new, "posts", {"posts"}, PostsR(f), PostsDue, t, u, PostsN(f))
    BY <1>0, <1>2, <1>3, <1>4, <1>5, <1>6 DEF HearsWell, PostsR, PostsDue, PostsN, ThreadT, RoomGot, MemberGots, PostsGots, CommentsGots, VoteGots
  <2>2. HearsWell(calls[j], more, new, "comments", {"comments"}, CommentsR(f), CommentsDue, t, u, CommentsN(f))
    BY <1>0, <1>2, <1>3, <1>4, <1>5, <1>6 DEF HearsWell, CommentsR, CommentsDue, CommentsN, ThreadT, RoomGot, MemberGots, PostsGots, CommentsGots, VoteGots
  <2>3. HearsWell(calls[j], more, new, "vote", {"comments", "vote"}, VoteR(f), VoteDue, t, u, VoteN(f))
    BY <1>0, <1>2, <1>3, <1>4, <1>5, <1>6 DEF HearsWell, VoteR, VoteDue, VoteN, ThreadT, RoomGot, MemberGots, PostsGots, CommentsGots, VoteGots
  <2>4. HearsWell(calls[j], more, new, "member", {"members", "join"}, MemberR(f), MemberDue, t, u, MemberN(f))
    BY <1>0, <1>2, <1>3, <1>4, <1>5, <1>6 DEF HearsWell, MemberR, MemberDue, MemberN, ThreadT, RoomGot, MemberGots, PostsGots, CommentsGots, VoteGots
  <2> QED
    BY <2>1, <2>2, <2>3, <2>4 DEF RoomHears
<1>8. /\ calls[j].kind # "comments"
      /\ t.reloading = TRUE => OfKind(more, "comments") = {}
      /\ u.reloading = TRUE <=> t.reloading = TRUE \/ OfKind(more, "comments") # {}
  BY <1>2, <1>3, <1>5 DEF ThreadT
<1>9. RoomGood(page, f, u, Sent(Answered(calls, j, RoomTells), more), new)
  BY <1>1, <1>2, <1>5, <1>6, <1>7, <1>8, RoomHeard
<1> QED
  BY <1>0, <1>2, <1>9 DEF RoomInv

\* What the page misses.
LEMMA RoomMissesAre ==
  /\ "posts" \in RoomMisses("posts") /\ "posts" \in RoomMisses("post")
  /\ "comments" \in RoomMisses("comments") /\ "vote" \in RoomMisses("comments")
  /\ "comments" \in RoomMisses("comment") /\ "comments" \in RoomMisses("reply")
  /\ "vote" \in RoomMisses("vote")
  /\ "member" \in RoomMisses("members") /\ "member" \in RoomMisses("join")
<1>1. ASSUME NEW kind, NEW topic, <<kind, topic>> \in RoomTells PROVE topic \in About(RoomTells, kind)
  <2>1. <<kind, topic>>[1] = kind /\ <<kind, topic>>[2] = topic
    OBVIOUS
  <2> QED
    BY <1>1, <2>1 DEF About
<1>2. /\ <<"posts", "posts">> \in RoomTells /\ <<"comments", "comments">> \in RoomTells
      /\ <<"comments", "vote">> \in RoomTells /\ <<"vote", "vote">> \in RoomTells
      /\ <<"members", "member">> \in RoomTells /\ <<"join", "member">> \in RoomTells
  BY DEF RoomTells
<1> QED
  BY <1>1, <1>2 DEF RoomMisses

\* The comments are loaded again.
LEMMA LoadsComments ==
  ASSUME NEW t, t = thread, t \in ThreadT, NEW a, a = LoadComments
  PROVE  /\ RoomMore(a) /\ (OfKind(a, "comments") = {} <=> t.reloading = TRUE)
         /\ t.reloading # TRUE => Pending(a, CommentsDue) /\ Pending(a, VoteDue)
<1>1. CASE t.reloading = TRUE
  <2>1. a = <<>>
    BY <1>1 DEF LoadComments
  <2> QED
    BY <1>1, <2>1, NoRoomCall
<1>2. CASE t.reloading # TRUE
  <2>1. a = <<Call("comments", "")>>
    BY <1>2 DEF LoadComments, ThreadT
  <2>2. "comments" \in RoomKinds /\ "" \in RoomArgs
    BY DEF RoomKinds, RoomArgs
  <2>3. RoomMore(a) /\ (\A l : OfKind(a, l) = {} <=> "comments" # l)
    BY <2>1, <2>2, RoomCallMade
  <2>4. \A P : Pending(a, P) <=> <<"comments", "sent", FALSE>> \in P
    BY <2>1, <2>2, RoomCallMade
  <2> QED
    BY <1>2, <2>3, <2>4 DEF CommentsDue, VoteDue
<1> QED
  BY <1>1, <1>2

\* Calls that fail.
LEMMA MembersFailedGood ==
  ASSUME RoomInv, NEW j \in 1..Len(roomCalls), MembersFailed(j)
  PROVE  RoomInv'
<1>0. PICK page, f, t, calls, met, u, more, new :
        /\ page = route.page /\ f = forum /\ t = thread /\ calls = roomCalls /\ met = roomMet
        /\ u = thread' /\ new = roomMet' /\ more = <<>>
  OBVIOUS
<1>1. RoomGood(page, f, t, calls, met) /\ j \in 1..Len(calls)
  BY <1>0 DEF RoomInv
<1>3. RoomRest(page, f, t, calls) /\ t \in ThreadT /\ f \in ForumT /\ calls \in Seq(RoomCallT)
  BY <1>1 DEF RoomGood, RoomRest
<1>4. calls[j].at \in {"sent", "served"} /\ calls[j].deaf \in BOOLEAN
  BY <1>1, <1>3, RoomCallIs
<1>2. /\ calls[j].kind = "members" /\ calls[j].deaf = FALSE
      /\ roomCalls' = RemoveAt(calls, j)
      /\ route' = route /\ forum' = f /\ u = [t EXCEPT !.member = FALSE] /\ new = met \union RoomMisses("members")
  BY <1>0, <1>4 DEF MembersFailed, Fails, Errs, Unprompted, Failing, browserVars
<1>5. RoomMore(more) /\ OfKind(more, "comments") = {}
  BY <1>0, NoRoomCall
<1>a. roomCalls' = Sent(RemoveAt(calls, j), more)
  <2>1. RemoveAt(calls, j) \in Seq(RoomCallT)
    BY <1>1, <1>3, RemovedCall
  <2> QED
    BY <1>0, <1>2, <2>1, ConcatEmptySeq DEF Sent
<1>6. u \in ThreadT /\ met \subseteq new
  <2>1. u \in ThreadT
    BY <1>2, <1>3 DEF ThreadT
  <2> QED
    BY <1>0, <1>2, <2>1
<1>7. RoomFails(f, calls[j], more, new, t, u)
  <2>1. FailsWell(calls[j], more, new, "posts", {"posts"}, PostsDue, t, u, PostsN(f))
    BY <1>2, <1>3, <1>4, <1>5, <1>6, RoomMissesAre DEF FailsWell, PostsDue, PostsN, ThreadT
  <2>2. FailsWell(calls[j], more, new, "comments", {"comments"}, CommentsDue, t, u, CommentsN(f))
    BY <1>2, <1>3, <1>4, <1>5, <1>6, RoomMissesAre DEF FailsWell, CommentsDue, CommentsN, ThreadT
  <2>3. FailsWell(calls[j], more, new, "vote", {"comments", "vote"}, VoteDue, t, u, VoteN(f))
    BY <1>2, <1>3, <1>4, <1>5, <1>6, RoomMissesAre DEF FailsWell, VoteDue, VoteN, ThreadT
  <2>4. FailsWell(calls[j], more, new, "member", {"members", "join"}, MemberDue, t, u, MemberN(f))
    BY <1>2, <1>3, <1>4, <1>5, <1>6, RoomMissesAre DEF FailsWell, MemberDue, MemberN, ThreadT
  <2> QED
    BY <2>1, <2>2, <2>3, <2>4 DEF RoomFails
<1>8. /\ calls[j].kind # "comments"
      /\ t.reloading = TRUE => OfKind(more, "comments") = {}
      /\ u.reloading = TRUE <=> t.reloading = TRUE \/ OfKind(more, "comments") # {}
  BY <1>2, <1>3, <1>5 DEF ThreadT
<1>9. RoomGood(page, f, u, Sent(RemoveAt(calls, j), more), new)
  BY <1>1, <1>2, <1>5, <1>6, <1>7, <1>8, RoomFailed
<1> QED
  BY <1>0, <1>2, <1>a, <1>9 DEF RoomInv

LEMMA PostsFailedGood ==
  ASSUME RoomInv, NEW j \in 1..Len(roomCalls), PostsFailed(j)
  PROVE  RoomInv'
<1>0. PICK page, f, t, calls, met, u, more, new :
        /\ page = route.page /\ f = forum /\ t = thread /\ calls = roomCalls /\ met = roomMet
        /\ u = thread' /\ new = roomMet' /\ more = <<>>
  OBVIOUS
<1>1. RoomGood(page, f, t, calls, met) /\ j \in 1..Len(calls)
  BY <1>0 DEF RoomInv
<1>3. RoomRest(page, f, t, calls) /\ t \in ThreadT /\ f \in ForumT /\ calls \in Seq(RoomCallT)
  BY <1>1 DEF RoomGood, RoomRest
<1>4. calls[j].at \in {"sent", "served"} /\ calls[j].deaf \in BOOLEAN
  BY <1>1, <1>3, RoomCallIs
<1>2. /\ calls[j].kind = "posts" /\ calls[j].deaf = FALSE
      /\ roomCalls' = RemoveAt(calls, j)
      /\ route' = route /\ forum' = f /\ u = [t EXCEPT !.busy = FALSE] /\ new = met \union RoomMisses("posts")
  BY <1>0, <1>4 DEF PostsFailed, Fails, Errs, Unprompted, Failing, browserVars
<1>5. RoomMore(more) /\ OfKind(more, "comments") = {}
  BY <1>0, NoRoomCall
<1>a. roomCalls' = Sent(RemoveAt(calls, j), more)
  <2>1. RemoveAt(calls, j) \in Seq(RoomCallT)
    BY <1>1, <1>3, RemovedCall
  <2> QED
    BY <1>0, <1>2, <2>1, ConcatEmptySeq DEF Sent
<1>6. u \in ThreadT /\ met \subseteq new
  <2>1. u \in ThreadT
    BY <1>2, <1>3 DEF ThreadT
  <2> QED
    BY <1>0, <1>2, <2>1
<1>7. RoomFails(f, calls[j], more, new, t, u)
  <2>1. FailsWell(calls[j], more, new, "posts", {"posts"}, PostsDue, t, u, PostsN(f))
    BY <1>2, <1>3, <1>4, <1>5, <1>6, RoomMissesAre DEF FailsWell, PostsDue, PostsN, ThreadT
  <2>2. FailsWell(calls[j], more, new, "comments", {"comments"}, CommentsDue, t, u, CommentsN(f))
    BY <1>2, <1>3, <1>4, <1>5, <1>6, RoomMissesAre DEF FailsWell, CommentsDue, CommentsN, ThreadT
  <2>3. FailsWell(calls[j], more, new, "vote", {"comments", "vote"}, VoteDue, t, u, VoteN(f))
    BY <1>2, <1>3, <1>4, <1>5, <1>6, RoomMissesAre DEF FailsWell, VoteDue, VoteN, ThreadT
  <2>4. FailsWell(calls[j], more, new, "member", {"members", "join"}, MemberDue, t, u, MemberN(f))
    BY <1>2, <1>3, <1>4, <1>5, <1>6, RoomMissesAre DEF FailsWell, MemberDue, MemberN, ThreadT
  <2> QED
    BY <2>1, <2>2, <2>3, <2>4 DEF RoomFails
<1>8. /\ calls[j].kind # "comments"
      /\ t.reloading = TRUE => OfKind(more, "comments") = {}
      /\ u.reloading = TRUE <=> t.reloading = TRUE \/ OfKind(more, "comments") # {}
  BY <1>2, <1>3, <1>5 DEF ThreadT
<1>9. RoomGood(page, f, u, Sent(RemoveAt(calls, j), more), new)
  BY <1>1, <1>2, <1>5, <1>6, <1>7, <1>8, RoomFailed
<1> QED
  BY <1>0, <1>2, <1>a, <1>9 DEF RoomInv

LEMMA CommentsFailedGood ==
  ASSUME RoomInv, NEW j \in 1..Len(roomCalls), CommentsFailed(j)
  PROVE  RoomInv'
<1>0. PICK page, f, t, calls, met, u, more, new :
        /\ page = route.page /\ f = forum /\ t = thread /\ calls = roomCalls /\ met = roomMet
        /\ u = thread' /\ new = roomMet' /\ more = <<>>
  OBVIOUS
<1>1. RoomGood(page, f, t, calls, met) /\ j \in 1..Len(calls)
  BY <1>0 DEF RoomInv
<1>3. RoomRest(page, f, t, calls) /\ t \in ThreadT /\ f \in ForumT /\ calls \in Seq(RoomCallT)
  BY <1>1 DEF RoomGood, RoomRest
<1>4. calls[j].at \in {"sent", "served"} /\ calls[j].deaf \in BOOLEAN
  BY <1>1, <1>3, RoomCallIs
<1>2. /\ calls[j].kind = "comments" /\ calls[j].deaf = FALSE
      /\ roomCalls' = RemoveAt(calls, j)
      /\ route' = route /\ forum' = f /\ u = [t EXCEPT !.reloading = FALSE] /\ new = met \union RoomMisses("comments")
  BY <1>0, <1>4 DEF CommentsFailed, Fails, Errs, Unprompted, Failing, browserVars
<1>5. RoomMore(more) /\ OfKind(more, "comments") = {}
  BY <1>0, NoRoomCall
<1>a. roomCalls' = Sent(RemoveAt(calls, j), more)
  <2>1. RemoveAt(calls, j) \in Seq(RoomCallT)
    BY <1>1, <1>3, RemovedCall
  <2> QED
    BY <1>0, <1>2, <2>1, ConcatEmptySeq DEF Sent
<1>6. u \in ThreadT /\ met \subseteq new
  <2>1. u \in ThreadT
    BY <1>2, <1>3 DEF ThreadT
  <2> QED
    BY <1>0, <1>2, <2>1
<1>7. RoomFails(f, calls[j], more, new, t, u)
  <2>1. FailsWell(calls[j], more, new, "posts", {"posts"}, PostsDue, t, u, PostsN(f))
    BY <1>2, <1>3, <1>4, <1>5, <1>6, RoomMissesAre DEF FailsWell, PostsDue, PostsN, ThreadT
  <2>2. FailsWell(calls[j], more, new, "comments", {"comments"}, CommentsDue, t, u, CommentsN(f))
    BY <1>2, <1>3, <1>4, <1>5, <1>6, RoomMissesAre DEF FailsWell, CommentsDue, CommentsN, ThreadT
  <2>3. FailsWell(calls[j], more, new, "vote", {"comments", "vote"}, VoteDue, t, u, VoteN(f))
    BY <1>2, <1>3, <1>4, <1>5, <1>6, RoomMissesAre DEF FailsWell, VoteDue, VoteN, ThreadT
  <2>4. FailsWell(calls[j], more, new, "member", {"members", "join"}, MemberDue, t, u, MemberN(f))
    BY <1>2, <1>3, <1>4, <1>5, <1>6, RoomMissesAre DEF FailsWell, MemberDue, MemberN, ThreadT
  <2> QED
    BY <2>1, <2>2, <2>3, <2>4 DEF RoomFails
<1>8. calls[j].kind = "comments" /\ OfKind(more, "comments") = {} /\ u.reloading # TRUE
  BY <1>2, <1>3, <1>5 DEF ThreadT
<1>9. RoomGood(page, f, u, Sent(RemoveAt(calls, j), more), new)
  BY <1>1, <1>2, <1>5, <1>6, <1>7, <1>8, RoomFailed
<1> QED
  BY <1>0, <1>2, <1>a, <1>9 DEF RoomInv

LEMMA CommentFailedGood ==
  ASSUME RoomInv, NEW j \in 1..Len(roomCalls), CommentFailed(j)
  PROVE  RoomInv'
<1>0. PICK page, f, t, calls, met, u, more, new :
        /\ page = route.page /\ f = forum /\ t = thread /\ calls = roomCalls /\ met = roomMet
        /\ u = thread' /\ new = roomMet' /\ more = <<>>
  OBVIOUS
<1>1. RoomGood(page, f, t, calls, met) /\ j \in 1..Len(calls)
  BY <1>0 DEF RoomInv
<1>3. RoomRest(page, f, t, calls) /\ t \in ThreadT /\ f \in ForumT /\ calls \in Seq(RoomCallT)
  BY <1>1 DEF RoomGood, RoomRest
<1>4. calls[j].at \in {"sent", "served"} /\ calls[j].deaf \in BOOLEAN
  BY <1>1, <1>3, RoomCallIs
<1>2. /\ calls[j].kind = "comment" /\ calls[j].deaf = FALSE
      /\ roomCalls' = RemoveAt(calls, j)
      /\ route' = route /\ forum' = f /\ u = t /\ new = met \union RoomMisses("comment")
  BY <1>0, <1>4 DEF CommentFailed, Fails, Errs, Unprompted, Failing, browserVars
<1>5. RoomMore(more) /\ OfKind(more, "comments") = {}
  BY <1>0, NoRoomCall
<1>a. roomCalls' = Sent(RemoveAt(calls, j), more)
  <2>1. RemoveAt(calls, j) \in Seq(RoomCallT)
    BY <1>1, <1>3, RemovedCall
  <2> QED
    BY <1>0, <1>2, <2>1, ConcatEmptySeq DEF Sent
<1>6. u \in ThreadT /\ met \subseteq new
  <2>1. u \in ThreadT
    BY <1>2, <1>3 DEF ThreadT
  <2> QED
    BY <1>0, <1>2, <2>1
<1>7. RoomFails(f, calls[j], more, new, t, u)
  <2>1. FailsWell(calls[j], more, new, "posts", {"posts"}, PostsDue, t, u, PostsN(f))
    BY <1>2, <1>3, <1>4, <1>5, <1>6, RoomMissesAre DEF FailsWell, PostsDue, PostsN, ThreadT
  <2>2. FailsWell(calls[j], more, new, "comments", {"comments"}, CommentsDue, t, u, CommentsN(f))
    BY <1>2, <1>3, <1>4, <1>5, <1>6, RoomMissesAre DEF FailsWell, CommentsDue, CommentsN, ThreadT
  <2>3. FailsWell(calls[j], more, new, "vote", {"comments", "vote"}, VoteDue, t, u, VoteN(f))
    BY <1>2, <1>3, <1>4, <1>5, <1>6, RoomMissesAre DEF FailsWell, VoteDue, VoteN, ThreadT
  <2>4. FailsWell(calls[j], more, new, "member", {"members", "join"}, MemberDue, t, u, MemberN(f))
    BY <1>2, <1>3, <1>4, <1>5, <1>6, RoomMissesAre DEF FailsWell, MemberDue, MemberN, ThreadT
  <2> QED
    BY <2>1, <2>2, <2>3, <2>4 DEF RoomFails
<1>8. /\ calls[j].kind # "comments"
      /\ t.reloading = TRUE => OfKind(more, "comments") = {}
      /\ u.reloading = TRUE <=> t.reloading = TRUE \/ OfKind(more, "comments") # {}
  BY <1>2, <1>3, <1>5 DEF ThreadT
<1>9. RoomGood(page, f, u, Sent(RemoveAt(calls, j), more), new)
  BY <1>1, <1>2, <1>5, <1>6, <1>7, <1>8, RoomFailed
<1> QED
  BY <1>0, <1>2, <1>a, <1>9 DEF RoomInv

LEMMA ReplyFailedGood ==
  ASSUME RoomInv, NEW j \in 1..Len(roomCalls), ReplyFailed(j)
  PROVE  RoomInv'
<1>0. PICK page, f, t, calls, met, u, more, new :
        /\ page = route.page /\ f = forum /\ t = thread /\ calls = roomCalls /\ met = roomMet
        /\ u = thread' /\ new = roomMet' /\ more = <<>>
  OBVIOUS
<1>1. RoomGood(page, f, t, calls, met) /\ j \in 1..Len(calls)
  BY <1>0 DEF RoomInv
<1>3. RoomRest(page, f, t, calls) /\ t \in ThreadT /\ f \in ForumT /\ calls \in Seq(RoomCallT)
  BY <1>1 DEF RoomGood, RoomRest
<1>4. calls[j].at \in {"sent", "served"} /\ calls[j].deaf \in BOOLEAN
  BY <1>1, <1>3, RoomCallIs
<1>2. /\ calls[j].kind = "reply" /\ calls[j].deaf = FALSE
      /\ roomCalls' = RemoveAt(calls, j)
      /\ route' = route /\ forum' = f /\ u = t /\ new = met \union RoomMisses("reply")
  BY <1>0, <1>4 DEF ReplyFailed, Fails, Errs, Unprompted, Failing, browserVars
<1>5. RoomMore(more) /\ OfKind(more, "comments") = {}
  BY <1>0, NoRoomCall
<1>a. roomCalls' = Sent(RemoveAt(calls, j), more)
  <2>1. RemoveAt(calls, j) \in Seq(RoomCallT)
    BY <1>1, <1>3, RemovedCall
  <2> QED
    BY <1>0, <1>2, <2>1, ConcatEmptySeq DEF Sent
<1>6. u \in ThreadT /\ met \subseteq new
  <2>1. u \in ThreadT
    BY <1>2, <1>3 DEF ThreadT
  <2> QED
    BY <1>0, <1>2, <2>1
<1>7. RoomFails(f, calls[j], more, new, t, u)
  <2>1. FailsWell(calls[j], more, new, "posts", {"posts"}, PostsDue, t, u, PostsN(f))
    BY <1>2, <1>3, <1>4, <1>5, <1>6, RoomMissesAre DEF FailsWell, PostsDue, PostsN, ThreadT
  <2>2. FailsWell(calls[j], more, new, "comments", {"comments"}, CommentsDue, t, u, CommentsN(f))
    BY <1>2, <1>3, <1>4, <1>5, <1>6, RoomMissesAre DEF FailsWell, CommentsDue, CommentsN, ThreadT
  <2>3. FailsWell(calls[j], more, new, "vote", {"comments", "vote"}, VoteDue, t, u, VoteN(f))
    BY <1>2, <1>3, <1>4, <1>5, <1>6, RoomMissesAre DEF FailsWell, VoteDue, VoteN, ThreadT
  <2>4. FailsWell(calls[j], more, new, "member", {"members", "join"}, MemberDue, t, u, MemberN(f))
    BY <1>2, <1>3, <1>4, <1>5, <1>6, RoomMissesAre DEF FailsWell, MemberDue, MemberN, ThreadT
  <2> QED
    BY <2>1, <2>2, <2>3, <2>4 DEF RoomFails
<1>8. /\ calls[j].kind # "comments"
      /\ t.reloading = TRUE => OfKind(more, "comments") = {}
      /\ u.reloading = TRUE <=> t.reloading = TRUE \/ OfKind(more, "comments") # {}
  BY <1>2, <1>3, <1>5 DEF ThreadT
<1>9. RoomGood(page, f, u, Sent(RemoveAt(calls, j), more), new)
  BY <1>1, <1>2, <1>5, <1>6, <1>7, <1>8, RoomFailed
<1> QED
  BY <1>0, <1>2, <1>a, <1>9 DEF RoomInv

LEMMA JoinFailedGood ==
  ASSUME RoomInv, NEW j \in 1..Len(roomCalls), JoinFailed(j)
  PROVE  RoomInv'
<1>0. PICK page, f, t, calls, met, u, more, new :
        /\ page = route.page /\ f = forum /\ t = thread /\ calls = roomCalls /\ met = roomMet
        /\ u = thread' /\ new = roomMet' /\ more = <<>>
  OBVIOUS
<1>1. RoomGood(page, f, t, calls, met) /\ j \in 1..Len(calls)
  BY <1>0 DEF RoomInv
<1>3. RoomRest(page, f, t, calls) /\ t \in ThreadT /\ f \in ForumT /\ calls \in Seq(RoomCallT)
  BY <1>1 DEF RoomGood, RoomRest
<1>4. calls[j].at \in {"sent", "served"} /\ calls[j].deaf \in BOOLEAN
  BY <1>1, <1>3, RoomCallIs
<1>2. /\ calls[j].kind = "join" /\ calls[j].deaf = FALSE
      /\ roomCalls' = RemoveAt(calls, j)
      /\ route' = route /\ forum' = f /\ u = t /\ new = met \union RoomMisses("join")
  BY <1>0, <1>4 DEF JoinFailed, Fails, Errs, Unprompted, Failing, browserVars
<1>5. RoomMore(more) /\ OfKind(more, "comments") = {}
  BY <1>0, NoRoomCall
<1>a. roomCalls' = Sent(RemoveAt(calls, j), more)
  <2>1. RemoveAt(calls, j) \in Seq(RoomCallT)
    BY <1>1, <1>3, RemovedCall
  <2> QED
    BY <1>0, <1>2, <2>1, ConcatEmptySeq DEF Sent
<1>6. u \in ThreadT /\ met \subseteq new
  <2>1. u \in ThreadT
    BY <1>2, <1>3 DEF ThreadT
  <2> QED
    BY <1>0, <1>2, <2>1
<1>7. RoomFails(f, calls[j], more, new, t, u)
  <2>1. FailsWell(calls[j], more, new, "posts", {"posts"}, PostsDue, t, u, PostsN(f))
    BY <1>2, <1>3, <1>4, <1>5, <1>6, RoomMissesAre DEF FailsWell, PostsDue, PostsN, ThreadT
  <2>2. FailsWell(calls[j], more, new, "comments", {"comments"}, CommentsDue, t, u, CommentsN(f))
    BY <1>2, <1>3, <1>4, <1>5, <1>6, RoomMissesAre DEF FailsWell, CommentsDue, CommentsN, ThreadT
  <2>3. FailsWell(calls[j], more, new, "vote", {"comments", "vote"}, VoteDue, t, u, VoteN(f))
    BY <1>2, <1>3, <1>4, <1>5, <1>6, RoomMissesAre DEF FailsWell, VoteDue, VoteN, ThreadT
  <2>4. FailsWell(calls[j], more, new, "member", {"members", "join"}, MemberDue, t, u, MemberN(f))
    BY <1>2, <1>3, <1>4, <1>5, <1>6, RoomMissesAre DEF FailsWell, MemberDue, MemberN, ThreadT
  <2> QED
    BY <2>1, <2>2, <2>3, <2>4 DEF RoomFails
<1>8. /\ calls[j].kind # "comments"
      /\ t.reloading = TRUE => OfKind(more, "comments") = {}
      /\ u.reloading = TRUE <=> t.reloading = TRUE \/ OfKind(more, "comments") # {}
  BY <1>2, <1>3, <1>5 DEF ThreadT
<1>9. RoomGood(page, f, u, Sent(RemoveAt(calls, j), more), new)
  BY <1>1, <1>2, <1>5, <1>6, <1>7, <1>8, RoomFailed
<1> QED
  BY <1>0, <1>2, <1>a, <1>9 DEF RoomInv

LEMMA PostFailedGood ==
  ASSUME RoomInv, NEW j \in 1..Len(roomCalls), PostFailed(j)
  PROVE  RoomInv'
<1>0. PICK page, f, t, calls, met, u, more, new :
        /\ page = route.page /\ f = forum /\ t = thread /\ calls = roomCalls /\ met = roomMet
        /\ u = thread' /\ new = roomMet' /\ more = <<>>
  OBVIOUS
<1>1. RoomGood(page, f, t, calls, met) /\ j \in 1..Len(calls)
  BY <1>0 DEF RoomInv
<1>3. RoomRest(page, f, t, calls) /\ t \in ThreadT /\ f \in ForumT /\ calls \in Seq(RoomCallT)
  BY <1>1 DEF RoomGood, RoomRest
<1>4. calls[j].at \in {"sent", "served"} /\ calls[j].deaf \in BOOLEAN
  BY <1>1, <1>3, RoomCallIs
<1>2. /\ calls[j].kind = "post" /\ calls[j].deaf = FALSE
      /\ roomCalls' = RemoveAt(calls, j)
      /\ route' = route /\ forum' = f /\ u = t /\ new = met \union RoomMisses("post")
  BY <1>0, <1>4 DEF PostFailed, Fails, Errs, Unprompted, Failing, browserVars
<1>5. RoomMore(more) /\ OfKind(more, "comments") = {}
  BY <1>0, NoRoomCall
<1>a. roomCalls' = Sent(RemoveAt(calls, j), more)
  <2>1. RemoveAt(calls, j) \in Seq(RoomCallT)
    BY <1>1, <1>3, RemovedCall
  <2> QED
    BY <1>0, <1>2, <2>1, ConcatEmptySeq DEF Sent
<1>6. u \in ThreadT /\ met \subseteq new
  <2>1. u \in ThreadT
    BY <1>2, <1>3 DEF ThreadT
  <2> QED
    BY <1>0, <1>2, <2>1
<1>7. RoomFails(f, calls[j], more, new, t, u)
  <2>1. FailsWell(calls[j], more, new, "posts", {"posts"}, PostsDue, t, u, PostsN(f))
    BY <1>2, <1>3, <1>4, <1>5, <1>6, RoomMissesAre DEF FailsWell, PostsDue, PostsN, ThreadT
  <2>2. FailsWell(calls[j], more, new, "comments", {"comments"}, CommentsDue, t, u, CommentsN(f))
    BY <1>2, <1>3, <1>4, <1>5, <1>6, RoomMissesAre DEF FailsWell, CommentsDue, CommentsN, ThreadT
  <2>3. FailsWell(calls[j], more, new, "vote", {"comments", "vote"}, VoteDue, t, u, VoteN(f))
    BY <1>2, <1>3, <1>4, <1>5, <1>6, RoomMissesAre DEF FailsWell, VoteDue, VoteN, ThreadT
  <2>4. FailsWell(calls[j], more, new, "member", {"members", "join"}, MemberDue, t, u, MemberN(f))
    BY <1>2, <1>3, <1>4, <1>5, <1>6, RoomMissesAre DEF FailsWell, MemberDue, MemberN, ThreadT
  <2> QED
    BY <2>1, <2>2, <2>3, <2>4 DEF RoomFails
<1>8. /\ calls[j].kind # "comments"
      /\ t.reloading = TRUE => OfKind(more, "comments") = {}
      /\ u.reloading = TRUE <=> t.reloading = TRUE \/ OfKind(more, "comments") # {}
  BY <1>2, <1>3, <1>5 DEF ThreadT
<1>9. RoomGood(page, f, u, Sent(RemoveAt(calls, j), more), new)
  BY <1>1, <1>2, <1>5, <1>6, <1>7, <1>8, RoomFailed
<1> QED
  BY <1>0, <1>2, <1>a, <1>9 DEF RoomInv

\* What the vote is now is read again.
LEMMA VoteFailedGood ==
  ASSUME RoomInv, NEW j \in 1..Len(roomCalls), VoteFailed(j)
  PROVE  RoomInv'
<1>0. PICK page, f, t, calls, met, u, more, new :
        /\ page = route.page /\ f = forum /\ t = thread /\ calls = roomCalls /\ met = roomMet
        /\ u = thread' /\ new = roomMet' /\ more = LoadComments
  OBVIOUS
<1>1. RoomGood(page, f, t, calls, met) /\ j \in 1..Len(calls)
  BY <1>0 DEF RoomInv
<1>3. RoomRest(page, f, t, calls) /\ t \in ThreadT /\ f \in ForumT /\ calls \in Seq(RoomCallT)
  BY <1>1 DEF RoomGood, RoomRest
<1>4. calls[j].at \in {"sent", "served"} /\ calls[j].deaf \in BOOLEAN
  BY <1>1, <1>3, RoomCallIs
<1>2. /\ calls[j].kind = "vote" /\ calls[j].deaf = FALSE
      /\ roomCalls' = Sent(RemoveAt(calls, j), more)
      /\ route' = route /\ forum' = f /\ u = [t EXCEPT !.reloading = TRUE] /\ new = (IF t.reloading THEN met \union {"vote"} ELSE met)
  BY <1>0, <1>4 DEF VoteFailed, VoteFailed, Errs, Unprompted, Failing, browserVars
<1>5. /\ RoomMore(more)
      /\ OfKind(more, "comments") = {} <=> t.reloading = TRUE
      /\ t.reloading # TRUE => Pending(more, CommentsDue) /\ Pending(more, VoteDue)
  BY <1>0, <1>3, LoadsComments
<1>a. roomCalls' = Sent(RemoveAt(calls, j), more)
  BY <1>2
<1>6. u \in ThreadT /\ met \subseteq new
  <2>1. u \in ThreadT
    BY <1>2, <1>3 DEF ThreadT
  <2> QED
    BY <1>0, <1>2, <2>1
<1>7. RoomFails(f, calls[j], more, new, t, u)
  <2>1. FailsWell(calls[j], more, new, "posts", {"posts"}, PostsDue, t, u, PostsN(f))
    BY <1>2, <1>3, <1>4, <1>5, <1>6, RoomMissesAre DEF FailsWell, PostsDue, PostsN, ThreadT
  <2>2. FailsWell(calls[j], more, new, "comments", {"comments"}, CommentsDue, t, u, CommentsN(f))
    BY <1>2, <1>3, <1>4, <1>5, <1>6, RoomMissesAre DEF FailsWell, CommentsDue, CommentsN, ThreadT
  <2>3. FailsWell(calls[j], more, new, "vote", {"comments", "vote"}, VoteDue, t, u, VoteN(f))
    BY <1>2, <1>3, <1>4, <1>5, <1>6, RoomMissesAre DEF FailsWell, VoteDue, VoteN, ThreadT
  <2>4. FailsWell(calls[j], more, new, "member", {"members", "join"}, MemberDue, t, u, MemberN(f))
    BY <1>2, <1>3, <1>4, <1>5, <1>6, RoomMissesAre DEF FailsWell, MemberDue, MemberN, ThreadT
  <2> QED
    BY <2>1, <2>2, <2>3, <2>4 DEF RoomFails
<1>8. /\ calls[j].kind # "comments"
      /\ t.reloading = TRUE => OfKind(more, "comments") = {}
      /\ u.reloading = TRUE <=> t.reloading = TRUE \/ OfKind(more, "comments") # {}
  BY <1>2, <1>3, <1>5 DEF ThreadT
<1>9. RoomGood(page, f, u, Sent(RemoveAt(calls, j), more), new)
  BY <1>1, <1>2, <1>5, <1>6, <1>7, <1>8, RoomFailed
<1> QED
  BY <1>0, <1>2, <1>a, <1>9 DEF RoomInv

\* What the server writes and says.
\* The room is read.
LEMMA GetRoomByIdGood ==
  ASSUME RoomInv, NEW j \in 1..Len(roomCalls), GetRoomById(j)
  PROVE  RoomInv'
<1>0. PICK page, f, t, calls, met, g, new, got :
        /\ page = route.page /\ f = forum /\ t = thread /\ calls = roomCalls /\ met = roomMet
        /\ g = forum' /\ new = roomMet' /\ got = <<>>
  OBVIOUS
<1>1. RoomGood(page, f, t, calls, met) /\ j \in 1..Len(calls)
  BY <1>0 DEF RoomInv
<1>2. RoomRest(page, f, t, calls) /\ t \in ThreadT /\ f \in ForumT /\ f.mine \subseteq f.comments
  BY <1>1 DEF RoomGood, RoomRest
<1>3. calls[j].deaf \in BOOLEAN /\ calls[j].arg \in RoomArgs
  BY <1>1, <1>2, RoomCallIs
<1>4. /\ calls[j].at = "sent" /\ calls[j].kind = "room"
      /\ g = f /\ route' = route /\ thread' = t
      /\ calls[j].deaf = FALSE => roomCalls' = Served(calls, j, got) /\ new = met
      /\ calls[j].deaf = TRUE => roomCalls' = RemoveAt(calls, j) /\ new = met \union RoomMisses(calls[j].kind)
  BY <1>0 DEF GetRoomById, Serve, Unprompted, browserVars
<1>5. g \in ForumT /\ g.mine \subseteq g.comments
  BY <1>2, <1>4 DEF ForumT
<1>6. got \in RoomGots /\ got \in RoomGot(calls[j].kind)
  BY <1>0, <1>2, <1>4 DEF RoomGots, RoomGot, ForumT, MemberGots, PostsGots, CommentsGots, VoteGots
<1>7. /\ PostsR(g) = PostsR(f) /\ PostsN(g) = PostsN(f)
      /\ CommentsR(g) = CommentsR(f) /\ CommentsN(g) = CommentsN(f)
      /\ VoteR(g) = VoteR(f) /\ VoteN(g) = VoteN(f)
      /\ MemberR(g) = MemberR(f) /\ MemberN(g) = MemberN(f)
  BY <1>2, <1>4 DEF ForumT, PostsR, PostsN, CommentsR, CommentsN, VoteR, VoteN, MemberR, MemberN
<1>8. CASE calls[j].deaf = FALSE
  <2>1. RoomServes(f, g, calls, calls[j], got, t)
    <3>1. ServesWell(calls, calls[j], got, {"posts"}, PostsR(f), PostsR(g), PostsDue, t, PostsN(f), PostsN(g))
      BY <1>4, <1>7, <1>8 DEF ServesWell, PostsDue
    <3>2. ServesWell(calls, calls[j], got, {"comments"}, CommentsR(f), CommentsR(g), CommentsDue, t, CommentsN(f), CommentsN(g))
      BY <1>4, <1>7, <1>8 DEF ServesWell, CommentsDue
    <3>3. ServesWell(calls, calls[j], got, {"comments", "vote"}, VoteR(f), VoteR(g), VoteDue, t, VoteN(f), VoteN(g))
      BY <1>4, <1>7, <1>8 DEF ServesWell, VoteDue
    <3>4. ServesWell(calls, calls[j], got, {"members", "join"}, MemberR(f), MemberR(g), MemberDue, t, MemberN(f), MemberN(g))
      BY <1>4, <1>7, <1>8 DEF ServesWell, MemberDue
    <3> QED
      BY <3>1, <3>2, <3>3, <3>4 DEF RoomServes
  <2>2. RoomGood(page, g, t, Served(calls, j, got), new)
    BY <1>1, <1>4, <1>5, <1>6, <1>8, <2>1, RoomServed
  <2> QED
    BY <1>0, <1>4, <1>8, <2>2 DEF RoomInv
<1>9. CASE calls[j].deaf = TRUE
  <2>1. RoomServesDeaf(f, g, calls, calls[j], new, t)
    <3>1. DeafWell(calls, calls[j], new, "posts", {"posts"}, PostsR(f), PostsR(g), PostsDue, t, PostsN(f), PostsN(g))
      BY <1>7, <1>9 DEF DeafWell, PostsDue
    <3>2. DeafWell(calls, calls[j], new, "comments", {"comments"}, CommentsR(f), CommentsR(g), CommentsDue, t, CommentsN(f), CommentsN(g))
      BY <1>7, <1>9 DEF DeafWell, CommentsDue
    <3>3. DeafWell(calls, calls[j], new, "vote", {"comments", "vote"}, VoteR(f), VoteR(g), VoteDue, t, VoteN(f), VoteN(g))
      BY <1>7, <1>9 DEF DeafWell, VoteDue
    <3>4. DeafWell(calls, calls[j], new, "member", {"members", "join"}, MemberR(f), MemberR(g), MemberDue, t, MemberN(f), MemberN(g))
      BY <1>7, <1>9 DEF DeafWell, MemberDue
    <3> QED
      BY <3>1, <3>2, <3>3, <3>4 DEF RoomServesDeaf
  <2>2. met \subseteq new
    BY <1>4, <1>9
  <2>3. RoomGood(page, g, t, RemoveAt(calls, j), new)
    BY <1>1, <1>4, <1>5, <1>9, <2>1, <2>2, RoomServedDeaf
  <2> QED
    BY <1>0, <1>4, <1>9, <2>3 DEF RoomInv
<1> QED
  BY <1>3, <1>8, <1>9

\* The members are read.
LEMMA GetRoomMembersGood ==
  ASSUME RoomInv, NEW j \in 1..Len(roomCalls), GetRoomMembers(j)
  PROVE  RoomInv'
<1>0. PICK page, f, t, calls, met, g, new, got :
        /\ page = route.page /\ f = forum /\ t = thread /\ calls = roomCalls /\ met = roomMet
        /\ g = forum' /\ new = roomMet' /\ got = [member |-> forum.member]
  OBVIOUS
<1>1. RoomGood(page, f, t, calls, met) /\ j \in 1..Len(calls)
  BY <1>0 DEF RoomInv
<1>2. RoomRest(page, f, t, calls) /\ t \in ThreadT /\ f \in ForumT /\ f.mine \subseteq f.comments
  BY <1>1 DEF RoomGood, RoomRest
<1>3. calls[j].deaf \in BOOLEAN /\ calls[j].arg \in RoomArgs
  BY <1>1, <1>2, RoomCallIs
<1>4. /\ calls[j].at = "sent" /\ calls[j].kind = "members"
      /\ g = f /\ route' = route /\ thread' = t
      /\ calls[j].deaf = FALSE => roomCalls' = Served(calls, j, got) /\ new = met
      /\ calls[j].deaf = TRUE => roomCalls' = RemoveAt(calls, j) /\ new = met \union RoomMisses(calls[j].kind)
  BY <1>0 DEF GetRoomMembers, Serve, Unprompted, browserVars
<1>5. g \in ForumT /\ g.mine \subseteq g.comments
  BY <1>2, <1>4 DEF ForumT
<1>6. got \in RoomGots /\ got \in RoomGot(calls[j].kind)
  BY <1>0, <1>2, <1>4 DEF RoomGots, RoomGot, ForumT, MemberGots, PostsGots, CommentsGots, VoteGots
<1>7. /\ PostsR(g) = PostsR(f) /\ PostsN(g) = PostsN(f)
      /\ CommentsR(g) = CommentsR(f) /\ CommentsN(g) = CommentsN(f)
      /\ VoteR(g) = VoteR(f) /\ VoteN(g) = VoteN(f)
      /\ MemberR(g) = MemberR(f) /\ MemberN(g) = MemberN(f)
  BY <1>2, <1>4 DEF ForumT, PostsR, PostsN, CommentsR, CommentsN, VoteR, VoteN, MemberR, MemberN
<1>8. CASE calls[j].deaf = FALSE
  <2>1. RoomServes(f, g, calls, calls[j], got, t)
    <3>1. ServesWell(calls, calls[j], got, {"posts"}, PostsR(f), PostsR(g), PostsDue, t, PostsN(f), PostsN(g))
      BY <1>4, <1>7, <1>8 DEF ServesWell, PostsDue
    <3>2. ServesWell(calls, calls[j], got, {"comments"}, CommentsR(f), CommentsR(g), CommentsDue, t, CommentsN(f), CommentsN(g))
      BY <1>4, <1>7, <1>8 DEF ServesWell, CommentsDue
    <3>3. ServesWell(calls, calls[j], got, {"comments", "vote"}, VoteR(f), VoteR(g), VoteDue, t, VoteN(f), VoteN(g))
      BY <1>4, <1>7, <1>8 DEF ServesWell, VoteDue
    <3>4. ServesWell(calls, calls[j], got, {"members", "join"}, MemberR(f), MemberR(g), MemberDue, t, MemberN(f), MemberN(g))
      BY <1>0, <1>2, <1>4, <1>6, <1>8 DEF ServesWell, MemberR, RoomKinds, RoomGots, ForumT
    <3> QED
      BY <3>1, <3>2, <3>3, <3>4 DEF RoomServes
  <2>2. RoomGood(page, g, t, Served(calls, j, got), new)
    BY <1>1, <1>4, <1>5, <1>6, <1>8, <2>1, RoomServed
  <2> QED
    BY <1>0, <1>4, <1>8, <2>2 DEF RoomInv
<1>9. CASE calls[j].deaf = TRUE
  <2>1. RoomServesDeaf(f, g, calls, calls[j], new, t)
    <3>1. DeafWell(calls, calls[j], new, "posts", {"posts"}, PostsR(f), PostsR(g), PostsDue, t, PostsN(f), PostsN(g))
      BY <1>7, <1>9 DEF DeafWell, PostsDue
    <3>2. DeafWell(calls, calls[j], new, "comments", {"comments"}, CommentsR(f), CommentsR(g), CommentsDue, t, CommentsN(f), CommentsN(g))
      BY <1>7, <1>9 DEF DeafWell, CommentsDue
    <3>3. DeafWell(calls, calls[j], new, "vote", {"comments", "vote"}, VoteR(f), VoteR(g), VoteDue, t, VoteN(f), VoteN(g))
      BY <1>7, <1>9 DEF DeafWell, VoteDue
    <3>4. DeafWell(calls, calls[j], new, "member", {"members", "join"}, MemberR(f), MemberR(g), MemberDue, t, MemberN(f), MemberN(g))
      BY <1>7, <1>9 DEF DeafWell, MemberDue
    <3> QED
      BY <3>1, <3>2, <3>3, <3>4 DEF RoomServesDeaf
  <2>2. met \subseteq new
    BY <1>4, <1>9
  <2>3. RoomGood(page, g, t, RemoveAt(calls, j), new)
    BY <1>1, <1>4, <1>5, <1>9, <2>1, <2>2, RoomServedDeaf
  <2> QED
    BY <1>0, <1>4, <1>9, <2>3 DEF RoomInv
<1> QED
  BY <1>3, <1>8, <1>9

\* The posts are read.
LEMMA GetPostsByRoomGood ==
  ASSUME RoomInv, NEW j \in 1..Len(roomCalls), GetPostsByRoom(j)
  PROVE  RoomInv'
<1>0. PICK page, f, t, calls, met, g, new, got :
        /\ page = route.page /\ f = forum /\ t = thread /\ calls = roomCalls /\ met = roomMet
        /\ g = forum' /\ new = roomMet' /\ got = PostsByRoom
  OBVIOUS
<1>1. RoomGood(page, f, t, calls, met) /\ j \in 1..Len(calls)
  BY <1>0 DEF RoomInv
<1>2. RoomRest(page, f, t, calls) /\ t \in ThreadT /\ f \in ForumT /\ f.mine \subseteq f.comments
  BY <1>1 DEF RoomGood, RoomRest
<1>3. calls[j].deaf \in BOOLEAN /\ calls[j].arg \in RoomArgs
  BY <1>1, <1>2, RoomCallIs
<1>4. /\ calls[j].at = "sent" /\ calls[j].kind = "posts"
      /\ g = f /\ route' = route /\ thread' = t
      /\ calls[j].deaf = FALSE => roomCalls' = Served(calls, j, got) /\ new = met
      /\ calls[j].deaf = TRUE => roomCalls' = RemoveAt(calls, j) /\ new = met \union RoomMisses(calls[j].kind)
  BY <1>0 DEF GetPostsByRoom, Serve, Unprompted, browserVars, PostsByRoom
<1>5. g \in ForumT /\ g.mine \subseteq g.comments
  BY <1>2, <1>4 DEF ForumT
<1>6. got \in RoomGots /\ got \in RoomGot(calls[j].kind)
  BY <1>0, <1>2, <1>4, NewestAre DEF RoomGots, RoomGot, ForumT, MemberGots, PostsGots, CommentsGots, VoteGots, PostsByRoom
<1>7. /\ PostsR(g) = PostsR(f) /\ PostsN(g) = PostsN(f)
      /\ CommentsR(g) = CommentsR(f) /\ CommentsN(g) = CommentsN(f)
      /\ VoteR(g) = VoteR(f) /\ VoteN(g) = VoteN(f)
      /\ MemberR(g) = MemberR(f) /\ MemberN(g) = MemberN(f)
  BY <1>2, <1>4 DEF ForumT, PostsR, PostsN, CommentsR, CommentsN, VoteR, VoteN, MemberR, MemberN
<1>8. CASE calls[j].deaf = FALSE
  <2>1. RoomServes(f, g, calls, calls[j], got, t)
    <3>1. ServesWell(calls, calls[j], got, {"posts"}, PostsR(f), PostsR(g), PostsDue, t, PostsN(f), PostsN(g))
      BY <1>0, <1>2, <1>4, <1>6, <1>8 DEF ServesWell, PostsR, RoomKinds, RoomGots, ForumT, PostsByRoom
    <3>2. ServesWell(calls, calls[j], got, {"comments"}, CommentsR(f), CommentsR(g), CommentsDue, t, CommentsN(f), CommentsN(g))
      BY <1>4, <1>7, <1>8 DEF ServesWell, CommentsDue
    <3>3. ServesWell(calls, calls[j], got, {"comments", "vote"}, VoteR(f), VoteR(g), VoteDue, t, VoteN(f), VoteN(g))
      BY <1>4, <1>7, <1>8 DEF ServesWell, VoteDue
    <3>4. ServesWell(calls, calls[j], got, {"members", "join"}, MemberR(f), MemberR(g), MemberDue, t, MemberN(f), MemberN(g))
      BY <1>4, <1>7, <1>8 DEF ServesWell, MemberDue
    <3> QED
      BY <3>1, <3>2, <3>3, <3>4 DEF RoomServes
  <2>2. RoomGood(page, g, t, Served(calls, j, got), new)
    BY <1>1, <1>4, <1>5, <1>6, <1>8, <2>1, RoomServed
  <2> QED
    BY <1>0, <1>4, <1>8, <2>2 DEF RoomInv
<1>9. CASE calls[j].deaf = TRUE
  <2>1. RoomServesDeaf(f, g, calls, calls[j], new, t)
    <3>1. DeafWell(calls, calls[j], new, "posts", {"posts"}, PostsR(f), PostsR(g), PostsDue, t, PostsN(f), PostsN(g))
      BY <1>7, <1>9 DEF DeafWell, PostsDue
    <3>2. DeafWell(calls, calls[j], new, "comments", {"comments"}, CommentsR(f), CommentsR(g), CommentsDue, t, CommentsN(f), CommentsN(g))
      BY <1>7, <1>9 DEF DeafWell, CommentsDue
    <3>3. DeafWell(calls, calls[j], new, "vote", {"comments", "vote"}, VoteR(f), VoteR(g), VoteDue, t, VoteN(f), VoteN(g))
      BY <1>7, <1>9 DEF DeafWell, VoteDue
    <3>4. DeafWell(calls, calls[j], new, "member", {"members", "join"}, MemberR(f), MemberR(g), MemberDue, t, MemberN(f), MemberN(g))
      BY <1>7, <1>9 DEF DeafWell, MemberDue
    <3> QED
      BY <3>1, <3>2, <3>3, <3>4 DEF RoomServesDeaf
  <2>2. met \subseteq new
    BY <1>4, <1>9
  <2>3. RoomGood(page, g, t, RemoveAt(calls, j), new)
    BY <1>1, <1>4, <1>5, <1>9, <2>1, <2>2, RoomServedDeaf
  <2> QED
    BY <1>0, <1>4, <1>9, <2>3 DEF RoomInv
<1> QED
  BY <1>3, <1>8, <1>9

\* The comments are read.
LEMMA GetCommentsByPostGood ==
  ASSUME RoomInv, NEW j \in 1..Len(roomCalls), GetCommentsByPost(j)
  PROVE  RoomInv'
<1>0. PICK page, f, t, calls, met, g, new, got :
        /\ page = route.page /\ f = forum /\ t = thread /\ calls = roomCalls /\ met = roomMet
        /\ g = forum' /\ new = roomMet' /\ got = CommentsByPost
  OBVIOUS
<1>1. RoomGood(page, f, t, calls, met) /\ j \in 1..Len(calls)
  BY <1>0 DEF RoomInv
<1>2. RoomRest(page, f, t, calls) /\ t \in ThreadT /\ f \in ForumT /\ f.mine \subseteq f.comments
  BY <1>1 DEF RoomGood, RoomRest
<1>3. calls[j].deaf \in BOOLEAN /\ calls[j].arg \in RoomArgs
  BY <1>1, <1>2, RoomCallIs
<1>4. /\ calls[j].at = "sent" /\ calls[j].kind = "comments"
      /\ g = f /\ route' = route /\ thread' = t
      /\ calls[j].deaf = FALSE => roomCalls' = Served(calls, j, got) /\ new = met
      /\ calls[j].deaf = TRUE => roomCalls' = RemoveAt(calls, j) /\ new = met \union RoomMisses(calls[j].kind)
  BY <1>0 DEF GetCommentsByPost, Serve, Unprompted, browserVars, CommentsByPost
<1>5. g \in ForumT /\ g.mine \subseteq g.comments
  BY <1>2, <1>4 DEF ForumT
<1>6. got \in RoomGots /\ got \in RoomGot(calls[j].kind)
  <2>1. Foremost(f.comments) \in Comments
    BY <1>2, ForemostAre DEF ForumT
  <2>2. got = [comments |-> Foremost(f.comments), vote |-> f.vote] /\ f.vote \in VoteStates
    BY <1>0, <1>2 DEF CommentsByPost, ForumT
  <2> QED
    BY <1>4, <2>1, <2>2 DEF RoomGots, RoomGot, CommentsGots
<1>7. /\ PostsR(g) = PostsR(f) /\ PostsN(g) = PostsN(f)
      /\ CommentsR(g) = CommentsR(f) /\ CommentsN(g) = CommentsN(f)
      /\ VoteR(g) = VoteR(f) /\ VoteN(g) = VoteN(f)
      /\ MemberR(g) = MemberR(f) /\ MemberN(g) = MemberN(f)
  BY <1>2, <1>4 DEF ForumT, PostsR, PostsN, CommentsR, CommentsN, VoteR, VoteN, MemberR, MemberN
<1>8. CASE calls[j].deaf = FALSE
  <2>1. RoomServes(f, g, calls, calls[j], got, t)
    <3>1. ServesWell(calls, calls[j], got, {"posts"}, PostsR(f), PostsR(g), PostsDue, t, PostsN(f), PostsN(g))
      BY <1>4, <1>7, <1>8 DEF ServesWell, PostsDue
    <3>2. ServesWell(calls, calls[j], got, {"comments"}, CommentsR(f), CommentsR(g), CommentsDue, t, CommentsN(f), CommentsN(g))
      <4>1. Visible(g) \subseteq got.comments
        BY <1>0, <1>4 DEF Visible, CommentsByPost
      <4> QED
        BY <1>4, <1>6, <4>1 DEF ServesWell, CommentsR, RoomKinds
    <3>3. ServesWell(calls, calls[j], got, {"comments", "vote"}, VoteR(f), VoteR(g), VoteDue, t, VoteN(f), VoteN(g))
      BY <1>0, <1>2, <1>4, <1>6, <1>8 DEF ServesWell, VoteR, RoomKinds, RoomGots, ForumT, CommentsByPost
    <3>4. ServesWell(calls, calls[j], got, {"members", "join"}, MemberR(f), MemberR(g), MemberDue, t, MemberN(f), MemberN(g))
      BY <1>4, <1>7, <1>8 DEF ServesWell, MemberDue
    <3> QED
      BY <3>1, <3>2, <3>3, <3>4 DEF RoomServes
  <2>2. RoomGood(page, g, t, Served(calls, j, got), new)
    BY <1>1, <1>4, <1>5, <1>6, <1>8, <2>1, RoomServed
  <2> QED
    BY <1>0, <1>4, <1>8, <2>2 DEF RoomInv
<1>9. CASE calls[j].deaf = TRUE
  <2>1. RoomServesDeaf(f, g, calls, calls[j], new, t)
    <3>1. DeafWell(calls, calls[j], new, "posts", {"posts"}, PostsR(f), PostsR(g), PostsDue, t, PostsN(f), PostsN(g))
      BY <1>7, <1>9 DEF DeafWell, PostsDue
    <3>2. DeafWell(calls, calls[j], new, "comments", {"comments"}, CommentsR(f), CommentsR(g), CommentsDue, t, CommentsN(f), CommentsN(g))
      BY <1>7, <1>9 DEF DeafWell, CommentsDue
    <3>3. DeafWell(calls, calls[j], new, "vote", {"comments", "vote"}, VoteR(f), VoteR(g), VoteDue, t, VoteN(f), VoteN(g))
      BY <1>7, <1>9 DEF DeafWell, VoteDue
    <3>4. DeafWell(calls, calls[j], new, "member", {"members", "join"}, MemberR(f), MemberR(g), MemberDue, t, MemberN(f), MemberN(g))
      BY <1>7, <1>9 DEF DeafWell, MemberDue
    <3> QED
      BY <3>1, <3>2, <3>3, <3>4 DEF RoomServesDeaf
  <2>2. met \subseteq new
    BY <1>4, <1>9
  <2>3. RoomGood(page, g, t, RemoveAt(calls, j), new)
    BY <1>1, <1>4, <1>5, <1>9, <2>1, <2>2, RoomServedDeaf
  <2> QED
    BY <1>0, <1>4, <1>9, <2>3 DEF RoomInv
<1> QED
  BY <1>3, <1>8, <1>9

\* A comment is written.
LEMMA CreateCommentGood ==
  ASSUME RoomInv, NEW j \in 1..Len(roomCalls), CreateComment(j)
  PROVE  RoomInv'
<1>0. PICK page, f, t, calls, met, g, new, got, own :
        /\ page = route.page /\ f = forum /\ t = thread /\ calls = roomCalls /\ met = roomMet
        /\ g = forum' /\ new = roomMet' /\ got = <<>>
        /\ own = <<IF roomCalls[j].kind = "reply" THEN 1 ELSE 0, Cardinality(forum.comments) + 1>>
  OBVIOUS
<1>1. RoomGood(page, f, t, calls, met) /\ j \in 1..Len(calls)
  BY <1>0 DEF RoomInv
<1>2. RoomRest(page, f, t, calls) /\ t \in ThreadT /\ f \in ForumT /\ f.mine \subseteq f.comments
  BY <1>1 DEF RoomGood, RoomRest
<1>3. calls[j].deaf \in BOOLEAN /\ calls[j].arg \in RoomArgs
  BY <1>1, <1>2, RoomCallIs
<1>4. /\ calls[j].at = "sent" /\ (calls[j].kind = "comment" \/ calls[j].kind = "reply")
      /\ g = [f EXCEPT !.comments = @ \union {own}, !.mine = @ \union {own}] /\ route' = route /\ thread' = t
      /\ calls[j].deaf = FALSE => roomCalls' = Served(calls, j, got) /\ new = met
      /\ calls[j].deaf = TRUE => roomCalls' = RemoveAt(calls, j) /\ new = met \union RoomMisses(calls[j].kind)
  BY <1>0 DEF CreateComment, Serve, Unprompted, browserVars
<1>n. own \in {0, 1} \X (1..MaxComments)
  <2>1. MaxComments \in Nat /\ Cardinality(f.comments) \in Nat
    BY <1>2, CommentsFinite, RoomPageAssumption DEF ForumT
  <2>2. Cardinality(f.comments) < MaxComments
    BY <1>0 DEF CreateComment
  <2>3. Cardinality(f.comments) + 1 \in 1..MaxComments
    BY <2>1, <2>2
  <2>4. own[1] \in {0, 1} /\ own = <<own[1], Cardinality(f.comments) + 1>>
    BY <1>0
  <2> QED
    BY <2>3, <2>4
<1>5. g \in ForumT /\ g.mine \subseteq g.comments
  BY <1>2, <1>4, <1>n DEF ForumT, Comments
<1>6. got \in RoomGots /\ got \in RoomGot(calls[j].kind)
  BY <1>0, <1>2, <1>4 DEF RoomGots, RoomGot, ForumT, MemberGots, PostsGots, CommentsGots, VoteGots
<1>7. /\ PostsR(g) = PostsR(f) /\ PostsN(g) = PostsN(f)
      /\ VoteR(g) = VoteR(f) /\ VoteN(g) = VoteN(f)
      /\ MemberR(g) = MemberR(f) /\ MemberN(g) = MemberN(f)
  BY <1>2, <1>4 DEF ForumT, PostsR, PostsN, VoteR, VoteN, MemberR, MemberN
<1>8. CASE calls[j].deaf = FALSE
  <2>1. RoomServes(f, g, calls, calls[j], got, t)
    <3>1. ServesWell(calls, calls[j], got, {"posts"}, PostsR(f), PostsR(g), PostsDue, t, PostsN(f), PostsN(g))
      BY <1>4, <1>7, <1>8 DEF ServesWell, PostsDue
    <3>2. ServesWell(calls, calls[j], got, {"comments"}, CommentsR(f), CommentsR(g), CommentsDue, t, CommentsN(f), CommentsN(g))
      BY <1>0, <1>2, <1>4, <1>5, <1>6, <1>8 DEF ServesWell, CommentsDue, CommentsR, RoomKinds, RoomGots, ForumT
    <3>3. ServesWell(calls, calls[j], got, {"comments", "vote"}, VoteR(f), VoteR(g), VoteDue, t, VoteN(f), VoteN(g))
      BY <1>4, <1>7, <1>8 DEF ServesWell, VoteDue
    <3>4. ServesWell(calls, calls[j], got, {"members", "join"}, MemberR(f), MemberR(g), MemberDue, t, MemberN(f), MemberN(g))
      BY <1>4, <1>7, <1>8 DEF ServesWell, MemberDue
    <3> QED
      BY <3>1, <3>2, <3>3, <3>4 DEF RoomServes
  <2>2. RoomGood(page, g, t, Served(calls, j, got), new)
    BY <1>1, <1>4, <1>5, <1>6, <1>8, <2>1, RoomServed
  <2> QED
    BY <1>0, <1>4, <1>8, <2>2 DEF RoomInv
<1>9. CASE calls[j].deaf = TRUE
  <2>1. RoomServesDeaf(f, g, calls, calls[j], new, t)
    <3>1. DeafWell(calls, calls[j], new, "posts", {"posts"}, PostsR(f), PostsR(g), PostsDue, t, PostsN(f), PostsN(g))
      BY <1>7, <1>9 DEF DeafWell, PostsDue
    <3>2. DeafWell(calls, calls[j], new, "comments", {"comments"}, CommentsR(f), CommentsR(g), CommentsDue, t, CommentsN(f), CommentsN(g))
      BY <1>4, <1>9, RoomMissesAre DEF DeafWell
    <3>3. DeafWell(calls, calls[j], new, "vote", {"comments", "vote"}, VoteR(f), VoteR(g), VoteDue, t, VoteN(f), VoteN(g))
      BY <1>7, <1>9 DEF DeafWell, VoteDue
    <3>4. DeafWell(calls, calls[j], new, "member", {"members", "join"}, MemberR(f), MemberR(g), MemberDue, t, MemberN(f), MemberN(g))
      BY <1>7, <1>9 DEF DeafWell, MemberDue
    <3> QED
      BY <3>1, <3>2, <3>3, <3>4 DEF RoomServesDeaf
  <2>2. met \subseteq new
    BY <1>4, <1>9
  <2>3. RoomGood(page, g, t, RemoveAt(calls, j), new)
    BY <1>1, <1>4, <1>5, <1>9, <2>1, <2>2, RoomServedDeaf
  <2> QED
    BY <1>0, <1>4, <1>9, <2>3 DEF RoomInv
<1> QED
  BY <1>3, <1>8, <1>9

\* A vote is given or taken back.
LEMMA VoteCommentGood ==
  ASSUME RoomInv, NEW j \in 1..Len(roomCalls), VoteComment(j)
  PROVE  RoomInv'
<1>0. PICK page, f, t, calls, met, g, new, got :
        /\ page = route.page /\ f = forum /\ t = thread /\ calls = roomCalls /\ met = roomMet
        /\ g = forum' /\ new = roomMet' /\ got = [vote |-> VotedFor(forum.vote, roomCalls[j].arg)]
  OBVIOUS
<1>1. RoomGood(page, f, t, calls, met) /\ j \in 1..Len(calls)
  BY <1>0 DEF RoomInv
<1>2. RoomRest(page, f, t, calls) /\ t \in ThreadT /\ f \in ForumT /\ f.mine \subseteq f.comments
  BY <1>1 DEF RoomGood, RoomRest
<1>3. calls[j].deaf \in BOOLEAN /\ calls[j].arg \in RoomArgs
  BY <1>1, <1>2, RoomCallIs
<1>4. /\ calls[j].at = "sent" /\ calls[j].kind = "vote"
      /\ g = [f EXCEPT !.vote = VotedFor(f.vote, calls[j].arg)] /\ route' = route /\ thread' = t
      /\ calls[j].deaf = FALSE => roomCalls' = Served(calls, j, got) /\ new = met
      /\ calls[j].deaf = TRUE => roomCalls' = RemoveAt(calls, j) /\ new = met \union RoomMisses(calls[j].kind)
  BY <1>0 DEF VoteComment, Serve, Unprompted, browserVars
<1>a. VotedFor(f.vote, calls[j].arg) \in VoteStates
  <2>1. calls[j].arg \in Votes
    BY <1>1, <1>2, <1>4, RoomCallIs
  <2> QED
    BY <2>1 DEF VotedFor, VoteStates
<1>5. g \in ForumT /\ g.mine \subseteq g.comments
  BY <1>2, <1>4, <1>a DEF ForumT
<1>6. got \in RoomGots /\ got \in RoomGot(calls[j].kind)
  BY <1>0, <1>2, <1>4, <1>a DEF RoomGots, RoomGot, ForumT, MemberGots, PostsGots, CommentsGots, VoteGots
<1>b. Visible(g) = Visible(f)
  BY <1>2, <1>4 DEF ForumT, Visible
<1>7. /\ PostsR(g) = PostsR(f) /\ PostsN(g) = PostsN(f)
      /\ CommentsR(g) = CommentsR(f) /\ CommentsN(g) = CommentsN(f)
      /\ MemberR(g) = MemberR(f) /\ MemberN(g) = MemberN(f)
  BY <1>2, <1>4, <1>b DEF ForumT, PostsR, PostsN, CommentsR, CommentsN, MemberR, MemberN
<1>8. CASE calls[j].deaf = FALSE
  <2>1. RoomServes(f, g, calls, calls[j], got, t)
    <3>1. ServesWell(calls, calls[j], got, {"posts"}, PostsR(f), PostsR(g), PostsDue, t, PostsN(f), PostsN(g))
      BY <1>4, <1>7, <1>8 DEF ServesWell, PostsDue
    <3>2. ServesWell(calls, calls[j], got, {"comments"}, CommentsR(f), CommentsR(g), CommentsDue, t, CommentsN(f), CommentsN(g))
      BY <1>4, <1>7, <1>8 DEF ServesWell, CommentsDue
    <3>3. ServesWell(calls, calls[j], got, {"comments", "vote"}, VoteR(f), VoteR(g), VoteDue, t, VoteN(f), VoteN(g))
      BY <1>0, <1>2, <1>4, <1>5, <1>6, <1>8 DEF ServesWell, VoteDue, VoteR, RoomKinds, RoomGots, ForumT
    <3>4. ServesWell(calls, calls[j], got, {"members", "join"}, MemberR(f), MemberR(g), MemberDue, t, MemberN(f), MemberN(g))
      BY <1>4, <1>7, <1>8 DEF ServesWell, MemberDue
    <3> QED
      BY <3>1, <3>2, <3>3, <3>4 DEF RoomServes
  <2>2. RoomGood(page, g, t, Served(calls, j, got), new)
    BY <1>1, <1>4, <1>5, <1>6, <1>8, <2>1, RoomServed
  <2> QED
    BY <1>0, <1>4, <1>8, <2>2 DEF RoomInv
<1>9. CASE calls[j].deaf = TRUE
  <2>1. RoomServesDeaf(f, g, calls, calls[j], new, t)
    <3>1. DeafWell(calls, calls[j], new, "posts", {"posts"}, PostsR(f), PostsR(g), PostsDue, t, PostsN(f), PostsN(g))
      BY <1>7, <1>9 DEF DeafWell, PostsDue
    <3>2. DeafWell(calls, calls[j], new, "comments", {"comments"}, CommentsR(f), CommentsR(g), CommentsDue, t, CommentsN(f), CommentsN(g))
      BY <1>7, <1>9 DEF DeafWell, CommentsDue
    <3>3. DeafWell(calls, calls[j], new, "vote", {"comments", "vote"}, VoteR(f), VoteR(g), VoteDue, t, VoteN(f), VoteN(g))
      BY <1>4, <1>9, RoomMissesAre DEF DeafWell
    <3>4. DeafWell(calls, calls[j], new, "member", {"members", "join"}, MemberR(f), MemberR(g), MemberDue, t, MemberN(f), MemberN(g))
      BY <1>7, <1>9 DEF DeafWell, MemberDue
    <3> QED
      BY <3>1, <3>2, <3>3, <3>4 DEF RoomServesDeaf
  <2>2. met \subseteq new
    BY <1>4, <1>9
  <2>3. RoomGood(page, g, t, RemoveAt(calls, j), new)
    BY <1>1, <1>4, <1>5, <1>9, <2>1, <2>2, RoomServedDeaf
  <2> QED
    BY <1>0, <1>4, <1>9, <2>3 DEF RoomInv
<1> QED
  BY <1>3, <1>8, <1>9

\* A post is written.
LEMMA CreatePostServedGood ==
  ASSUME RoomInv, NEW j \in 1..Len(roomCalls), CreatePostServed(j)
  PROVE  RoomInv'
<1>0. PICK page, f, t, calls, met, g, new, got :
        /\ page = route.page /\ f = forum /\ t = thread /\ calls = roomCalls /\ met = roomMet
        /\ g = forum' /\ new = roomMet' /\ got = <<>>
  OBVIOUS
<1>1. RoomGood(page, f, t, calls, met) /\ j \in 1..Len(calls)
  BY <1>0 DEF RoomInv
<1>2. RoomRest(page, f, t, calls) /\ t \in ThreadT /\ f \in ForumT /\ f.mine \subseteq f.comments
  BY <1>1 DEF RoomGood, RoomRest
<1>3. calls[j].deaf \in BOOLEAN /\ calls[j].arg \in RoomArgs
  BY <1>1, <1>2, RoomCallIs
<1>4. /\ calls[j].at = "sent" /\ calls[j].kind = "post"
      /\ g = [f EXCEPT !.posts = @ + 1] /\ route' = route /\ thread' = t
      /\ calls[j].deaf = FALSE => roomCalls' = Served(calls, j, got) /\ new = met
      /\ calls[j].deaf = TRUE => roomCalls' = RemoveAt(calls, j) /\ new = met \union RoomMisses(calls[j].kind)
  BY <1>0 DEF CreatePostServed, Serve, Unprompted, browserVars
<1>n. f.posts \in Nat /\ f.posts + 1 \in Nat
  BY <1>2 DEF ForumT
<1>5. g \in ForumT /\ g.mine \subseteq g.comments
  BY <1>2, <1>4, <1>n DEF ForumT
<1>6. got \in RoomGots /\ got \in RoomGot(calls[j].kind)
  BY <1>0, <1>2, <1>4 DEF RoomGots, RoomGot, ForumT, MemberGots, PostsGots, CommentsGots, VoteGots
<1>b. Visible(g) = Visible(f)
  BY <1>2, <1>4 DEF ForumT, Visible
<1>7. /\ CommentsR(g) = CommentsR(f) /\ CommentsN(g) = CommentsN(f)
      /\ VoteR(g) = VoteR(f) /\ VoteN(g) = VoteN(f)
      /\ MemberR(g) = MemberR(f) /\ MemberN(g) = MemberN(f)
  BY <1>2, <1>4, <1>b DEF ForumT, CommentsR, CommentsN, VoteR, VoteN, MemberR, MemberN
<1>8. CASE calls[j].deaf = FALSE
  <2>1. RoomServes(f, g, calls, calls[j], got, t)
    <3>1. ServesWell(calls, calls[j], got, {"posts"}, PostsR(f), PostsR(g), PostsDue, t, PostsN(f), PostsN(g))
      BY <1>0, <1>2, <1>4, <1>5, <1>6, <1>8 DEF ServesWell, PostsDue, PostsR, RoomKinds, RoomGots, ForumT
    <3>2. ServesWell(calls, calls[j], got, {"comments"}, CommentsR(f), CommentsR(g), CommentsDue, t, CommentsN(f), CommentsN(g))
      BY <1>4, <1>7, <1>8 DEF ServesWell, CommentsDue
    <3>3. ServesWell(calls, calls[j], got, {"comments", "vote"}, VoteR(f), VoteR(g), VoteDue, t, VoteN(f), VoteN(g))
      BY <1>4, <1>7, <1>8 DEF ServesWell, VoteDue
    <3>4. ServesWell(calls, calls[j], got, {"members", "join"}, MemberR(f), MemberR(g), MemberDue, t, MemberN(f), MemberN(g))
      BY <1>4, <1>7, <1>8 DEF ServesWell, MemberDue
    <3> QED
      BY <3>1, <3>2, <3>3, <3>4 DEF RoomServes
  <2>2. RoomGood(page, g, t, Served(calls, j, got), new)
    BY <1>1, <1>4, <1>5, <1>6, <1>8, <2>1, RoomServed
  <2> QED
    BY <1>0, <1>4, <1>8, <2>2 DEF RoomInv
<1>9. CASE calls[j].deaf = TRUE
  <2>1. RoomServesDeaf(f, g, calls, calls[j], new, t)
    <3>1. DeafWell(calls, calls[j], new, "posts", {"posts"}, PostsR(f), PostsR(g), PostsDue, t, PostsN(f), PostsN(g))
      BY <1>4, <1>9, RoomMissesAre DEF DeafWell
    <3>2. DeafWell(calls, calls[j], new, "comments", {"comments"}, CommentsR(f), CommentsR(g), CommentsDue, t, CommentsN(f), CommentsN(g))
      BY <1>7, <1>9 DEF DeafWell, CommentsDue
    <3>3. DeafWell(calls, calls[j], new, "vote", {"comments", "vote"}, VoteR(f), VoteR(g), VoteDue, t, VoteN(f), VoteN(g))
      BY <1>7, <1>9 DEF DeafWell, VoteDue
    <3>4. DeafWell(calls, calls[j], new, "member", {"members", "join"}, MemberR(f), MemberR(g), MemberDue, t, MemberN(f), MemberN(g))
      BY <1>7, <1>9 DEF DeafWell, MemberDue
    <3> QED
      BY <3>1, <3>2, <3>3, <3>4 DEF RoomServesDeaf
  <2>2. met \subseteq new
    BY <1>4, <1>9
  <2>3. RoomGood(page, g, t, RemoveAt(calls, j), new)
    BY <1>1, <1>4, <1>5, <1>9, <2>1, <2>2, RoomServedDeaf
  <2> QED
    BY <1>0, <1>4, <1>9, <2>3 DEF RoomInv
<1> QED
  BY <1>3, <1>8, <1>9

\* The user joins.
LEMMA JoinRoomServedGood ==
  ASSUME RoomInv, NEW j \in 1..Len(roomCalls), JoinRoomServed(j)
  PROVE  RoomInv'
<1>0. PICK page, f, t, calls, met, g, new, got :
        /\ page = route.page /\ f = forum /\ t = thread /\ calls = roomCalls /\ met = roomMet
        /\ g = forum' /\ new = roomMet' /\ got = <<>>
  OBVIOUS
<1>1. RoomGood(page, f, t, calls, met) /\ j \in 1..Len(calls)
  BY <1>0 DEF RoomInv
<1>2. RoomRest(page, f, t, calls) /\ t \in ThreadT /\ f \in ForumT /\ f.mine \subseteq f.comments
  BY <1>1 DEF RoomGood, RoomRest
<1>3. calls[j].deaf \in BOOLEAN /\ calls[j].arg \in RoomArgs
  BY <1>1, <1>2, RoomCallIs
<1>4. /\ calls[j].at = "sent" /\ calls[j].kind = "join"
      /\ g = [f EXCEPT !.member = TRUE] /\ route' = route /\ thread' = t
      /\ calls[j].deaf = FALSE => roomCalls' = Served(calls, j, got) /\ new = met
      /\ calls[j].deaf = TRUE => roomCalls' = RemoveAt(calls, j) /\ new = met \union RoomMisses(calls[j].kind)
  BY <1>0 DEF JoinRoomServed, Serve, Unprompted, browserVars
<1>5. g \in ForumT /\ g.mine \subseteq g.comments
  BY <1>2, <1>4 DEF ForumT
<1>6. got \in RoomGots /\ got \in RoomGot(calls[j].kind)
  BY <1>0, <1>2, <1>4 DEF RoomGots, RoomGot, ForumT, MemberGots, PostsGots, CommentsGots, VoteGots
<1>b. Visible(g) = Visible(f)
  BY <1>2, <1>4 DEF ForumT, Visible
<1>7. /\ PostsR(g) = PostsR(f) /\ PostsN(g) = PostsN(f)
      /\ CommentsR(g) = CommentsR(f) /\ CommentsN(g) = CommentsN(f)
      /\ VoteR(g) = VoteR(f) /\ VoteN(g) = VoteN(f)
  BY <1>2, <1>4, <1>b DEF ForumT, PostsR, PostsN, CommentsR, CommentsN, VoteR, VoteN
<1>8. CASE calls[j].deaf = FALSE
  <2>1. RoomServes(f, g, calls, calls[j], got, t)
    <3>1. ServesWell(calls, calls[j], got, {"posts"}, PostsR(f), PostsR(g), PostsDue, t, PostsN(f), PostsN(g))
      BY <1>4, <1>7, <1>8 DEF ServesWell, PostsDue
    <3>2. ServesWell(calls, calls[j], got, {"comments"}, CommentsR(f), CommentsR(g), CommentsDue, t, CommentsN(f), CommentsN(g))
      BY <1>4, <1>7, <1>8 DEF ServesWell, CommentsDue
    <3>3. ServesWell(calls, calls[j], got, {"comments", "vote"}, VoteR(f), VoteR(g), VoteDue, t, VoteN(f), VoteN(g))
      BY <1>4, <1>7, <1>8 DEF ServesWell, VoteDue
    <3>4. ServesWell(calls, calls[j], got, {"members", "join"}, MemberR(f), MemberR(g), MemberDue, t, MemberN(f), MemberN(g))
      BY <1>0, <1>2, <1>4, <1>5, <1>6, <1>8 DEF ServesWell, MemberDue, MemberR, RoomKinds, RoomGots, ForumT
    <3> QED
      BY <3>1, <3>2, <3>3, <3>4 DEF RoomServes
  <2>2. RoomGood(page, g, t, Served(calls, j, got), new)
    BY <1>1, <1>4, <1>5, <1>6, <1>8, <2>1, RoomServed
  <2> QED
    BY <1>0, <1>4, <1>8, <2>2 DEF RoomInv
<1>9. CASE calls[j].deaf = TRUE
  <2>1. RoomServesDeaf(f, g, calls, calls[j], new, t)
    <3>1. DeafWell(calls, calls[j], new, "posts", {"posts"}, PostsR(f), PostsR(g), PostsDue, t, PostsN(f), PostsN(g))
      BY <1>7, <1>9 DEF DeafWell, PostsDue
    <3>2. DeafWell(calls, calls[j], new, "comments", {"comments"}, CommentsR(f), CommentsR(g), CommentsDue, t, CommentsN(f), CommentsN(g))
      BY <1>7, <1>9 DEF DeafWell, CommentsDue
    <3>3. DeafWell(calls, calls[j], new, "vote", {"comments", "vote"}, VoteR(f), VoteR(g), VoteDue, t, VoteN(f), VoteN(g))
      BY <1>7, <1>9 DEF DeafWell, VoteDue
    <3>4. DeafWell(calls, calls[j], new, "member", {"members", "join"}, MemberR(f), MemberR(g), MemberDue, t, MemberN(f), MemberN(g))
      BY <1>4, <1>9, RoomMissesAre DEF DeafWell
    <3> QED
      BY <3>1, <3>2, <3>3, <3>4 DEF RoomServesDeaf
  <2>2. met \subseteq new
    BY <1>4, <1>9
  <2>3. RoomGood(page, g, t, RemoveAt(calls, j), new)
    BY <1>1, <1>4, <1>5, <1>9, <2>1, <2>2, RoomServedDeaf
  <2> QED
    BY <1>0, <1>4, <1>9, <2>3 DEF RoomInv
<1> QED
  BY <1>3, <1>8, <1>9

\* Calls are sent.
LEMMA SentCourse ==
  ASSUME NEW S, NEW calls \in Seq(S), NEW more \in Seq(S), \A k \in 1..Len(more) : more[k].at = "sent",
         NEW met, NEW kinds, NEW topic, NEW R, NEW dues, NEW t, NEW u, NEW N,
         Course(calls, met, topic, kinds, R, dues, t, N),
         Told(calls, kinds) = {} /\ t \in N => u \in N \/ Pending(more, dues) \/ Pending(calls, dues)
  PROVE  Course(Sent(calls, more), met, topic, kinds, R, dues, u, N)
<1> SUFFICES ASSUME topic \notin met
             PROVE  OnCourse(Sent(calls, more), kinds, topic, R, dues, u, N)
  BY DEF Course
<1>1. OnCourse(calls, kinds, topic, R, dues, t, N)
  BY DEF Course
<1> QED
  BY <1>1, SentOnCourse

\* What keeps the page good when the user clicks.
RoomSends(f, calls, more, t, u) ==
  /\ Told(calls, {"posts"}) = {} /\ t \in PostsN(f)
       => u \in PostsN(f) \/ Pending(more, PostsDue) \/ Pending(calls, PostsDue)
  /\ Told(calls, {"comments"}) = {} /\ t \in CommentsN(f)
       => u \in CommentsN(f) \/ Pending(more, CommentsDue) \/ Pending(calls, CommentsDue)
  /\ Told(calls, {"comments", "vote"}) = {} /\ t \in VoteN(f)
       => u \in VoteN(f) \/ Pending(more, VoteDue) \/ Pending(calls, VoteDue)
  /\ Told(calls, {"members", "join"}) = {} /\ t \in MemberN(f)
       => u \in MemberN(f) \/ Pending(more, MemberDue) \/ Pending(calls, MemberDue)

LEMMA RoomSent ==
  ASSUME NEW f, NEW t, NEW calls, NEW met, RoomGood("room", f, t, calls, met),
         NEW more, RoomMore(more), NEW u \in ThreadT,
         t.reloading = TRUE => OfKind(more, "comments") = {},
         u.reloading = TRUE <=> t.reloading = TRUE \/ OfKind(more, "comments") # {},
         RoomSends(f, calls, more, t, u)
  PROVE  RoomGood("room", f, u, Sent(calls, more), met)
<1>1. RoomRest("room", f, t, calls) /\ RoomCourses(f, t, calls, met)
  BY DEF RoomGood
<1>2. calls \in Seq(RoomCallT) /\ more \in Seq(RoomCallT) /\ \A k \in 1..Len(more) : more[k].at = "sent"
  BY <1>1 DEF RoomRest, RoomMore
<1>3. RoomRest("room", f, u, Sent(calls, more))
  BY <1>1, RoomRestSent
<1>4. PostsCourse(f, u, Sent(calls, more), met)
  <2>1. Course(calls, met, "posts", {"posts"}, PostsR(f), PostsDue, t, PostsN(f))
    BY <1>1 DEF RoomCourses, PostsCourse
  <2>2. Told(calls, {"posts"}) = {} /\ t \in PostsN(f)
          => u \in PostsN(f) \/ Pending(more, PostsDue) \/ Pending(calls, PostsDue)
    BY DEF RoomSends
  <2> QED
    BY <1>2, <2>1, <2>2, SentCourse DEF PostsCourse
<1>5. CommentsCourse(f, u, Sent(calls, more), met)
  <2>1. Course(calls, met, "comments", {"comments"}, CommentsR(f), CommentsDue, t, CommentsN(f))
    BY <1>1 DEF RoomCourses, CommentsCourse
  <2>2. Told(calls, {"comments"}) = {} /\ t \in CommentsN(f)
          => u \in CommentsN(f) \/ Pending(more, CommentsDue) \/ Pending(calls, CommentsDue)
    BY DEF RoomSends
  <2> QED
    BY <1>2, <2>1, <2>2, SentCourse DEF CommentsCourse
<1>6. VoteCourse(f, u, Sent(calls, more), met)
  <2>1. Course(calls, met, "vote", {"comments", "vote"}, VoteR(f), VoteDue, t, VoteN(f))
    BY <1>1 DEF RoomCourses, VoteCourse
  <2>2. Told(calls, {"comments", "vote"}) = {} /\ t \in VoteN(f)
          => u \in VoteN(f) \/ Pending(more, VoteDue) \/ Pending(calls, VoteDue)
    BY DEF RoomSends
  <2> QED
    BY <1>2, <2>1, <2>2, SentCourse DEF VoteCourse
<1>7. MemberCourse(f, u, Sent(calls, more), met)
  <2>1. Course(calls, met, "member", {"members", "join"}, MemberR(f), MemberDue, t, MemberN(f))
    BY <1>1 DEF RoomCourses, MemberCourse
  <2>2. Told(calls, {"members", "join"}) = {} /\ t \in MemberN(f)
          => u \in MemberN(f) \/ Pending(more, MemberDue) \/ Pending(calls, MemberDue)
    BY DEF RoomSends
  <2> QED
    BY <1>2, <2>1, <2>2, SentCourse DEF MemberCourse
<1> QED
  BY <1>3, <1>4, <1>5, <1>6, <1>7 DEF RoomGood, RoomCourses

\* Clicks.
LEMMA SubmitCommentGood ==
  ASSUME RoomInv, SubmitComment
  PROVE  RoomInv'
<1>0. PICK page, f, t, calls, met, u, more :
        /\ page = route.page /\ f = forum /\ t = thread /\ calls = roomCalls /\ met = roomMet
        /\ u = thread' /\ more = <<Call("comment", "")>>
  OBVIOUS
<1>1. RoomGood(page, f, t, calls, met)
  BY <1>0 DEF RoomInv
<1>2. RoomRest(page, f, t, calls) /\ t \in ThreadT /\ calls \in Seq(RoomCallT)
  BY <1>1 DEF RoomGood, RoomRest
<1>3. /\ page = "room" /\ u = t /\ roomCalls' = Sent(calls, more)
      /\ route' = route /\ forum' = f /\ roomMet' = met
  BY <1>0 DEF SubmitComment, Commentable, Clickable, Shows, Click, Asks
<1>4. RoomMore(more) /\ OfKind(more, "comments") = {}
  <2>1. "comment" \in RoomKinds /\ "" \in RoomArgs /\ "comment" # "comments"
        /\ ("comment" = "vote" => "" \in Votes)
    BY DEF RoomKinds, RoomArgs, Votes
  <2>2. RoomMore(more)
    BY <1>0, <2>1, RoomCallMade
  <2>3. \A l : OfKind(more, l) = {} <=> "comment" # l
    BY <1>0, <2>1, RoomCallMade
  <2>4. \A P : Pending(more, P) <=> <<"comment", "sent", FALSE>> \in P
    BY <1>0, <2>1, RoomCallMade
  <2> QED
    BY <2>1, <2>2, <2>3, <2>4 DEF VoteDue
<1>a. roomCalls' = Sent(calls, more)
  BY <1>3
<1>5. u \in ThreadT
  BY <1>2, <1>3 DEF ThreadT
<1>6. RoomSends(f, calls, more, t, u)
  BY <1>2, <1>3, <1>4, <1>5 DEF RoomSends, ThreadT, PostsN, CommentsN, VoteN, MemberN
<1>7. /\ t.reloading = TRUE => OfKind(more, "comments") = {}
      /\ u.reloading = TRUE <=> t.reloading = TRUE \/ OfKind(more, "comments") # {}
  BY <1>2, <1>3, <1>4 DEF ThreadT
<1>8. RoomGood(page, f, u, Sent(calls, more), met)
  BY <1>1, <1>3, <1>4, <1>5, <1>6, <1>7, RoomSent
<1> QED
  BY <1>0, <1>3, <1>a, <1>8 DEF RoomInv

LEMMA SubmitReplyGood ==
  ASSUME RoomInv, SubmitReply
  PROVE  RoomInv'
<1>0. PICK page, f, t, calls, met, u, more :
        /\ page = route.page /\ f = forum /\ t = thread /\ calls = roomCalls /\ met = roomMet
        /\ u = thread' /\ more = <<Call("reply", "")>>
  OBVIOUS
<1>1. RoomGood(page, f, t, calls, met)
  BY <1>0 DEF RoomInv
<1>2. RoomRest(page, f, t, calls) /\ t \in ThreadT /\ calls \in Seq(RoomCallT)
  BY <1>1 DEF RoomGood, RoomRest
<1>3. /\ page = "room" /\ u = t /\ roomCalls' = Sent(calls, more)
      /\ route' = route /\ forum' = f /\ roomMet' = met
  BY <1>0 DEF SubmitReply, Commentable, Clickable, Shows, Click, Asks
<1>4. RoomMore(more) /\ OfKind(more, "comments") = {}
  <2>1. "reply" \in RoomKinds /\ "" \in RoomArgs /\ "reply" # "comments"
        /\ ("reply" = "vote" => "" \in Votes)
    BY DEF RoomKinds, RoomArgs, Votes
  <2>2. RoomMore(more)
    BY <1>0, <2>1, RoomCallMade
  <2>3. \A l : OfKind(more, l) = {} <=> "reply" # l
    BY <1>0, <2>1, RoomCallMade
  <2>4. \A P : Pending(more, P) <=> <<"reply", "sent", FALSE>> \in P
    BY <1>0, <2>1, RoomCallMade
  <2> QED
    BY <2>1, <2>2, <2>3, <2>4 DEF VoteDue
<1>a. roomCalls' = Sent(calls, more)
  BY <1>3
<1>5. u \in ThreadT
  BY <1>2, <1>3 DEF ThreadT
<1>6. RoomSends(f, calls, more, t, u)
  BY <1>2, <1>3, <1>4, <1>5 DEF RoomSends, ThreadT, PostsN, CommentsN, VoteN, MemberN
<1>7. /\ t.reloading = TRUE => OfKind(more, "comments") = {}
      /\ u.reloading = TRUE <=> t.reloading = TRUE \/ OfKind(more, "comments") # {}
  BY <1>2, <1>3, <1>4 DEF ThreadT
<1>8. RoomGood(page, f, u, Sent(calls, more), met)
  BY <1>1, <1>3, <1>4, <1>5, <1>6, <1>7, RoomSent
<1> QED
  BY <1>0, <1>3, <1>a, <1>8 DEF RoomInv

LEMMA UpvoteCommentGood ==
  ASSUME RoomInv, UpvoteComment
  PROVE  RoomInv'
<1>0. PICK page, f, t, calls, met, u, more :
        /\ page = route.page /\ f = forum /\ t = thread /\ calls = roomCalls /\ met = roomMet
        /\ u = thread' /\ more = <<Call("vote", "upvote")>>
  OBVIOUS
<1>1. RoomGood(page, f, t, calls, met)
  BY <1>0 DEF RoomInv
<1>2. RoomRest(page, f, t, calls) /\ t \in ThreadT /\ calls \in Seq(RoomCallT)
  BY <1>1 DEF RoomGood, RoomRest
<1>3. /\ page = "room" /\ u = [t EXCEPT !.vote = Upvoted(@)] /\ roomCalls' = Sent(calls, more)
      /\ route' = route /\ forum' = f /\ roomMet' = met
  BY <1>0 DEF UpvoteComment, Commentable, Clickable, Shows, Click, Asks
<1>4. RoomMore(more) /\ OfKind(more, "comments") = {} /\ Pending(more, VoteDue)
  <2>1. "vote" \in RoomKinds /\ "upvote" \in RoomArgs /\ "vote" # "comments"
        /\ ("vote" = "vote" => "upvote" \in Votes)
    BY DEF RoomKinds, RoomArgs, Votes
  <2>2. RoomMore(more)
    BY <1>0, <2>1, RoomCallMade
  <2>3. \A l : OfKind(more, l) = {} <=> "vote" # l
    BY <1>0, <2>1, RoomCallMade
  <2>4. \A P : Pending(more, P) <=> <<"vote", "sent", FALSE>> \in P
    BY <1>0, <2>1, RoomCallMade
  <2> QED
    BY <2>1, <2>2, <2>3, <2>4 DEF VoteDue
<1>a. roomCalls' = Sent(calls, more)
  BY <1>3
<1>5. u \in ThreadT
  BY <1>2, <1>3 DEF ThreadT, VoteStates, Votes, Upvoted
<1>6. RoomSends(f, calls, more, t, u)
  BY <1>2, <1>3, <1>4, <1>5 DEF RoomSends, ThreadT, PostsN, CommentsN, VoteN, MemberN
<1>7. /\ t.reloading = TRUE => OfKind(more, "comments") = {}
      /\ u.reloading = TRUE <=> t.reloading = TRUE \/ OfKind(more, "comments") # {}
  BY <1>2, <1>3, <1>4 DEF ThreadT
<1>8. RoomGood(page, f, u, Sent(calls, more), met)
  BY <1>1, <1>3, <1>4, <1>5, <1>6, <1>7, RoomSent
<1> QED
  BY <1>0, <1>3, <1>a, <1>8 DEF RoomInv

LEMMA DownvoteCommentGood ==
  ASSUME RoomInv, DownvoteComment
  PROVE  RoomInv'
<1>0. PICK page, f, t, calls, met, u, more :
        /\ page = route.page /\ f = forum /\ t = thread /\ calls = roomCalls /\ met = roomMet
        /\ u = thread' /\ more = <<Call("vote", "downvote")>>
  OBVIOUS
<1>1. RoomGood(page, f, t, calls, met)
  BY <1>0 DEF RoomInv
<1>2. RoomRest(page, f, t, calls) /\ t \in ThreadT /\ calls \in Seq(RoomCallT)
  BY <1>1 DEF RoomGood, RoomRest
<1>3. /\ page = "room" /\ u = [t EXCEPT !.vote = Downvoted(@)] /\ roomCalls' = Sent(calls, more)
      /\ route' = route /\ forum' = f /\ roomMet' = met
  BY <1>0 DEF DownvoteComment, Commentable, Clickable, Shows, Click, Asks
<1>4. RoomMore(more) /\ OfKind(more, "comments") = {} /\ Pending(more, VoteDue)
  <2>1. "vote" \in RoomKinds /\ "downvote" \in RoomArgs /\ "vote" # "comments"
        /\ ("vote" = "vote" => "downvote" \in Votes)
    BY DEF RoomKinds, RoomArgs, Votes
  <2>2. RoomMore(more)
    BY <1>0, <2>1, RoomCallMade
  <2>3. \A l : OfKind(more, l) = {} <=> "vote" # l
    BY <1>0, <2>1, RoomCallMade
  <2>4. \A P : Pending(more, P) <=> <<"vote", "sent", FALSE>> \in P
    BY <1>0, <2>1, RoomCallMade
  <2> QED
    BY <2>1, <2>2, <2>3, <2>4 DEF VoteDue
<1>a. roomCalls' = Sent(calls, more)
  BY <1>3
<1>5. u \in ThreadT
  BY <1>2, <1>3 DEF ThreadT, VoteStates, Votes, Downvoted
<1>6. RoomSends(f, calls, more, t, u)
  BY <1>2, <1>3, <1>4, <1>5 DEF RoomSends, ThreadT, PostsN, CommentsN, VoteN, MemberN
<1>7. /\ t.reloading = TRUE => OfKind(more, "comments") = {}
      /\ u.reloading = TRUE <=> t.reloading = TRUE \/ OfKind(more, "comments") # {}
  BY <1>2, <1>3, <1>4 DEF ThreadT
<1>8. RoomGood(page, f, u, Sent(calls, more), met)
  BY <1>1, <1>3, <1>4, <1>5, <1>6, <1>7, RoomSent
<1> QED
  BY <1>0, <1>3, <1>a, <1>8 DEF RoomInv

LEMMA JoinRoomGood ==
  ASSUME RoomInv, JoinRoom
  PROVE  RoomInv'
<1>0. PICK page, f, t, calls, met, u, more :
        /\ page = route.page /\ f = forum /\ t = thread /\ calls = roomCalls /\ met = roomMet
        /\ u = thread' /\ more = <<Call("join", "")>>
  OBVIOUS
<1>1. RoomGood(page, f, t, calls, met)
  BY <1>0 DEF RoomInv
<1>2. RoomRest(page, f, t, calls) /\ t \in ThreadT /\ calls \in Seq(RoomCallT)
  BY <1>1 DEF RoomGood, RoomRest
<1>3. /\ page = "room" /\ u = t /\ roomCalls' = Sent(calls, more)
      /\ route' = route /\ forum' = f /\ roomMet' = met
  BY <1>0 DEF JoinRoom, Clickable, Shows, Click, Asks
<1>4. RoomMore(more) /\ OfKind(more, "comments") = {}
  <2>1. "join" \in RoomKinds /\ "" \in RoomArgs /\ "join" # "comments"
        /\ ("join" = "vote" => "" \in Votes)
    BY DEF RoomKinds, RoomArgs, Votes
  <2>2. RoomMore(more)
    BY <1>0, <2>1, RoomCallMade
  <2>3. \A l : OfKind(more, l) = {} <=> "join" # l
    BY <1>0, <2>1, RoomCallMade
  <2>4. \A P : Pending(more, P) <=> <<"join", "sent", FALSE>> \in P
    BY <1>0, <2>1, RoomCallMade
  <2> QED
    BY <2>1, <2>2, <2>3, <2>4 DEF VoteDue
<1>a. roomCalls' = Sent(calls, more)
  BY <1>3
<1>5. u \in ThreadT
  BY <1>2, <1>3 DEF ThreadT
<1>6. RoomSends(f, calls, more, t, u)
  BY <1>2, <1>3, <1>4, <1>5 DEF RoomSends, ThreadT, PostsN, CommentsN, VoteN, MemberN
<1>7. /\ t.reloading = TRUE => OfKind(more, "comments") = {}
      /\ u.reloading = TRUE <=> t.reloading = TRUE \/ OfKind(more, "comments") # {}
  BY <1>2, <1>3, <1>4 DEF ThreadT
<1>8. RoomGood(page, f, u, Sent(calls, more), met)
  BY <1>1, <1>3, <1>4, <1>5, <1>6, <1>7, RoomSent
<1> QED
  BY <1>0, <1>3, <1>a, <1>8 DEF RoomInv

LEMMA OpenCreatePostDialogGood ==
  ASSUME RoomInv, OpenCreatePostDialog
  PROVE  RoomInv'
<1>0. PICK page, f, t, calls, met, u, more :
        /\ page = route.page /\ f = forum /\ t = thread /\ calls = roomCalls /\ met = roomMet
        /\ u = thread' /\ more = <<>>
  OBVIOUS
<1>1. RoomGood(page, f, t, calls, met)
  BY <1>0 DEF RoomInv
<1>2. RoomRest(page, f, t, calls) /\ t \in ThreadT /\ calls \in Seq(RoomCallT)
  BY <1>1 DEF RoomGood, RoomRest
<1>3. /\ page = "room" /\ u = [t EXCEPT !.dialog = TRUE] /\ roomCalls' = calls
      /\ route' = route /\ forum' = f /\ roomMet' = met
  BY <1>0 DEF OpenCreatePostDialog, Clickable, Shows, Click, Asks
<1>4. RoomMore(more) /\ OfKind(more, "comments") = {}
  BY <1>0, NoRoomCall
<1>a. roomCalls' = Sent(calls, more)
  BY <1>0, <1>2, <1>3, ConcatEmptySeq DEF Sent
<1>5. u \in ThreadT
  BY <1>2, <1>3 DEF ThreadT
<1>6. RoomSends(f, calls, more, t, u)
  BY <1>2, <1>3, <1>4, <1>5 DEF RoomSends, ThreadT, PostsN, CommentsN, VoteN, MemberN
<1>7. /\ t.reloading = TRUE => OfKind(more, "comments") = {}
      /\ u.reloading = TRUE <=> t.reloading = TRUE \/ OfKind(more, "comments") # {}
  BY <1>2, <1>3, <1>4 DEF ThreadT
<1>8. RoomGood(page, f, u, Sent(calls, more), met)
  BY <1>1, <1>3, <1>4, <1>5, <1>6, <1>7, RoomSent
<1> QED
  BY <1>0, <1>3, <1>a, <1>8 DEF RoomInv

LEMMA CreatePostGood ==
  ASSUME RoomInv, CreatePost
  PROVE  RoomInv'
<1>0. PICK page, f, t, calls, met, u, more :
        /\ page = route.page /\ f = forum /\ t = thread /\ calls = roomCalls /\ met = roomMet
        /\ u = thread' /\ more = <<Call("post", "")>>
  OBVIOUS
<1>1. RoomGood(page, f, t, calls, met)
  BY <1>0 DEF RoomInv
<1>2. RoomRest(page, f, t, calls) /\ t \in ThreadT /\ calls \in Seq(RoomCallT)
  BY <1>1 DEF RoomGood, RoomRest
<1>3. /\ page = "room" /\ u = t /\ roomCalls' = Sent(calls, more)
      /\ route' = route /\ forum' = f /\ roomMet' = met
  BY <1>0 DEF CreatePost, Clickable, Shows, Click, Asks
<1>4. RoomMore(more) /\ OfKind(more, "comments") = {}
  <2>1. "post" \in RoomKinds /\ "" \in RoomArgs /\ "post" # "comments"
        /\ ("post" = "vote" => "" \in Votes)
    BY DEF RoomKinds, RoomArgs, Votes
  <2>2. RoomMore(more)
    BY <1>0, <2>1, RoomCallMade
  <2>3. \A l : OfKind(more, l) = {} <=> "post" # l
    BY <1>0, <2>1, RoomCallMade
  <2>4. \A P : Pending(more, P) <=> <<"post", "sent", FALSE>> \in P
    BY <1>0, <2>1, RoomCallMade
  <2> QED
    BY <2>1, <2>2, <2>3, <2>4 DEF VoteDue
<1>a. roomCalls' = Sent(calls, more)
  BY <1>3
<1>5. u \in ThreadT
  BY <1>2, <1>3 DEF ThreadT
<1>6. RoomSends(f, calls, more, t, u)
  BY <1>2, <1>3, <1>4, <1>5 DEF RoomSends, ThreadT, PostsN, CommentsN, VoteN, MemberN
<1>7. /\ t.reloading = TRUE => OfKind(more, "comments") = {}
      /\ u.reloading = TRUE <=> t.reloading = TRUE \/ OfKind(more, "comments") # {}
  BY <1>2, <1>3, <1>4 DEF ThreadT
<1>8. RoomGood(page, f, u, Sent(calls, more), met)
  BY <1>1, <1>3, <1>4, <1>5, <1>6, <1>7, RoomSent
<1> QED
  BY <1>0, <1>3, <1>a, <1>8 DEF RoomInv

\* The comments are opened: they are loaded, unless they are being loaded.
LEMMA ToggleCommentsGood ==
  ASSUME RoomInv, ToggleComments
  PROVE  RoomInv'
<1>0. PICK page, f, t, calls, met, u, more :
        /\ page = route.page /\ f = forum /\ t = thread /\ calls = roomCalls /\ met = roomMet
        /\ u = thread' /\ more = IF thread.open THEN <<>> ELSE LoadComments
  OBVIOUS
<1>1. RoomGood(page, f, t, calls, met)
  BY <1>0 DEF RoomInv
<1>2. RoomRest(page, f, t, calls) /\ t \in ThreadT /\ calls \in Seq(RoomCallT)
  BY <1>1 DEF RoomGood, RoomRest
<1>3. /\ page = "room" /\ route' = route /\ forum' = f /\ roomMet' = met
      /\ t.open = TRUE => u = [t EXCEPT !.open = FALSE] /\ roomCalls' = calls
      /\ t.open = FALSE => u = [t EXCEPT !.open = TRUE, !.reloading = TRUE] /\ roomCalls' = Sent(calls, more)
  BY <1>0 DEF ToggleComments, Commentable, Clickable, Shows, Click, Asks
<1>b. t.open \in BOOLEAN
  BY <1>2 DEF ThreadT
<1>4. u \in ThreadT
  BY <1>2, <1>3, <1>b DEF ThreadT
<1>5. CASE t.open = TRUE
  <2>1. RoomMore(more) /\ OfKind(more, "comments") = {}
    BY <1>0, <1>5, NoRoomCall
  <2>2. roomCalls' = Sent(calls, more)
    BY <1>0, <1>2, <1>3, <1>5, ConcatEmptySeq DEF Sent
  <2>3. RoomSends(f, calls, more, t, u)
    BY <1>2, <1>3, <1>4, <1>5 DEF RoomSends, ThreadT, PostsN, CommentsN, VoteN, MemberN
  <2>4. /\ t.reloading = TRUE => OfKind(more, "comments") = {}
        /\ u.reloading = TRUE <=> t.reloading = TRUE \/ OfKind(more, "comments") # {}
    BY <1>2, <1>3, <1>5, <2>1 DEF ThreadT
  <2>5. RoomGood(page, f, u, Sent(calls, more), met)
    BY <1>1, <1>3, <1>4, <2>1, <2>3, <2>4, RoomSent
  <2> QED
    BY <1>0, <1>3, <2>2, <2>5 DEF RoomInv
<1>6. CASE t.open = FALSE
  <2>0. more = LoadComments
    BY <1>0, <1>6
  <2>1. /\ RoomMore(more)
        /\ OfKind(more, "comments") = {} <=> t.reloading = TRUE
        /\ t.reloading # TRUE => Pending(more, CommentsDue)
    BY <1>0, <1>2, <2>0, LoadsComments
  <2>2. t.reloading = TRUE => Pending(calls, CommentsDue) \/ Told(calls, {"comments"}) # {}
    <3> SUFFICES ASSUME t.reloading = TRUE
                 PROVE  Pending(calls, CommentsDue) \/ Told(calls, {"comments"}) # {}
      OBVIOUS
    <3>1. PICK i \in 1..Len(calls) : calls[i].kind = "comments"
      BY <1>2 DEF RoomRest, OfKind
    <3>2. calls[i].at \in {"sent", "served"} /\ calls[i].deaf \in BOOLEAN
      BY <1>2, RoomCallIs
    <3>3. calls[i].deaf = TRUE => calls[i].kind \in RoomWrites
      BY <1>2, RoomCallIs
    <3>4. calls[i].deaf = FALSE
      BY <3>1, <3>2, <3>3 DEF RoomWrites
    <3>5. CASE calls[i].at = "sent"
      BY <3>1, <3>4, <3>5 DEF Pending, CommentsDue
    <3>6. CASE calls[i].at = "served"
      BY <3>1, <3>6 DEF Told
    <3> QED
      BY <3>2, <3>5, <3>6
  <2>3. RoomSends(f, calls, more, t, u)
    <3>1. /\ u.posts = t.posts /\ u.vote = t.vote /\ u.comments = t.comments /\ u.member = t.member
      BY <1>2, <1>3, <1>6 DEF ThreadT
    <3>2. t.reloading = TRUE \/ t.reloading # TRUE
      OBVIOUS
    <3>3. /\ t \in PostsN(f) => u \in PostsN(f)
          /\ t \in VoteN(f) => u \in VoteN(f)
          /\ t \in MemberN(f) => u \in MemberN(f)
      BY <1>4, <3>1 DEF PostsN, VoteN, MemberN
    <3> QED
      BY <2>1, <2>2, <3>2, <3>3 DEF RoomSends
  <2>4. /\ t.reloading = TRUE => OfKind(more, "comments") = {}
        /\ u.reloading = TRUE <=> t.reloading = TRUE \/ OfKind(more, "comments") # {}
    BY <1>2, <1>3, <1>6, <2>1 DEF ThreadT
  <2>5. RoomGood(page, f, u, Sent(calls, more), met)
    BY <1>1, <1>3, <1>4, <2>1, <2>3, <2>4, RoomSent
  <2> QED
    BY <1>0, <1>3, <1>6, <2>5 DEF RoomInv
<1> QED
  BY <1>b, <1>5, <1>6

\* Somebody else comments.
LEMMA OthersCommentGood ==
  ASSUME RoomInv, OthersComment
  PROVE  RoomInv'
<1>0. PICK page, f, t, calls, met, g :
        /\ page = route.page /\ f = forum /\ t = thread /\ calls = roomCalls /\ met = roomMet /\ g = forum'
  OBVIOUS
<1>1. RoomGood(page, f, t, calls, met)
  BY <1>0 DEF RoomInv
<1>2. RoomRest(page, f, t, calls) /\ f \in ForumT /\ f.mine \subseteq f.comments
  BY <1>1 DEF RoomGood, RoomRest
<1>3. /\ Cardinality(f.comments) < MaxComments
      /\ thread' = t /\ roomCalls' = calls /\ roomMet' = met /\ route' = route
  BY <1>0 DEF OthersComment, Unprompted, browserVars
<1>a. PICK depth \in {0, 1} : g = [f EXCEPT !.comments = @ \union {<<depth, Cardinality(f.comments) + 1>>}]
  BY <1>0 DEF OthersComment
<1>4. <<depth, Cardinality(f.comments) + 1>> \in {0, 1} \X (1..MaxComments)
  <2>1. MaxComments \in Nat /\ Cardinality(f.comments) \in Nat
    BY <1>2, CommentsFinite, RoomPageAssumption DEF ForumT
  <2>2. Cardinality(f.comments) + 1 \in 1..MaxComments
    BY <1>3, <2>1
  <2> QED
    BY <2>2
<1>5. /\ g \in ForumT /\ g.mine \subseteq g.comments
      /\ g.mine = f.mine /\ g.posts = f.posts /\ g.vote = f.vote /\ g.member = f.member
      /\ f.comments \subseteq g.comments
  BY <1>2, <1>a, <1>4 DEF ForumT, Comments
<1>6. /\ PostsR(g) = PostsR(f) /\ PostsN(g) = PostsN(f)
      /\ VoteR(g) = VoteR(f) /\ VoteN(g) = VoteN(f) /\ MemberR(g) = MemberR(f) /\ MemberN(g) = MemberN(f)
  BY <1>5 DEF PostsR, PostsN, VoteR, VoteN, MemberR, MemberN
<1>b. Visible(g) \subseteq Visible(f)
  <2>1. f.comments \in Comments /\ g.comments \in Comments
    BY <1>2, <1>5 DEF ForumT
  <2>2. f.comments \intersect Foremost(g.comments) \subseteq Foremost(f.comments)
    BY <1>5, <2>1, ForemostLess
  <2> QED
    BY <1>2, <1>5, <2>2 DEF Visible
<1>c. CommentsCourse(f, t, calls, met) => CommentsCourse(g, t, calls, met)
  <2> SUFFICES ASSUME CommentsCourse(f, t, calls, met), "comments" \notin met
               PROVE  OnCourse(calls, {"comments"}, "comments", CommentsR(g), CommentsDue, t, CommentsN(g))
    BY DEF CommentsCourse, Course
  <2>1. OnCourse(calls, {"comments"}, "comments", CommentsR(f), CommentsDue, t, CommentsN(f))
    BY DEF CommentsCourse, Course
  <2>2. \A i \in 1..Len(calls) : calls[i].kind \in {"comments"} /\ <<calls[i].kind, calls[i].got>> \in CommentsR(f)
                                    => <<calls[i].kind, calls[i].got>> \in CommentsR(g)
    BY <1>b DEF CommentsR
  <2>3. t \in CommentsN(f) => t \in CommentsN(g)
    BY <1>b DEF CommentsN
  <2> QED
    BY <2>1, <2>2, <2>3, StillOnCourse
<1>7. RoomRest(page, g, t, calls)
  BY <1>2, <1>5 DEF RoomRest
<1>8. RoomCourses(f, t, calls, met) => RoomCourses(g, t, calls, met)
  BY <1>6, <1>c DEF RoomCourses, PostsCourse, VoteCourse, MemberCourse
<1>9. RoomGood(page, g, t, calls, met)
  BY <1>1, <1>7, <1>8 DEF RoomGood
<1> QED
  BY <1>0, <1>3, <1>9 DEF RoomInv

\* The page is left.
LEMMA LeaveRoomGood ==
  ASSUME RoomInv, LeaveRoom, route'.page # "room"
  PROVE  RoomInv'
<1>0. PICK page, f, t, calls, met, new, there :
        /\ page = route.page /\ f = forum /\ t = thread /\ calls = roomCalls /\ met = roomMet
        /\ new = Unheard(calls, RoomWrites) /\ there = route'.page
  OBVIOUS
<1>1. RoomRest(page, f, t, calls)
  BY <1>0 DEF RoomInv, RoomGood
<1>2. roomCalls' = new /\ forum' = f /\ thread' = NoThread /\ roomMet' = met
  BY <1>0 DEF LeaveRoom
<1>3. calls \in Seq(CallsOf(RoomKinds, RoomArgs, RoomGots, RoomTopics))
  BY <1>1 DEF RoomRest, RoomCallT
<1>4. new \in Seq(RoomCallT) /\ StillOf(new, calls, RoomWrites)
  BY <1>0, <1>3, UnheardIs DEF RoomCallT
<1>u. \A k \in 1..Len(new) : new[k].deaf = TRUE /\ new[k].at = "sent" /\ new[k].kind \in RoomWrites
  BY <1>4 DEF StillOf
<1>v. \A k \in 1..Len(new) : \E i \in 1..Len(calls) :
           /\ new[k].kind = calls[i].kind /\ new[k].arg = calls[i].arg
           /\ new[k].got = calls[i].got /\ calls[i].at = "sent"
  BY <1>4 DEF StillOf
<1>5. ASSUME NEW k \in 1..Len(new)
      PROVE  Gist(new[k]) \in RoomDeaf /\ new[k].kind # "comments"
  <2>1. new[k].deaf = TRUE /\ new[k].at = "sent" /\ new[k].kind \in RoomWrites
    BY <1>u
  <2>2. PICK i \in 1..Len(calls) :
          /\ new[k].kind = calls[i].kind /\ new[k].arg = calls[i].arg
          /\ new[k].got = calls[i].got /\ calls[i].at = "sent"
    BY <1>v
  <2>3. calls[i].kind \in RoomKinds /\ calls[i].arg \in RoomArgs /\ calls[i].got \in RoomGots
    BY <1>1, RoomCallIs
  <2>4. calls[i].kind = "vote" => calls[i].arg \in Votes
    BY <1>1, RoomCallIs
  <2>5. Gist(new[k]) = <<calls[i].kind, calls[i].arg, "sent", calls[i].got, TRUE>>
    BY <2>1, <2>2 DEF Gist
  <2>6. calls[i].kind \in RoomWrites
    BY <2>1, <2>2
  <2>7. Gist(new[k]) \in RoomDeaf
    <3>1. PICK kind \in RoomKinds, arg \in RoomArgs, got \in RoomGots :
            kind = calls[i].kind /\ arg = calls[i].arg /\ got = calls[i].got
      BY <2>3
    <3>2. <<kind, arg, "sent", got, TRUE>> \in RoomOK
      BY <2>4, <2>6, <3>1 DEF RoomOK
    <3>3. <<kind, arg, "sent", got, TRUE>> \in RoomDeaf
      BY <3>2 DEF RoomDeaf
    <3> QED
      BY <2>5, <3>1, <3>3
  <2> QED
    BY <2>1, <2>7 DEF RoomWrites
<1>6. Allowed(new, RoomDeaf) /\ Allowed(new, RoomOK)
  BY <1>5 DEF Allowed, RoomDeaf
<1>7. OfKind(new, "comments") = {}
  BY <1>5 DEF OfKind
<1>8. AtMostOne(new, "comments")
  BY <1>7 DEF AtMostOne
<1>9. RoomRest(there, f, NoThread, new)
  <2>1. f \in ForumT /\ f.mine \subseteq f.comments
    BY <1>1 DEF RoomRest
  <2> QED
    BY <1>4, <1>6, <1>7, <1>8, <2>1, NoThreadIs DEF RoomRest
<1> QED
  BY <1>0, <1>2, <1>9 DEF RoomInv, RoomGood

\* The page is made.
LEMMA EnterRoomGood ==
  ASSUME RoomInv, EnterRoom, route.page # "room", route'.page = "room"
  PROVE  RoomInv'
<1>0. PICK page, f, t, calls, met, a, b, u :
        /\ page = route.page /\ f = forum /\ t = thread /\ calls = roomCalls /\ met = roomMet
        /\ a = LoadRoom /\ b = LoadPosts /\ u = [NoThread EXCEPT !.busy = TRUE]
  OBVIOUS
<1>1. RoomRest(page, f, t, calls)
  BY <1>0 DEF RoomInv, RoomGood
<1>2. /\ f \in ForumT /\ f.mine \subseteq f.comments /\ calls \in Seq(RoomCallT) /\ Allowed(calls, RoomOK)
      /\ t = NoThread /\ AtMostOne(calls, "comments") /\ (t.reloading = TRUE <=> OfKind(calls, "comments") # {})
      /\ Allowed(calls, RoomDeaf)
  BY <1>0, <1>1 DEF RoomRest
<1>3. forum' = f /\ thread' = u /\ roomCalls' = Sent(Sent(calls, a), b) /\ roomMet' = {}
  BY <1>0 DEF EnterRoom, Sent
<1>4. /\ RoomMore(a) /\ OfKind(a, "comments") = {} /\ Pending(a, MemberDue)
      /\ RoomMore(b) /\ OfKind(b, "comments") = {} /\ Pending(b, PostsDue)
  <2>1. "room" \in RoomKinds /\ "posts" \in RoomKinds /\ "" \in RoomArgs /\ "posts" # "comments" /\ "room" # "comments"
        /\ "posts" # "vote" /\ "room" # "vote"
    BY DEF RoomKinds, RoomArgs
  <2>a. a = <<Call("room", "")>>
    BY <1>0 DEF LoadRoom
  <2>b. b = <<Call("posts", "")>>
    BY <1>0 DEF LoadPosts
  <2>2. a = <<Call("room", "")>> /\ b = <<Call("posts", "")>>
    BY <2>a, <2>b
  <2>3. RoomMore(a) /\ RoomMore(b)
    BY <2>1, <2>2, RoomCallMade
  <2>4. OfKind(a, "comments") = {}
    BY <2>1, <2>a, RoomCallMade
  <2>5. OfKind(b, "comments") = {}
    BY <2>1, <2>b, RoomCallMade
  <2>6. \A P : Pending(a, P) <=> <<"room", "sent", FALSE>> \in P
    BY <2>1, <2>2, RoomCallMade
  <2>7. \A P : Pending(b, P) <=> <<"posts", "sent", FALSE>> \in P
    BY <2>1, <2>2, RoomCallMade
  <2> QED
    BY <2>1, <2>3, <2>4, <2>5, <2>6, <2>7 DEF PostsDue, MemberDue
<1>5. u \in ThreadT /\ u.reloading = FALSE /\ u.open = FALSE /\ u.comments = {}
  BY <1>0, NoThreadIs DEF ThreadT
<1>6. RoomRest("room", f, u, Sent(Sent(calls, a), b))
  <2>1. RoomRest("room", f, t, calls)
    BY <1>2, NoThreadIs DEF RoomRest
  <2>2. t.reloading = FALSE /\ t \in ThreadT
    BY <1>2, NoThreadIs
  <2>3. RoomRest("room", f, t, Sent(calls, a))
    BY <1>4, <2>1, <2>2, RoomRestSent
  <2> QED
    BY <1>4, <1>5, <2>2, <2>3, RoomRestSent
<1>7. calls \in Seq(RoomCallT) /\ a \in Seq(RoomCallT) /\ b \in Seq(RoomCallT)
      /\ (\A k \in 1..Len(a) : a[k].at = "sent") /\ \A k \in 1..Len(b) : b[k].at = "sent"
  BY <1>2, <1>4 DEF RoomMore
<1>8. PICK c : c = Sent(calls, a) /\ c \in Seq(RoomCallT)
  BY <1>7, SentIs
<1>9. PostsCourse(f, u, Sent(c, b), {})
  <2>1. OnTrack(Sent(c, b), {"posts"}, "posts", PostsR(f), PostsDue)
    BY <1>4, <1>7, <1>8, SentOnTrack
  <2> QED
    BY <2>1 DEF PostsCourse, Course, OnCourse
<1>10. MemberCourse(f, u, Sent(c, b), {})
  <2>1. OnTrack(c, {"members", "join"}, "member", MemberR(f), MemberDue)
    BY <1>4, <1>7, <1>8, SentOnTrack
  <2>2. OnTrack(Sent(c, b), {"members", "join"}, "member", MemberR(f), MemberDue)
    BY <1>7, <1>8, <2>1, SentOnTrack
  <2> QED
    BY <2>2 DEF MemberCourse, Course, OnCourse
<1>11. \A kinds : Told(Sent(c, b), kinds) = {}
  <2> TAKE kinds
  <2>1. ASSUME NEW i \in 1..Len(calls) PROVE calls[i].at = "sent"
    <3>1. Gist(calls[i]) \in RoomDeaf
      BY <1>2 DEF Allowed
    <3>2. Gist(calls[i])[3] = "sent"
      BY <3>1 DEF RoomDeaf, RoomOK
    <3> QED
      BY <3>2 DEF Gist
  <2>2. Told(calls, kinds) = {}
    BY <2>1 DEF Told
  <2>3. Told(Sent(calls, a), kinds) = Told(calls, kinds)
    BY <1>7, SentTold
  <2>4. Told(Sent(c, b), kinds) = Told(c, kinds)
    BY <1>7, <1>8, SentTold
  <2> QED
    BY <1>8, <2>2, <2>3, <2>4
<1>12. u \in CommentsN(f) /\ u \in VoteN(f)
  BY <1>5 DEF CommentsN, VoteN
<1>13. CommentsCourse(f, u, Sent(c, b), {}) /\ VoteCourse(f, u, Sent(c, b), {})
  BY <1>11, <1>12 DEF CommentsCourse, VoteCourse, Course, OnCourse
<1>14. RoomGood("room", f, u, Sent(c, b), {})
  BY <1>6, <1>8, <1>9, <1>10, <1>13 DEF RoomGood, RoomCourses
<1> QED
  BY <1>3, <1>8, <1>14 DEF RoomInv

\* The page stays as it is.
LEMMA RoomStays ==
  ASSUME RoomInv, UNCHANGED roomVars,
         route'.page = route.page \/ (route.page # "room" /\ route'.page # "room")
  PROVE  RoomInv'
<1>0. PICK page, f, t, calls, met, there :
        /\ page = route.page /\ f = forum /\ t = thread /\ calls = roomCalls /\ met = roomMet /\ there = route'.page
  OBVIOUS
<1>1. RoomGood(page, f, t, calls, met)
  BY <1>0 DEF RoomInv
<1>2. forum' = f /\ thread' = t /\ roomCalls' = calls /\ roomMet' = met
  BY <1>0 DEF roomVars
<1>3. RoomGood(there, f, t, calls, met)
  BY <1>0, <1>1 DEF RoomGood, RoomRest
<1> QED
  BY <1>0, <1>2, <1>3 DEF RoomInv

\* The room is not there: the page goes back to the forum.
LEMMA RoomNotFoundGood ==
  ASSUME RoomInv, NEW j \in 1..Len(roomCalls), RoomNotFound(j)
  PROVE  RoomInv'
<1>1. LeaveRoom /\ route'.page = "forum"
  BY DEF RoomNotFound, UnpromptedTo, FailingTo, Goes, At
<1> QED
  BY <1>1, LeaveRoomGood

\* Every step of the page keeps it good.
LEMMA RoomNextGood ==
  ASSUME RoomInv, RoomNext
  PROVE  RoomInv'
<1>1. CASE ToggleComments
  BY <1>1, ToggleCommentsGood
<1>2. CASE SubmitComment
  BY <1>2, SubmitCommentGood
<1>3. CASE SubmitReply
  BY <1>3, SubmitReplyGood
<1>4. CASE UpvoteComment
  BY <1>4, UpvoteCommentGood
<1>5. CASE DownvoteComment
  BY <1>5, DownvoteCommentGood
<1>6. CASE JoinRoom
  BY <1>6, JoinRoomGood
<1>7. CASE OpenCreatePostDialog
  BY <1>7, OpenCreatePostDialogGood
<1>8. CASE CreatePost
  BY <1>8, CreatePostGood
<1>9. CASE OthersComment
  BY <1>9, OthersCommentGood
<1>10. ASSUME NEW j \in 1..Len(roomCalls),
              \/ GetRoomById(j) \/ GetRoomMembers(j) \/ GetPostsByRoom(j) \/ GetCommentsByPost(j)
              \/ CreateComment(j) \/ VoteComment(j) \/ CreatePostServed(j) \/ JoinRoomServed(j)
       PROVE  RoomInv'
  BY <1>10, GetRoomByIdGood, GetRoomMembersGood, GetPostsByRoomGood, GetCommentsByPostGood,
     CreateCommentGood, VoteCommentGood, CreatePostServedGood, JoinRoomServedGood
<1>11. ASSUME NEW j \in 1..Len(roomCalls),
              \/ RoomLoaded(j) \/ MembersLoaded(j) \/ PostsLoaded(j) \/ CommentsLoaded(j)
              \/ Commented(j) \/ Replied(j) \/ Upvotes(j) \/ Downvotes(j) \/ Joined(j) \/ Posted(j)
       PROVE  RoomInv'
  BY <1>11, RoomLoadedGood, MembersLoadedGood, PostsLoadedGood, CommentsLoadedGood, CommentedGood,
     RepliedGood, UpvotesGood, DownvotesGood, JoinedGood, PostedGood
<1>12. ASSUME NEW j \in 1..Len(roomCalls),
              \/ MembersFailed(j) \/ PostsFailed(j) \/ CommentsFailed(j) \/ CommentFailed(j)
              \/ ReplyFailed(j) \/ JoinFailed(j) \/ PostFailed(j)
              \/ UpvoteFailed(j) \/ DownvoteFailed(j) \/ RoomNotFound(j)
       PROVE  RoomInv'
  <2>1. UpvoteFailed(j) \/ DownvoteFailed(j) => VoteFailed(j)
    BY DEF UpvoteFailed, DownvoteFailed
  <2> QED
    BY <1>12, <2>1, MembersFailedGood, PostsFailedGood, CommentsFailedGood, CommentFailedGood, ReplyFailedGood,
       JoinFailedGood, PostFailedGood, VoteFailedGood, RoomNotFoundGood
<1> QED
  BY <1>1, <1>2, <1>3, <1>4, <1>5, <1>6, <1>7, <1>8, <1>9, <1>10, <1>11, <1>12 DEF RoomNext

\* At the start there is no page.
LEMMA RoomInitGood ==
  ASSUME BrowserInit, RoomInit
  PROVE  RoomInv
<1>1. route.page = "elsewhere"
  BY DEF BrowserInit, At
<1>2. /\ thread = NoThread /\ roomCalls = <<>>
  BY DEF RoomInit
<1>3. forum \in ForumT /\ forum.mine \subseteq forum.comments
  <2>1. First \in {0, 1} \X (1..MaxComments)
    BY RoomPageAssumption DEF First
  <2> QED
    BY <2>1 DEF RoomInit, ForumT, Comments, VoteStates
<1>4. RoomRest("elsewhere", forum, NoThread, <<>>)
  BY <1>3, NoThreadIs, NoCalls DEF RoomRest
<1> QED
  BY <1>1, <1>2, <1>4 DEF RoomInv, RoomGood

\* The invariant gives what the page shows.
LEMMA RoomInvShows ==
  ASSUME RoomInv
  PROVE  RoomShown
<1> SUFFICES ASSUME Shows("room"), roomCalls = <<>>
             PROVE  /\ "posts" \in roomMet \/ thread.posts = NewestPosts(forum.posts)
                    /\ \/ "comments" \in roomMet \/ Visible(forum) \subseteq thread.comments
                       \/ ~thread.open /\ thread.comments = {}
                    /\ "vote" \in roomMet \/ thread.comments = {} \/ thread.vote = forum.vote
                    /\ "member" \in roomMet \/ thread.member = forum.member
  BY DEF RoomShown, RoomQuiet, Visible
<1>0. PICK f, t, met : f = forum /\ t = thread /\ met = roomMet
  OBVIOUS
<1>1. RoomCourses(f, t, <<>>, met) /\ t \in ThreadT
  BY <1>0 DEF RoomInv, RoomGood, RoomRest, Shows
<1>2. \A kinds, topic, R, dues, N : OnCourse(<<>>, kinds, topic, R, dues, t, N) => t \in N
  <2>1. (\A P : ~ Pending(<<>>, P)) /\ \A kinds : Told(<<>>, kinds) = {}
    BY NoCalls
  <2> QED
    BY <2>1 DEF OnCourse, OnTrack
<1>3. /\ "posts" \in met \/ t \in PostsN(f)
      /\ "comments" \in met \/ t \in CommentsN(f)
      /\ "vote" \in met \/ t \in VoteN(f)
      /\ "member" \in met \/ t \in MemberN(f)
  BY <1>1, <1>2 DEF RoomCourses, PostsCourse, CommentsCourse, VoteCourse, MemberCourse, Course
<1> QED
  BY <1>0, <1>3 DEF PostsN, CommentsN, VoteN, MemberN

-----------------------------------------------------------------------------
(***************************************************************************)
(* The three pages behind one router.                                      *)
(***************************************************************************)
\* A picture that has ended is waited for by the viewer that shows it.
EndsInViewer == due.next = TRUE => route.page = "viewer"

\* The actions that go from one place to another on behalf of the stories.
LEMMA StoryGoes ==
  ASSUME EndsInViewer, StoryNext
  PROVE  /\ route'.page = route.page \/ (route.page # "room" /\ route'.page # "room")
         /\ EndsInViewer'
<1>1. NextPlace.page \in {"viewer", "stories"} /\ \A k : Landing(At("viewer", k)).page \in {"viewer", "stories"}
  BY DEF NextPlace, Landing, At
<1>2. ASSUME NEW place, NEW pending, StoryArrives(place, pending), route' = place,
             place.page \in {"viewer", "stories"}, pending.next = TRUE => route.page = "viewer"
      PROVE  EndsInViewer'
  <2>1. CASE Shows("viewer") /\ place.page = "viewer"
    BY <1>2, <2>1 DEF EndsInViewer
  <2>2. CASE ~(Shows("viewer") /\ place.page = "viewer")
    <3>1. due' = [pending EXCEPT !.play = FALSE, !.next = FALSE,
                                 !.pull = IF pending.next THEN NextPlace ELSE @]
      BY <1>2, <2>2 DEF StoryArrives
    <3>2. due'.next # TRUE
      BY <3>1
    <3> QED
      BY <3>2 DEF EndsInViewer
  <2> QED
    BY <2>1, <2>2
<1>3. CASE NextStory
  <2>1. Shows("viewer") /\ route' = NextPlace /\ StoryArrives(NextPlace, due)
    BY <1>3 DEF NextStory, ClickTo, Goes
  <2> QED
    BY <1>1, <1>2, <2>1 DEF Shows
<1>4. CASE PreviousStory
  <2>1. PICK newer : /\ newer = Landing(At("viewer", player.story + 1))
                     /\ Shows("viewer") /\ route' = newer /\ StoryArrives(newer, due)
    BY <1>4 DEF PreviousStory, ClickTo, Goes
  <2> QED
    BY <1>1, <1>2, <2>1 DEF Shows
<1>5. CASE TogglePlayPause
  BY <1>5 DEF TogglePlayPause, Click, EndsInViewer
<1>6. CASE ImageTimerEnds
  BY <1>6 DEF ImageTimerEnds, Unprompted, browserVars, Shows, EndsInViewer
<1>7. CASE OnImageTimerEnd
  <2>1. route.page = "viewer"
    BY <1>7 DEF OnImageTimerEnd, EndsInViewer
  <2>2. route' = NextPlace /\ StoryArrives(NextPlace, [due EXCEPT !.next = FALSE])
    BY <1>7 DEF OnImageTimerEnd, UnpromptedTo, Goes
  <2> QED
    BY <1>1, <1>2, <2>1, <2>2
<1>8. CASE PlayVideo
  <2>1. due' = [due EXCEPT !.play = FALSE] /\ route' = route
    BY <1>8 DEF PlayVideo, Unprompted, browserVars
  <2> QED
    BY <2>1 DEF EndsInViewer
<1>9. CASE UploadStory
  BY <1>9 DEF UploadStory, Click, EndsInViewer
<1>10. CASE UploadGoesHome
  <2>1. PICK place, pending : place = At("stories", 0) /\ pending = [due EXCEPT !.home = FALSE]
    OBVIOUS
  <2>2. route.page = "upload" /\ route' = place /\ StoryArrives(place, pending) /\ place.page = "stories"
    BY <1>10, <2>1 DEF UploadGoesHome, UnpromptedTo, Goes, Shows, At
  <2>3. pending.next = TRUE => route.page = "viewer"
    BY <2>1 DEF EndsInViewer
  <2> QED
    BY <1>2, <2>2, <2>3
<1>11. ASSUME NEW j \in 1..Len(storyCalls),
              \/ ServeUpload(j) \/ ServeList(j) \/ Uploaded(j) \/ ListLoaded(j) \/ MediaLoaded(j)
              \/ MediaFailed(j) \/ ListFailed(j) \/ UploadFailed(j)
       PROVE  route' = route /\ (due'.next = TRUE => due.next = TRUE)
  <2>1. CASE ServeUpload(j) \/ ServeList(j) \/ ListLoaded(j)
    BY <2>1 DEF ServeUpload, ServeList, ListLoaded, Unprompted, browserVars
  <2>2. CASE Uploaded(j)
    BY <2>2 DEF Uploaded, Unprompted, browserVars
  <2>3. CASE MediaLoaded(j)
    BY <2>3 DEF MediaLoaded, Unprompted, browserVars
  <2>4. CASE MediaFailed(j)
    BY <2>4 DEF MediaFailed, Failing
  <2>5. CASE ListFailed(j) \/ UploadFailed(j)
    BY <2>5 DEF ListFailed, UploadFailed, Failing
  <2> QED
    BY <1>11, <2>1, <2>2, <2>3, <2>4, <2>5
<1>12. CASE \E j \in 1..Len(storyCalls) :
              \/ ServeUpload(j) \/ ServeList(j) \/ Uploaded(j) \/ ListLoaded(j) \/ MediaLoaded(j)
              \/ MediaFailed(j) \/ ListFailed(j) \/ UploadFailed(j)
  <2>1. PICK there : there = route'
    OBVIOUS
  <2>2. there = route /\ (due'.next = TRUE => due.next = TRUE)
    BY <1>11, <1>12, <2>1
  <2> QED
    BY <2>1, <2>2 DEF EndsInViewer
<1> QED
  BY <1>3, <1>4, <1>5, <1>6, <1>7, <1>8, <1>9, <1>10, <1>12 DEF StoryNext

\* The people never move the tab.
LEMMA PeopleStay ==
  ASSUME PeopleNext
  PROVE  route' = route
BY DEF PeopleNext, SetFilter, ApplyFilters, SetSearch, RefreshData, LoadMoreUsers, SuperLikeReceived,
       CountsLost, ComesOnline, OnSuperLikeClick, OthersSuperLike, FriendsLoaded, PageLoaded, PageFailed,
       SendSuperLike, SuperLikeSent, Click, Happens, Failing, Unprompted, browserVars

\* The room moves the tab only when it is not there, and then from its page.
LEMMA RoomGoes ==
  ASSUME RoomInv, RoomNext
  PROVE  route' = route \/ (route.page = "room" /\ route'.page = "forum")
<1>1. ASSUME ToggleComments \/ SubmitComment \/ SubmitReply \/ UpvoteComment \/ DownvoteComment
                \/ JoinRoom \/ OpenCreatePostDialog \/ CreatePost
      PROVE  route' = route
  BY <1>1 DEF ToggleComments, SubmitComment, SubmitReply, UpvoteComment, DownvoteComment,
              JoinRoom, OpenCreatePostDialog, CreatePost, Click
<1>2. ASSUME OthersComment
      PROVE  route' = route
  BY <1>2 DEF OthersComment, Unprompted, browserVars
<1>3. ASSUME NEW j \in 1..Len(roomCalls),
              \/ GetRoomById(j) \/ GetRoomMembers(j) \/ GetPostsByRoom(j) \/ GetCommentsByPost(j)
              \/ CreateComment(j) \/ VoteComment(j) \/ CreatePostServed(j) \/ JoinRoomServed(j)
       PROVE  route' = route
  <2>1. \A kinds, did, got : Serve(j, kinds, did, got) => route' = route
    BY DEF Serve, Unprompted, browserVars
  <2> QED
    BY <1>3, <2>1 DEF GetRoomById, GetRoomMembers, GetPostsByRoom, GetCommentsByPost,
                      CreateComment, VoteComment, CreatePostServed, JoinRoomServed
<1>4. ASSUME NEW j \in 1..Len(roomCalls),
              \/ RoomLoaded(j) \/ MembersLoaded(j) \/ PostsLoaded(j) \/ CommentsLoaded(j)
              \/ Commented(j) \/ Replied(j) \/ Upvotes(j) \/ Downvotes(j) \/ Joined(j) \/ Posted(j)
       PROVE  route' = route
  <2>1. \A kind, more : Heard(j, kind, more) => route' = route
    BY DEF Heard, Unprompted, browserVars
  <2> QED
    BY <1>4, <2>1 DEF RoomLoaded, MembersLoaded, PostsLoaded, CommentsLoaded, Commented, Replied,
                      Upvotes, Downvotes, Joined, Posted
<1>5. ASSUME NEW j \in 1..Len(roomCalls),
              \/ MembersFailed(j) \/ PostsFailed(j) \/ CommentsFailed(j) \/ CommentFailed(j)
              \/ ReplyFailed(j) \/ JoinFailed(j) \/ PostFailed(j) \/ UpvoteFailed(j) \/ DownvoteFailed(j)
       PROVE  route' = route
  <2>1. \A kind : Errs(j, kind) => route' = route
    BY DEF Errs, Unprompted, Failing, browserVars
  <2> QED
    BY <1>5, <2>1 DEF MembersFailed, PostsFailed, CommentsFailed, CommentFailed, ReplyFailed, JoinFailed,
                      PostFailed, UpvoteFailed, DownvoteFailed, VoteFailed, Fails
<1>6. ASSUME NEW j \in 1..Len(roomCalls), RoomNotFound(j)
       PROVE  route.page = "room" /\ route'.page = "forum"
  <2>1. PICK page, f, t, calls, met :
          page = route.page /\ f = forum /\ t = thread /\ calls = roomCalls /\ met = roomMet
    OBVIOUS
  <2>2. RoomRest(page, f, t, calls) /\ j \in 1..Len(calls)
    BY <1>6, <2>1 DEF RoomInv, RoomGood
  <2>3. calls[j].deaf \in BOOLEAN /\ (calls[j].deaf = FALSE => page = "room")
    BY <2>2, RoomCallIs
  <2>4. ~calls[j].deaf
    BY <1>6, <2>1 DEF RoomNotFound
  <2>5. route'.page = "forum"
    BY <1>6 DEF RoomNotFound, UnpromptedTo, FailingTo, Failing, Goes, At
  <2> QED
    BY <2>1, <2>3, <2>4, <2>5
<1> QED
  BY <1>1, <1>2, <1>3, <1>4, <1>5, <1>6 DEF RoomNext

\* The user and the timeouts go from page to page.
LEMMA ArrivesGood ==
  ASSUME RoomInv, NEW place, NEW pending, pending.next = TRUE => due.next = TRUE, EndsInViewer,
         Arrives(place, pending), route' = place
  PROVE  RoomInv' /\ EndsInViewer'
<1>1. RoomInv'
  <2>1. CASE place.page = "room"
    <3>1. EnterRoom /\ route.page # "room" /\ route'.page = "room"
      BY <2>1 DEF Arrives
    <3> QED
      BY <3>1, EnterRoomGood
  <2>2. CASE place.page # "room" /\ Shows("room")
    <3>1. LeaveRoom /\ route'.page # "room"
      BY <2>2 DEF Arrives
    <3> QED
      BY <3>1, LeaveRoomGood
  <2>3. CASE place.page # "room" /\ ~Shows("room")
    <3>1. UNCHANGED roomVars
      BY <2>3 DEF Arrives
    <3>2. route.page # "room" /\ route'.page # "room"
      BY <2>3 DEF Shows
    <3> QED
      BY <3>1, <3>2, RoomStays
  <2> QED
    BY <2>1, <2>2, <2>3
<1>2. EndsInViewer'
  <2>1. StoryArrives(place, pending)
    BY DEF Arrives
  <2>2. CASE Shows("viewer") /\ place.page = "viewer"
    BY <2>1, <2>2 DEF EndsInViewer
  <2>3. CASE ~(Shows("viewer") /\ place.page = "viewer")
    <3>1. due' = [pending EXCEPT !.play = FALSE, !.next = FALSE,
                                 !.pull = IF pending.next THEN NextPlace ELSE @]
      BY <2>1, <2>3 DEF StoryArrives
    <3>2. due'.next # TRUE
      BY <3>1
    <3> QED
      BY <3>2 DEF EndsInViewer
  <2> QED
    BY <2>2, <2>3
<1> QED
  BY <1>1, <1>2

LEMMA PulledGood ==
  ASSUME RoomInv, EndsInViewer, NEW place, NEW pending,
         pending.next = TRUE => due.next = TRUE, Pulled(place, pending)
  PROVE  RoomInv' /\ EndsInViewer'
<1>1. CASE route = place
  <2>1. UNCHANGED roomVars /\ due' = pending /\ route' = route
    BY <1>1 DEF Pulled, Unprompted, browserVars
  <2>2. PICK here : here = route.page
    OBVIOUS
  <2>3. RoomInv'
    BY <2>1, RoomStays
  <2>4. EndsInViewer'
    BY <2>1 DEF EndsInViewer
  <2> QED
    BY <2>3, <2>4
<1>2. CASE route # place
  <2>1. route' = place /\ Arrives(place, pending)
    BY <1>2 DEF Pulled, UnpromptedTo, Goes
  <2> QED
    BY <2>1, ArrivesGood
<1> QED
  BY <1>1, <1>2

\* Every step of the tab keeps the page of the room good.
LEMMA TabKeepsRoom ==
  ASSUME RoomInv, EndsInViewer, PagesNext
  PROVE  RoomInv' /\ EndsInViewer'
<1>1. CASE RoomNext /\ UNCHANGED <<peopleVars, storyVars>>
  <2>1. RoomInv'
    BY <1>1, RoomNextGood
  <2>2. route' = route \/ route.page = "room"
    BY <1>1, RoomGoes
  <2>3. EndsInViewer'
    BY <1>1, <2>2 DEF EndsInViewer, storyVars
  <2> QED
    BY <2>1, <2>3
<1>2. CASE PeopleNext /\ UNCHANGED <<roomVars, storyVars>>
  <2>1. route' = route
    BY <1>2, PeopleStay
  <2>2. RoomInv'
    BY <1>2, <2>1, RoomStays
  <2>3. EndsInViewer'
    BY <1>2, <2>1 DEF EndsInViewer, storyVars
  <2> QED
    BY <2>2, <2>3
<1>3. CASE StoryNext /\ UNCHANGED <<roomVars, peopleVars>>
  <2>1. /\ route'.page = route.page \/ (route.page # "room" /\ route'.page # "room")
        /\ EndsInViewer'
    BY <1>3, StoryGoes
  <2> QED
    BY <1>3, <2>1, RoomStays
<1>4. CASE Go
  <2>1. PICK place \in Places : route' = place /\ Arrives(place, due)
    BY <1>4 DEF Go, ClickTo, Goes
  <2> QED
    BY <2>1, ArrivesGood
<1>5. CASE PulledToNextStory
  <2>1. PICK place, pending : place = Landing(due.pull) /\ pending = [due EXCEPT !.pull = Stays]
    OBVIOUS
  <2>2. Pulled(place, pending)
    BY <1>5, <2>1 DEF PulledToNextStory
  <2>3. pending.next = TRUE => due.next = TRUE
    BY <2>1
  <2> QED
    BY <2>2, <2>3, PulledGood
<1>6. CASE PulledToStories
  <2>1. PICK place, pending : place = At("stories", 0) /\ pending = [due EXCEPT !.home = FALSE]
    OBVIOUS
  <2>2. Pulled(place, pending)
    BY <1>6, <2>1 DEF PulledToStories
  <2>3. pending.next = TRUE => due.next = TRUE
    BY <2>1
  <2> QED
    BY <2>2, <2>3, PulledGood
<1> QED
  BY <1>1, <1>2, <1>3, <1>4, <1>5, <1>6 DEF PagesNext

\* At rest the page of a room shows what the server has (RoomPage).
THEOREM PagesShowRoom == PagesSpec => []RoomShown
<1>1. PagesInit => RoomInv /\ EndsInViewer
  BY RoomInitGood DEF PagesInit, StoryInit, NoneDue, EndsInViewer
<1>2. (RoomInv /\ EndsInViewer) /\ [PagesNext]_pagesVars => (RoomInv /\ EndsInViewer)'
  <2> SUFFICES ASSUME RoomInv, EndsInViewer, [PagesNext]_pagesVars
               PROVE  RoomInv' /\ EndsInViewer'
    OBVIOUS
  <2>1. CASE PagesNext
    BY <2>1, TabKeepsRoom
  <2>2. CASE UNCHANGED pagesVars
    <3>1. route' = route /\ UNCHANGED roomVars /\ UNCHANGED storyVars
      BY <2>2 DEF pagesVars, browserVars
    <3>2. RoomInv'
      BY <3>1, RoomStays
    <3>3. EndsInViewer'
      BY <3>1 DEF EndsInViewer, storyVars
    <3> QED
      BY <3>2, <3>3
  <2> QED
    BY <2>1, <2>2
<1>3. RoomInv => RoomShown
  BY RoomInvShows
<1> QED
  BY <1>1, <1>2, <1>3, PTL DEF PagesSpec

-----------------------------------------------------------------------------
(***************************************************************************)
(* Calls that are answered as they are: of these the last that was sent    *)
(* counts.                                                                 *)
(***************************************************************************)
\* The last of a kind asks for one of these, or it is known to be late ...
LastAsks(calls, kind, W, topic) ==
  \A i \in OfKind(calls, kind) :
    (\A k \in OfKind(calls, kind) : k <= i) => calls[i].arg \in W \/ topic \in calls[i].late

\* ... or all of them do.
AllAsk(calls, kind, W) == \A i \in OfKind(calls, kind) : calls[i].arg \in W

LEMMA RidAsks ==
  ASSUME NEW S, NEW old \in Seq(S), NEW j \in 1..Len(old), NEW new, Rid(new, old, j),
         NEW kind, NEW W, NEW topic
  PROVE  /\ AllAsk(old, kind, W) => AllAsk(new, kind, W)
         /\ old[j].kind # kind /\ LastAsks(old, kind, W, topic) => LastAsks(new, kind, W, topic)
<1>1. Len(old) \in Nat /\ Len(new) = Len(old) - 1
  BY LenProperties DEF Rid
<1>2. /\ \A k \in 1..Len(old) - 1 : Was(j, k) \in 1..Len(old)
      /\ \A i \in 1..Len(old) : i # j => \E k \in 1..Len(old) - 1 : Was(j, k) = i
      /\ \A k, l \in 1..Len(old) - 1 : k <= l <=> Was(j, k) <= Was(j, l)
  BY <1>1, WasOnto
<1>3. \A k \in 1..Len(old) - 1 : /\ new[k].kind = old[Was(j, k)].kind /\ new[k].arg = old[Was(j, k)].arg
                                 /\ old[Was(j, k)].late \subseteq new[k].late
  BY DEF Rid, SameCall
<1>4. \A k \in OfKind(new, kind) : k \in 1..Len(old) - 1 /\ Was(j, k) \in OfKind(old, kind)
  BY <1>1, <1>2, <1>3 DEF OfKind
<1>5. AllAsk(old, kind, W) => AllAsk(new, kind, W)
  BY <1>3, <1>4 DEF AllAsk
<1>6. ASSUME old[j].kind # kind, LastAsks(old, kind, W, topic),
             NEW k \in OfKind(new, kind), \A l \in OfKind(new, kind) : l <= k
      PROVE  new[k].arg \in W \/ topic \in new[k].late
  <2>1. \A i \in OfKind(old, kind) : \E l \in OfKind(new, kind) : Was(j, l) = i
    <3> TAKE i \in OfKind(old, kind)
    <3>1. i \in 1..Len(old) /\ i # j /\ old[i].kind = kind
      BY <1>6 DEF OfKind
    <3>2. PICK l \in 1..Len(old) - 1 : Was(j, l) = i
      BY <1>2, <3>1
    <3>3. l \in OfKind(new, kind)
      BY <1>1, <1>3, <3>1, <3>2 DEF OfKind
    <3> QED
      BY <3>2, <3>3
  <2>2. \A i \in OfKind(old, kind) : i <= Was(j, k)
    <3> TAKE i \in OfKind(old, kind)
    <3>1. PICK l \in OfKind(new, kind) : Was(j, l) = i
      BY <2>1
    <3>2. l <= k /\ l \in 1..Len(old) - 1 /\ k \in 1..Len(old) - 1
      BY <1>4, <1>6
    <3> QED
      BY <1>2, <3>1, <3>2
  <2>3. old[Was(j, k)].arg \in W \/ topic \in old[Was(j, k)].late
    BY <1>4, <1>6, <2>2 DEF LastAsks
  <2> QED
    BY <1>3, <1>4, <2>3
<1> QED
  BY <1>5, <1>6 DEF LastAsks

LEMMA ServedAsks ==
  ASSUME NEW K, NEW A, NEW G, NEW T, NEW calls \in Seq(CallsOf(K, A, G, T)), NEW j \in 1..Len(calls), NEW got \in G,
         NEW kind, NEW W, NEW topic, calls[j].kind # kind
  PROVE  /\ AllAsk(calls, kind, W) => AllAsk(Served(calls, j, got), kind, W)
         /\ LastAsks(calls, kind, W, topic) => LastAsks(Served(calls, j, got), kind, W, topic)
<1>0. PICK new : new = Served(calls, j, got)
  OBVIOUS
<1>a. \A k \in 1..Len(calls) - 1 : Served(calls, j, got)[k] = calls[Was(j, k)]
  BY ServedIs
<1>b. Served(calls, j, got)[Len(calls)].kind = calls[j].kind
  BY ServedIs
<1>c. Len(Served(calls, j, got)) = Len(calls)
  BY ServedIs
<1>1. Len(calls) \in Nat /\ Len(new) = Len(calls)
  BY <1>0, <1>c, LenProperties
<1>2. /\ \A k \in 1..Len(calls) - 1 : Was(j, k) \in 1..Len(calls)
      /\ \A i \in 1..Len(calls) : i # j => \E k \in 1..Len(calls) - 1 : Was(j, k) = i
      /\ \A k, l \in 1..Len(calls) - 1 : k <= l <=> Was(j, k) <= Was(j, l)
  BY <1>1, WasOnto
<1>3. \A k \in 1..Len(calls) - 1 : new[k] = calls[Was(j, k)]
  BY <1>0, <1>a
<1>4. \A k \in OfKind(new, kind) : k \in 1..Len(calls) - 1
  <2> TAKE k \in OfKind(new, kind)
  <2>1. k \in 1..Len(calls) /\ new[k].kind = kind
    BY <1>1 DEF OfKind
  <2>2. k # Len(calls)
    BY <1>0, <1>b, <2>1
  <2> QED
    BY <1>1, <2>1, <2>2
<1>5. \A k \in OfKind(new, kind) : Was(j, k) \in OfKind(calls, kind)
  BY <1>2, <1>3, <1>4 DEF OfKind
<1>6. AllAsk(calls, kind, W) => AllAsk(new, kind, W)
  BY <1>3, <1>4, <1>5 DEF AllAsk
<1>7. ASSUME LastAsks(calls, kind, W, topic), NEW k \in OfKind(new, kind), \A l \in OfKind(new, kind) : l <= k
      PROVE  new[k].arg \in W \/ topic \in new[k].late
  <2>1. \A i \in OfKind(calls, kind) : \E l \in OfKind(new, kind) : Was(j, l) = i
    <3> TAKE i \in OfKind(calls, kind)
    <3>1. i \in 1..Len(calls) /\ i # j /\ calls[i].kind = kind
      BY DEF OfKind
    <3>2. PICK l \in 1..Len(calls) - 1 : Was(j, l) = i
      BY <1>2, <3>1
    <3>3. l \in OfKind(new, kind)
      BY <1>1, <1>3, <3>1, <3>2 DEF OfKind
    <3> QED
      BY <3>2, <3>3
  <2>2. \A i \in OfKind(calls, kind) : i <= Was(j, k)
    <3> TAKE i \in OfKind(calls, kind)
    <3>1. PICK l \in OfKind(new, kind) : Was(j, l) = i
      BY <2>1
    <3>2. l <= k /\ l \in 1..Len(calls) - 1 /\ k \in 1..Len(calls) - 1
      BY <1>4, <1>7
    <3> QED
      BY <1>2, <3>1, <3>2
  <2>3. calls[Was(j, k)].arg \in W \/ topic \in calls[Was(j, k)].late
    BY <1>5, <1>7, <2>2 DEF LastAsks
  <2> QED
    BY <1>3, <1>4, <2>3
<1>8. LastAsks(calls, kind, W, topic) => LastAsks(new, kind, W, topic)
  BY <1>7 DEF LastAsks
<1> QED
  BY <1>0, <1>6, <1>8

LEMMA SentAsks ==
  ASSUME NEW S, NEW calls \in Seq(S), NEW more \in Seq(S), NEW kind, NEW W, NEW topic
  PROVE  /\ AllAsk(calls, kind, W) /\ AllAsk(more, kind, W) => AllAsk(Sent(calls, more), kind, W)
         /\ OfKind(more, kind) = {} /\ LastAsks(calls, kind, W, topic) => LastAsks(Sent(calls, more), kind, W, topic)
         /\ OfKind(more, kind) # {} /\ AllAsk(more, kind, W) => LastAsks(Sent(calls, more), kind, W, topic)
<1>0. PICK new : new = Sent(calls, more)
  OBVIOUS
<1>a. Len(Sent(calls, more)) = Len(calls) + Len(more)
  BY SentIs
<1>b. \A k \in 1..Len(calls) : Sent(calls, more)[k] = calls[k]
  BY SentIs
<1>c. \A k \in 1..Len(more) : Sent(calls, more)[Len(calls) + k] = more[k]
  BY SentIs
<1>2. Len(calls) \in Nat /\ Len(more) \in Nat
  BY LenProperties
<1>3. \A k \in 1..Len(calls) : new[k] = calls[k] /\ (k \in OfKind(new, kind) <=> k \in OfKind(calls, kind))
  BY <1>0, <1>a, <1>b, <1>2 DEF OfKind
<1>4. \A k \in 1..Len(more) :
        new[Len(calls) + k] = more[k] /\ (Len(calls) + k \in OfKind(new, kind) <=> k \in OfKind(more, kind))
  <2> TAKE k \in 1..Len(more)
  <2>1. Len(calls) + k \in 1..Len(new) /\ new[Len(calls) + k] = more[k]
    BY <1>0, <1>a, <1>c, <1>2
  <2> QED
    BY <2>1 DEF OfKind
<1>5. ASSUME NEW k \in OfKind(new, kind)
      PROVE  \/ k \in OfKind(calls, kind) /\ k \in 1..Len(calls)
             \/ \E l \in OfKind(more, kind) : k = Len(calls) + l /\ l \in 1..Len(more)
  <2>1. k \in 1..Len(calls) + Len(more)
    BY <1>0, <1>a DEF OfKind
  <2>2. CASE k <= Len(calls)
    <3>1. k \in 1..Len(calls)
      BY <1>2, <2>1, <2>2
    <3> QED
      BY <1>3, <3>1
  <2>3. CASE ~ k <= Len(calls)
    <3>1. PICK l \in 1..Len(more) : k = Len(calls) + l
      <4>1. k - Len(calls) \in 1..Len(more) /\ k = Len(calls) + (k - Len(calls))
        BY <1>2, <2>1, <2>3
      <4> QED
        BY <4>1
    <3> QED
      BY <1>4, <3>1
  <2> QED
    BY <2>2, <2>3
<1>6. (\A i \in OfKind(calls, kind) : i \in 1..Len(calls)) /\ \A i \in OfKind(more, kind) : i \in 1..Len(more)
  BY DEF OfKind
<1>7. AllAsk(calls, kind, W) /\ AllAsk(more, kind, W) => AllAsk(new, kind, W)
  BY <1>3, <1>4, <1>5 DEF AllAsk
<1>8. OfKind(more, kind) = {} /\ LastAsks(calls, kind, W, topic) => LastAsks(new, kind, W, topic)
  <2> SUFFICES ASSUME OfKind(more, kind) = {}, LastAsks(calls, kind, W, topic),
                      NEW k \in OfKind(new, kind), \A l \in OfKind(new, kind) : l <= k
               PROVE  new[k].arg \in W \/ topic \in new[k].late
    BY DEF LastAsks
  <2>1. k \in OfKind(calls, kind) /\ k \in 1..Len(calls)
    BY <1>5
  <2>2. \A i \in OfKind(calls, kind) : i <= k
    BY <1>3, <1>6
  <2> QED
    BY <1>3, <2>1, <2>2 DEF LastAsks
<1>9. OfKind(more, kind) # {} /\ AllAsk(more, kind, W) => LastAsks(new, kind, W, topic)
  <2> SUFFICES ASSUME OfKind(more, kind) # {}, AllAsk(more, kind, W),
                      NEW k \in OfKind(new, kind), \A l \in OfKind(new, kind) : l <= k
               PROVE  new[k].arg \in W
    BY DEF LastAsks
  <2>1. PICK m \in OfKind(more, kind) : m \in 1..Len(more) /\ Len(calls) + m <= k
    BY <1>4, <1>6
  <2>2. k \notin 1..Len(calls)
    BY <1>2, <2>1
  <2>3. PICK l \in OfKind(more, kind) : k = Len(calls) + l /\ l \in 1..Len(more)
    BY <1>5, <2>2
  <2> QED
    BY <1>4, <2>3 DEF AllAsk
<1> QED
  BY <1>0, <1>7, <1>8, <1>9

\* One of them is answered: those sent before are late.
LEMMA AnsweredAsks ==
  ASSUME NEW K, NEW A, NEW G, NEW T, NEW calls \in Seq(CallsOf(K, A, G, T)), NEW j \in 1..Len(calls),
         NEW tells, \A p \in tells : p[2] \in T, NEW topic, NEW W,
         NEW kind, calls[j].kind = kind, <<kind, topic>> \in tells,
         \A i \in OfKind(calls, kind) : calls[i].at = calls[j].at,
         LastAsks(calls, kind, W, topic)
  PROVE  /\ LastAsks(Answered(calls, j, tells), kind, W, topic)
         /\ OfKind(Answered(calls, j, tells), kind) = {} => calls[j].arg \in W \/ topic \in calls[j].late
<1>0. PICK new : new = Answered(calls, j, tells)
  OBVIOUS
<1>1. /\ Rid(new, calls, j)
      /\ \A k \in 1..Len(calls) - 1 : \A about :
           k < j /\ calls[k].at = calls[j].at
             /\ <<calls[k].kind, about>> \in tells /\ <<calls[j].kind, about>> \in tells
           => about \in new[k].late
  BY <1>0, AnsweredIs
<1>2. Len(calls) \in Nat /\ Len(new) = Len(calls) - 1
  BY <1>1, LenProperties DEF Rid
<1>3. /\ \A k \in 1..Len(calls) - 1 : Was(j, k) \in 1..Len(calls)
      /\ \A i \in 1..Len(calls) : i # j => \E k \in 1..Len(calls) - 1 : Was(j, k) = i
      /\ \A k, l \in 1..Len(calls) - 1 : k <= l <=> Was(j, k) <= Was(j, l)
  BY <1>2, WasOnto
<1>4. \A k \in 1..Len(calls) - 1 : /\ new[k].kind = calls[Was(j, k)].kind /\ new[k].arg = calls[Was(j, k)].arg
                                   /\ calls[Was(j, k)].late \subseteq new[k].late
  BY <1>1 DEF Rid, SameCall
<1>5. \A k \in OfKind(new, kind) : k \in 1..Len(calls) - 1 /\ Was(j, k) \in OfKind(calls, kind)
  BY <1>2, <1>3, <1>4 DEF OfKind
<1>6. \A i \in OfKind(calls, kind) : i # j => \E l \in OfKind(new, kind) : Was(j, l) = i
  <2> TAKE i \in OfKind(calls, kind)
  <2> HAVE i # j
  <2>1. i \in 1..Len(calls) /\ calls[i].kind = kind
    BY DEF OfKind
  <2>2. PICK l \in 1..Len(calls) - 1 : Was(j, l) = i
    BY <1>3, <2>1
  <2>3. l \in OfKind(new, kind)
    BY <1>2, <1>4, <2>1, <2>2 DEF OfKind
  <2> QED
    BY <2>2, <2>3
<1>7. ASSUME NEW k \in OfKind(new, kind), \A l \in OfKind(new, kind) : l <= k
      PROVE  new[k].arg \in W \/ topic \in new[k].late
  <2>1. \A i \in OfKind(calls, kind) : i # j => i <= Was(j, k)
    BY <1>3, <1>5, <1>6, <1>7
  <2>2. CASE j <= Was(j, k)
    <3>1. \A i \in OfKind(calls, kind) : i <= Was(j, k)
      BY <2>1, <2>2
    <3>2. calls[Was(j, k)].arg \in W \/ topic \in calls[Was(j, k)].late
      BY <1>5, <3>1 DEF LastAsks
    <3> QED
      BY <1>4, <1>5, <3>2
  <2>3. CASE ~ j <= Was(j, k)
    <3>1. k < j /\ Was(j, k) = k /\ k \in 1..Len(calls) - 1
      BY <1>2, <1>5, <2>3 DEF Was
    <3>2. k \in OfKind(calls, kind)
      BY <1>5, <3>1
    <3>3. calls[k].at = calls[j].at /\ calls[k].kind = kind
      BY <3>2 DEF OfKind
    <3> QED
      BY <1>1, <3>1, <3>3
  <2> QED
    BY <2>2, <2>3
<1>8. ASSUME OfKind(new, kind) = {} PROVE calls[j].arg \in W \/ topic \in calls[j].late
  <2>1. j \in OfKind(calls, kind)
    BY DEF OfKind
  <2>2. \A i \in OfKind(calls, kind) : i = j
    BY <1>6, <1>8
  <2>3. \A i \in OfKind(calls, kind) : i <= j
    BY <1>2, <2>2
  <2> QED
    BY <2>1, <2>3 DEF LastAsks
<1> QED
  BY <1>0, <1>7, <1>8 DEF LastAsks

\* A page that is left keeps the calls of a kind.
LEMMA KeptOnCourse ==
  ASSUME NEW S, NEW calls \in Seq(S), NEW kind, NEW kept, kept = Part(calls, {i \in 1..Len(calls) : calls[i].kind = kind}),
         NEW topic, NEW R, NEW dues, NEW t, NEW N,
         ~ Pending(calls, {d \in dues : d[1] # kind}),
         OnCourse(calls, {kind}, topic, R, dues, t, N)
  PROVE  OnCourse(kept, {kind}, topic, R, dues, t, N)
<1> DEFINE places == {i \in 1..Len(calls) : calls[i].kind = kind}
<1>1. places \in SUBSET (1..Len(calls)) /\ \A i \in 1..Len(calls) : i \in places <=> calls[i].kind = kind
  OBVIOUS
<1>2. kept = Part(calls, places)
  OBVIOUS
<1> HIDE DEF places
<1>3. /\ \A k \in 1..Len(kept) : Place(places, k) \in places /\ kept[k] = calls[Place(places, k)]
      /\ \A k, l \in 1..Len(kept) : k < l => Place(places, k) < Place(places, l)
      /\ \A i \in places : \E k \in 1..Len(kept) : Place(places, k) = i
  <2>1. /\ \A k \in 1..Len(Part(calls, places)) :
              Place(places, k) \in places /\ Part(calls, places)[k] = calls[Place(places, k)]
        /\ \A k, l \in 1..Len(Part(calls, places)) : k < l => Place(places, k) < Place(places, l)
        /\ \A i \in places : \E k \in 1..Len(Part(calls, places)) : Place(places, k) = i
    BY <1>1, PartIs
  <2> QED
    BY <1>2, <2>1
<1>4. \A k \in 1..Len(kept) : Place(places, k) \in 1..Len(calls)
  BY <1>1, <1>3
<1>5. \A k \in Told(kept, {kind}) : k \in 1..Len(kept) /\ Place(places, k) \in Told(calls, {kind})
  BY <1>3, <1>4 DEF Told
<1>6. \A i \in Told(calls, {kind}) : \E k \in Told(kept, {kind}) : Place(places, k) = i
  <2> TAKE i \in Told(calls, {kind})
  <2>1. i \in places
    BY <1>1 DEF Told
  <2>2. PICK k \in 1..Len(kept) : Place(places, k) = i
    BY <1>3, <2>1
  <2>3. k \in Told(kept, {kind})
    BY <1>3, <2>2 DEF Told
  <2> QED
    BY <2>2, <2>3
<1>7. Told(kept, {kind}) = {} <=> Told(calls, {kind}) = {}
  BY <1>5, <1>6
<1>8. Len(calls) \in Nat /\ \A k \in 1..Len(kept) : k \in Int
  BY LenProperties
<1>9. ASSUME LastRight(calls, {kind}, topic, R), NEW k \in Told(kept, {kind}), \A l \in Told(kept, {kind}) : l <= k
      PROVE  <<kept[k].kind, kept[k].got>> \in R \/ topic \in kept[k].late
  <2>1. ASSUME NEW i \in Told(calls, {kind}) PROVE i <= Place(places, k)
    <3>1. PICK l \in Told(kept, {kind}) : Place(places, l) = i
      BY <1>6
    <3>2. l \in 1..Len(kept) /\ k \in 1..Len(kept) /\ l <= k
      BY <1>5, <1>9, <3>1
    <3>3. Place(places, k) \in Nat
      BY <1>4, <1>8, <3>2
    <3>4. CASE l = k
      BY <3>1, <3>3, <3>4
    <3>5. CASE l # k
      <4>1. l < k
        BY <1>8, <3>2, <3>5
      <4>2. Place(places, l) < Place(places, k)
        BY <1>3, <3>2, <4>1
      <4>3. Place(places, l) \in Nat
        BY <1>4, <1>8, <3>2
      <4> QED
        BY <3>1, <3>3, <4>2, <4>3
    <3> QED
      BY <3>4, <3>5
  <2>2. kept[k] = calls[Place(places, k)] /\ Place(places, k) \in Told(calls, {kind})
    BY <1>3, <1>5
  <2> QED
    BY <1>9, <2>1, <2>2 DEF LastRight
<1>10. LastRight(calls, {kind}, topic, R) => LastRight(kept, {kind}, topic, R)
  BY <1>9 DEF LastRight
<1>11. ASSUME Pending(calls, dues) PROVE Pending(kept, dues)
  <2>1. PICK i \in 1..Len(calls) : <<calls[i].kind, calls[i].at, calls[i].deaf>> \in dues
    BY <1>11 DEF Pending
  <2>2. calls[i].kind = kind
    <3>1. <<calls[i].kind, calls[i].at, calls[i].deaf>>[1] = calls[i].kind
      OBVIOUS
    <3> QED
      BY <2>1, <3>1 DEF Pending
  <2>3. PICK k \in 1..Len(kept) : Place(places, k) = i
    BY <1>1, <1>3, <2>2
  <2> QED
    BY <1>3, <2>1, <2>3 DEF Pending
<1> QED
  BY <1>7, <1>10, <1>11 DEF OnCourse, OnTrack

\* What is allowed of calls is allowed of a part of them.
LEMMA PartAllowed ==
  ASSUME NEW S, NEW calls \in Seq(S), NEW places \in SUBSET (1..Len(calls)), NEW OK,
         \A i \in places : Gist(calls[i]) \in OK
  PROVE  Part(calls, places) \in Seq(S) /\ Allowed(Part(calls, places), OK)
<1>1. /\ Part(calls, places) \in Seq(S)
      /\ \A k \in 1..Len(Part(calls, places)) :
           Place(places, k) \in places /\ Part(calls, places)[k] = calls[Place(places, k)]
  BY PartIs
<1> QED
  BY <1>1 DEF Allowed

-----------------------------------------------------------------------------
(***************************************************************************)
(* The stories.                                                            *)
(***************************************************************************)
StoryKinds == {"list", "media", "upload"}

StoryGots == {<<>>} \union Nat

StoryTopics == {"list", "media"}

StoryCallT == CallsOf(StoryKinds, Nat, StoryGots, StoryTopics)

\* A file is the same whenever it is served; nobody listens only to uploads
\* under way.
StoryOK ==
  {c \in StoryKinds \X Nat \X {"sent", "served"} \X StoryGots \X BOOLEAN :
     /\ c[3] = "served" => c[4] \in Nat
     /\ c[1] = "media" => c[3] = "sent"
     /\ c[5] = TRUE => c[3] = "sent" /\ c[1] = "upload"}

StoriesT == [made : BOOLEAN, known : Nat, uploading : BOOLEAN]

PlayerT == [story : Nat, list : Nat, media : Nat, playing : BOOLEAN, clock : Nat]

PullT == {o \in [page : {"viewer", "stories", "nowhere"}, story : Nat] : o.page = "viewer" => o.story # 0}

DueT == [play : BOOLEAN, next : BOOLEAN, home : BOOLEAN, pull : PullT]

StoryRest(n, s, p, d, calls) ==
  /\ n \in Nat /\ s \in StoriesT /\ p \in PlayerT /\ d \in DueT
  /\ calls \in Seq(StoryCallT)
  /\ Allowed(calls, StoryOK)

\* The list of the service, from when the service is made.
ListDue == {<<"list", "sent", FALSE>>, <<"upload", "served", FALSE>>}

ListR(n) == {<<"list", n>>}

ListCourse(page, n, s, calls, met) ==
  /\ page = "viewer" => s.made = TRUE
  /\ s.made = TRUE => Course(calls, met, "list", {"list"}, ListR(n), ListDue, s.known, {n})

\* The last file on its way is that of the story the viewer is at.
ViewerShows(p, calls, met) ==
  \/ "media" \in met
  \/ /\ LastAsks(calls, "media", {p.story}, "media")
     /\ OfKind(calls, "media") = {} => p.media = p.story

\* A user in no hurry waits for one file at a time, and nothing runs before
\* it is there.
ViewerCalm(p, d, calls, met) ==
  \/ "hurried" \in met
  \/ /\ AtMostOne(calls, "media") /\ AllAsk(calls, "media", {p.story})
     /\ OfKind(calls, "media") # {} => p.media = 0 /\ p.clock = 0 /\ d.next # TRUE
     /\ p.clock # 0 \/ d.next = TRUE => p.media = p.story
     /\ d.next = TRUE => p.clock = 0

ViewerGood(page, p, d, calls, met) ==
  /\ page = "viewer" => p.story # 0 /\ ViewerShows(p, calls, met) /\ ViewerCalm(p, d, calls, met)
  /\ page # "viewer" => OfKind(calls, "media") = {} /\ p.clock = 0 /\ d.next # TRUE

StoryGood(page, n, s, p, d, calls, met) ==
  /\ StoryRest(n, s, p, d, calls)
  /\ ListCourse(page, n, s, calls, met)
  /\ ViewerGood(page, p, d, calls, met)

StoryInv == StoryGood(route.page, stored, stories, player, due, storyCalls, storyMet)

-----------------------------------------------------------------------------
LEMMA StoryCallIs ==
  ASSUME NEW n, NEW s, NEW p, NEW d, NEW calls, StoryRest(n, s, p, d, calls), NEW j \in 1..Len(calls)
  PROVE  /\ calls[j].kind \in StoryKinds /\ calls[j].arg \in Nat /\ calls[j].at \in {"sent", "served"}
         /\ calls[j].deaf \in BOOLEAN
         /\ calls[j].at = "served" => calls[j].got \in Nat
         /\ calls[j].kind = "media" => calls[j].at = "sent"
         /\ calls[j].deaf = TRUE => calls[j].at = "sent" /\ calls[j].kind = "upload"
<1>1. calls \in Seq(StoryCallT) /\ Allowed(calls, StoryOK)
  BY DEF StoryRest
<1>2. calls[j] \in StoryCallT
  BY <1>1, ElementOfSeq
<1>3. Gist(calls[j]) \in StoryOK
  BY <1>1 DEF Allowed
<1>4. /\ Gist(calls[j])[1] = calls[j].kind /\ Gist(calls[j])[3] = calls[j].at
      /\ Gist(calls[j])[4] = calls[j].got /\ Gist(calls[j])[5] = calls[j].deaf
  BY DEF Gist
<1>5. /\ calls[j].at = "served" => calls[j].got \in Nat
      /\ calls[j].kind = "media" => calls[j].at = "sent"
      /\ calls[j].deaf = TRUE => calls[j].at = "sent" /\ calls[j].kind = "upload"
  BY <1>3, <1>4 DEF StoryOK
<1>6. /\ calls[j].kind \in StoryKinds /\ calls[j].arg \in Nat /\ calls[j].at \in {"sent", "served"}
      /\ calls[j].deaf \in BOOLEAN
  BY <1>2 DEF StoryCallT, CallsOf
<1> QED
  BY <1>5, <1>6

\* Calls of the stories that are made together.
StoryMore(more) ==
  /\ more \in Seq(StoryCallT)
  /\ \A k \in 1..Len(more) : more[k].at = "sent"
  /\ Allowed(more, StoryOK)

LEMMA StoryCallMade ==
  ASSUME NEW kind \in StoryKinds, NEW arg \in Nat, NEW q, q = <<Call(kind, arg)>>
  PROVE  /\ StoryMore(q)
         /\ \A l : OfKind(q, l) = {} <=> kind # l
         /\ AtMostOne(q, "media") /\ AllAsk(q, "media", {arg})
         /\ \A P : Pending(q, P) <=> <<kind, "sent", FALSE>> \in P
<1>1. <<>> \in StoryGots
  BY DEF StoryGots
<1>2. <<kind, arg, "sent", <<>>, FALSE>> \in StoryOK
  BY <1>1 DEF StoryOK
<1>3. q \in Seq(StoryCallT)
  BY <1>1, CallIs DEF StoryCallT
<1>4. \A k \in 1..Len(q) : q[k].at = "sent"
  BY DEF Call
<1>5. Allowed(q, StoryOK)
  BY <1>2, CallAlone
<1>6. \A l : OfKind(q, l) = {} <=> kind # l
  BY CallAlone
<1>7. AtMostOne(q, "media")
  BY CallAlone
<1>8. AllAsk(q, "media", {arg})
  <2>1. Len(q) = 1 /\ q[1].arg = arg
    BY DEF Call
  <2>2. \A i \in 1..Len(q) : i = 1
    BY <2>1
  <2> QED
    BY <2>1, <2>2 DEF AllAsk, OfKind
<1>9. \A P : Pending(q, P) <=> <<kind, "sent", FALSE>> \in P
  BY CallAlone
<1>10. StoryMore(q)
  BY <1>3, <1>4, <1>5 DEF StoryMore
<1> QED
  BY <1>6, <1>7, <1>8, <1>9, <1>10

LEMMA NoStoryCall ==
  /\ StoryMore(<<>>)
  /\ \A l : OfKind(<<>>, l) = {}
  /\ \A P : ~ Pending(<<>>, P)
BY NoCalls DEF StoryMore

LEMMA StoryTellsOf ==
  /\ \A p \in StoryTells : p[2] \in StoryTopics
  /\ \A kind \in {"list"} : <<kind, "list">> \in StoryTells
  /\ <<"media", "media">> \in StoryTells
BY DEF StoryTells, StoryTopics

-----------------------------------------------------------------------------
\* What leaves the files alone leaves the viewer good.
LEMMA ViewerRid ==
  ASSUME NEW S, NEW calls \in Seq(S), NEW j \in 1..Len(calls), NEW new, Rid(new, calls, j), calls[j].kind # "media",
         NEW page, NEW p, NEW d, NEW met, NEW met2, met \subseteq met2, ViewerGood(page, p, d, calls, met)
  PROVE  ViewerGood(page, p, d, new, met2)
<1>1. OfKind(new, "media") = {} <=> OfKind(calls, "media") = {}
  BY RidKinds
<1>2. AtMostOne(calls, "media") => AtMostOne(new, "media")
  BY RidKinds
<1>3. AllAsk(calls, "media", {p.story}) => AllAsk(new, "media", {p.story})
  BY RidAsks
<1>4. LastAsks(calls, "media", {p.story}, "media") => LastAsks(new, "media", {p.story}, "media")
  BY RidAsks
<1>5. ViewerShows(p, calls, met) => ViewerShows(p, new, met2)
  BY <1>1, <1>4 DEF ViewerShows
<1>6. ViewerCalm(p, d, calls, met) => ViewerCalm(p, d, new, met2)
  BY <1>1, <1>2, <1>3 DEF ViewerCalm
<1> QED
  BY <1>1, <1>5, <1>6 DEF ViewerGood

LEMMA ViewerServed ==
  ASSUME NEW K, NEW A, NEW G, NEW T, NEW calls \in Seq(CallsOf(K, A, G, T)), NEW j \in 1..Len(calls), NEW got \in G,
         calls[j].kind # "media", NEW page, NEW p, NEW d, NEW met, ViewerGood(page, p, d, calls, met)
  PROVE  ViewerGood(page, p, d, Served(calls, j, got), met)
<1>1. OfKind(Served(calls, j, got), "media") = {} <=> OfKind(calls, "media") = {}
  BY ServedKinds
<1>2. AtMostOne(calls, "media") => AtMostOne(Served(calls, j, got), "media")
  BY ServedKinds
<1>3. AllAsk(calls, "media", {p.story}) => AllAsk(Served(calls, j, got), "media", {p.story})
  BY ServedAsks
<1>4. LastAsks(calls, "media", {p.story}, "media") => LastAsks(Served(calls, j, got), "media", {p.story}, "media")
  BY ServedAsks
<1>5. ViewerShows(p, calls, met) => ViewerShows(p, Served(calls, j, got), met)
  BY <1>1, <1>4 DEF ViewerShows
<1>6. ViewerCalm(p, d, calls, met) => ViewerCalm(p, d, Served(calls, j, got), met)
  BY <1>1, <1>2, <1>3 DEF ViewerCalm
<1> QED
  BY <1>1, <1>5, <1>6 DEF ViewerGood

LEMMA ViewerSent ==
  ASSUME NEW S, NEW calls \in Seq(S), NEW more \in Seq(S), OfKind(more, "media") = {},
         NEW page, NEW p, NEW d, NEW met, ViewerGood(page, p, d, calls, met)
  PROVE  ViewerGood(page, p, d, Sent(calls, more), met)
<1>1. OfKind(Sent(calls, more), "media") = {} <=> OfKind(calls, "media") = {}
  BY SentKinds
<1>2. AtMostOne(calls, "media") => AtMostOne(Sent(calls, more), "media")
  BY SentKinds
<1>3. AllAsk(more, "media", {p.story})
  BY DEF AllAsk
<1>4. AllAsk(calls, "media", {p.story}) => AllAsk(Sent(calls, more), "media", {p.story})
  BY <1>3, SentAsks
<1>5. LastAsks(calls, "media", {p.story}, "media") => LastAsks(Sent(calls, more), "media", {p.story}, "media")
  BY SentAsks
<1>6. ViewerShows(p, calls, met) => ViewerShows(p, Sent(calls, more), met)
  BY <1>1, <1>5 DEF ViewerShows
<1>7. ViewerCalm(p, d, calls, met) => ViewerCalm(p, d, Sent(calls, more), met)
  BY <1>1, <1>2, <1>4 DEF ViewerCalm
<1> QED
  BY <1>1, <1>6, <1>7 DEF ViewerGood

-----------------------------------------------------------------------------
\* Calls, in whatever state they are, that are still of the stories.
LEMMA StoryRestRid ==
  ASSUME NEW n, NEW s, NEW p, NEW d, NEW calls, StoryRest(n, s, p, d, calls), NEW j \in 1..Len(calls),
         NEW new \in Seq(StoryCallT), Rid(new, calls, j),
         NEW t \in StoriesT, NEW q \in PlayerT, NEW e \in DueT
  PROVE  StoryRest(n, t, q, e, new)
<1>1. calls \in Seq(StoryCallT) /\ Allowed(calls, StoryOK) /\ n \in Nat
  BY DEF StoryRest
<1>2. Allowed(new, StoryOK)
  BY <1>1, RidAllowed
<1> QED
  BY <1>1, <1>2 DEF StoryRest

LEMMA StoryRestSent ==
  ASSUME NEW n, NEW s, NEW p, NEW d, NEW calls, StoryRest(n, s, p, d, calls), NEW more, StoryMore(more),
         NEW t \in StoriesT, NEW q \in PlayerT, NEW e \in DueT
  PROVE  StoryRest(n, t, q, e, Sent(calls, more))
<1>1. calls \in Seq(StoryCallT) /\ Allowed(calls, StoryOK) /\ n \in Nat
  BY DEF StoryRest
<1>2. more \in Seq(StoryCallT) /\ Allowed(more, StoryOK)
  BY DEF StoryMore
<1>3. Sent(calls, more) \in Seq(StoryCallT)
  BY <1>1, <1>2, SentIs
<1>4. Allowed(Sent(calls, more), StoryOK)
  BY <1>1, <1>2, SentAllowed
<1> QED
  BY <1>1, <1>3, <1>4 DEF StoryRest

LEMMA StoryRestServed ==
  ASSUME NEW n, NEW s, NEW p, NEW d, NEW calls, StoryRest(n, s, p, d, calls), NEW j \in 1..Len(calls),
         NEW got \in Nat, NEW m \in Nat, calls[j].kind # "media", calls[j].deaf = FALSE
  PROVE  StoryRest(m, s, p, d, Served(calls, j, got))
<1>1. calls \in Seq(StoryCallT) /\ Allowed(calls, StoryOK) /\ s \in StoriesT /\ p \in PlayerT /\ d \in DueT
  BY DEF StoryRest
<1>2. calls \in Seq(CallsOf(StoryKinds, Nat, StoryGots, StoryTopics)) /\ got \in StoryGots
  BY <1>1 DEF StoryCallT, StoryGots
<1>3. Served(calls, j, got) \in Seq(StoryCallT)
  BY <1>2, ServedIs DEF StoryCallT
<1>4. calls[j].kind \in StoryKinds /\ calls[j].arg \in Nat
  BY StoryCallIs
<1>5. <<calls[j].kind, calls[j].arg, "served", got, calls[j].deaf>> \in StoryOK
  BY <1>2, <1>4 DEF StoryOK
<1>6. Allowed(Served(calls, j, got), StoryOK)
  BY <1>1, <1>2, <1>5, ServedAllowed
<1> QED
  BY <1>1, <1>3, <1>6 DEF StoryRest

-----------------------------------------------------------------------------
\* From story to story in the same viewer: nothing was late, or an accident is
\* noted.
TurnsTo(s, p, calls, met, k, t, q, e, met2) ==
  /\ k \in Nat /\ k # 0
  /\ q \in PlayerT /\ q.story = k /\ q.media = 0 /\ q.clock = p.clock
  /\ e \in DueT /\ t \in StoriesT /\ t.made = TRUE /\ t.known = s.known
  /\ "list" \in met => "list" \in met2
  /\ "hurried" \notin met2 => p.clock = 0 /\ e.next # TRUE /\ OfKind(calls, "media") = {}

LEMMA OtherStory ==
  ASSUME NEW n, NEW s, NEW p, NEW d, NEW calls, NEW met, StoryGood("viewer", n, s, p, d, calls, met),
         NEW k, NEW t, NEW q, NEW e, NEW met2, TurnsTo(s, p, calls, met, k, t, q, e, met2),
         NEW more, more = <<Call("media", k)>>
  PROVE  StoryGood("viewer", n, t, q, e, Sent(calls, more), met2)
<1> USE DEF TurnsTo
<1>1. StoryRest(n, s, p, d, calls) /\ ListCourse("viewer", n, s, calls, met)
  BY DEF StoryGood
<1>2. calls \in Seq(StoryCallT)
  BY <1>1 DEF StoryRest
<1>3. StoryMore(more)
  BY StoryCallMade DEF StoryKinds
<1>4. OfKind(more, "media") # {}
  BY StoryCallMade DEF StoryKinds
<1>5. AtMostOne(more, "media") /\ AllAsk(more, "media", {k})
  BY StoryCallMade DEF StoryKinds
<1>6. more \in Seq(StoryCallT) /\ \A i \in 1..Len(more) : more[i].at = "sent"
  BY <1>3 DEF StoryMore
<1>7. StoryRest(n, t, q, e, Sent(calls, more))
  BY <1>1, <1>3, StoryRestSent
<1>8. Course(calls, met, "list", {"list"}, ListR(n), ListDue, s.known, {n})
  BY <1>1 DEF ListCourse
<1>9. Course(Sent(calls, more), met, "list", {"list"}, ListR(n), ListDue, s.known, {n})
  BY <1>2, <1>6, <1>8, SentCourse
<1>10. ListCourse("viewer", n, t, Sent(calls, more), met2)
  BY <1>9 DEF ListCourse, Course
<1>11. ViewerShows(q, Sent(calls, more), met2)
  <2>1. LastAsks(Sent(calls, more), "media", {q.story}, "media")
    BY <1>2, <1>4, <1>5, <1>6, SentAsks
  <2>2. OfKind(Sent(calls, more), "media") # {}
    BY <1>2, <1>4, <1>6, SentKinds
  <2> QED
    BY <2>1, <2>2 DEF ViewerShows
<1>12. ViewerCalm(q, e, Sent(calls, more), met2)
  <2> SUFFICES ASSUME "hurried" \notin met2 PROVE ViewerCalm(q, e, Sent(calls, more), met2)
    BY DEF ViewerCalm
  <2>1. p.clock = 0 /\ e.next # TRUE /\ OfKind(calls, "media") = {}
    OBVIOUS
  <2>2. AtMostOne(Sent(calls, more), "media")
    BY <1>2, <1>5, <1>6, <2>1, SentKinds
  <2>3. AllAsk(calls, "media", {k})
    BY <2>1 DEF AllAsk
  <2>4. AllAsk(Sent(calls, more), "media", {q.story})
    BY <1>2, <1>5, <1>6, <2>3, SentAsks
  <2> QED
    BY <2>1, <2>2, <2>4 DEF ViewerCalm
<1> QED
  BY <1>7, <1>10, <1>11, <1>12 DEF StoryGood, ViewerGood

\* What is kept when a page is left.
LEMMA StoryKept ==
  ASSUME NEW n, NEW s, NEW p, NEW d, NEW calls, StoryRest(n, s, p, d, calls),
         NEW kept, kept = Part(calls, {i \in 1..Len(calls) : calls[i].kind = "list"}),
         NEW still, still = Unheard(calls, StoryWrites)
  PROVE  /\ kept \in Seq(StoryCallT) /\ still \in Seq(StoryCallT)
         /\ Allowed(kept, StoryOK) /\ Allowed(still, StoryOK)
         /\ \A i \in 1..Len(still) : still[i].at = "sent"
         /\ OfKind(Sent(kept, still), "media") = {}
<1>1. calls \in Seq(StoryCallT) /\ Allowed(calls, StoryOK)
  BY DEF StoryRest
<1> DEFINE lists == {c \in StoryOK : c[1] = "list"}
<1>2. kept \in Seq(StoryCallT) /\ Allowed(kept, lists)
  <2> DEFINE places == {i \in 1..Len(calls) : calls[i].kind = "list"}
  <2>1. places \in SUBSET (1..Len(calls)) /\ \A i \in places : i \in 1..Len(calls) /\ calls[i].kind = "list"
    OBVIOUS
  <2>2. kept = Part(calls, places)
    OBVIOUS
  <2> HIDE DEF places
  <2>3. \A i \in places : Gist(calls[i]) \in lists
    <3> TAKE i \in places
    <3>1. Gist(calls[i]) \in StoryOK /\ Gist(calls[i])[1] = "list"
      BY <1>1, <2>1 DEF Allowed, Gist
    <3> QED
      BY <3>1
  <2> HIDE DEF lists
  <2>4. Part(calls, places) \in Seq(StoryCallT) /\ Allowed(Part(calls, places), lists)
    BY <1>1, <2>1, <2>3, PartAllowed
  <2> QED
    BY <2>2, <2>4
<1>3. calls \in Seq(CallsOf(StoryKinds, Nat, StoryGots, StoryTopics))
  BY <1>1 DEF StoryCallT
<1>4. still \in Seq(CallsOf(StoryKinds, Nat, StoryGots, StoryTopics)) /\ StillOf(still, calls, StoryWrites)
  BY <1>3, UnheardIs
<1>5. \A i \in 1..Len(still) : still[i].deaf = TRUE /\ still[i].at = "sent" /\ still[i].kind = "upload"
  BY <1>4 DEF StillOf, StoryWrites
<1>6. Allowed(still, StoryOK)
  <2>1. ASSUME NEW i \in 1..Len(still) PROVE Gist(still[i]) \in StoryOK
    <3>1. still[i] \in CallsOf(StoryKinds, Nat, StoryGots, StoryTopics)
      BY <1>4, ElementOfSeq
    <3>2. still[i].arg \in Nat /\ still[i].got \in StoryGots
      BY <3>1 DEF CallsOf
    <3> QED
      BY <1>5, <3>2 DEF Gist, StoryOK, StoryKinds
  <2> QED
    BY <2>1 DEF Allowed
<1>7. OfKind(kept, "media") = {}
  <2>1. \A i \in 1..Len(kept) : Gist(kept[i])[1] = "list"
    BY <1>2 DEF Allowed
  <2>2. \A i \in 1..Len(kept) : kept[i].kind = "list"
    BY <2>1 DEF Gist
  <2> QED
    BY <2>2 DEF OfKind
<1>8. OfKind(still, "media") = {}
  BY <1>5 DEF OfKind
<1>9. still \in Seq(StoryCallT)
  BY <1>4 DEF StoryCallT
<1>10. OfKind(Sent(kept, still), "media") = {}
  BY <1>2, <1>7, <1>8, <1>9, SentKinds
<1>11. Allowed(kept, StoryOK)
  BY <1>2 DEF Allowed
<1> QED
  BY <1>2, <1>5, <1>6, <1>9, <1>10, <1>11

\* The calls there are after a page is left for another.
LeftCalls(calls, made, there, story) ==
  LET kept  == Part(calls, {i \in 1..Len(calls) : calls[i].kind = "list"})
      cons  == IF there \in {"stories", "viewer", "upload"} /\ made # TRUE THEN LoadStories ELSE <<>>
      media == IF there = "viewer" THEN <<Call("media", story)>> ELSE <<>>
  IN  Sent(Sent(Sent(kept, Unheard(calls, StoryWrites)), cons), media)

\* An upload has been served, and its answer will be missed.
MissesUpload(calls) == \E i \in 1..Len(calls) : calls[i].kind = "upload" /\ calls[i].at = "served"

\* What the new page starts with.
StartsWell(s, calls, met, there, t, q, e, met2) ==
  /\ q \in PlayerT /\ q.clock = 0
  /\ there = "viewer" => q.story # 0 /\ q.media = 0
  /\ e \in DueT /\ e.next # TRUE
  /\ t \in StoriesT /\ t.known = s.known
  /\ t.made = TRUE <=> s.made = TRUE \/ there \in {"stories", "viewer", "upload"}
  /\ "list" \in met \/ MissesUpload(calls) => "list" \in met2

\* From page to page.
LEMMA OtherPage ==
  ASSUME NEW page, NEW n, NEW s, NEW p, NEW d, NEW calls, NEW met, StoryGood(page, n, s, p, d, calls, met),
         NEW there, NEW q, NEW e, NEW t, NEW met2, StartsWell(s, calls, met, there, t, q, e, met2),
         NEW new, new = LeftCalls(calls, s.made, there, q.story)
  PROVE  StoryGood(there, n, t, q, e, new, met2)
<1>a. /\ q \in PlayerT /\ q.clock = 0
      /\ there = "viewer" => q.story # 0 /\ q.media = 0
      /\ e \in DueT /\ e.next # TRUE
      /\ t \in StoriesT /\ t.known = s.known
      /\ t.made = TRUE <=> s.made = TRUE \/ there \in {"stories", "viewer", "upload"}
      /\ "list" \in met \/ MissesUpload(calls) => "list" \in met2
  BY DEF StartsWell
<1>0. PICK kept, still, cons, more :
        /\ kept = Part(calls, {i \in 1..Len(calls) : calls[i].kind = "list"})
        /\ still = Unheard(calls, StoryWrites)
        /\ cons = (IF there \in {"stories", "viewer", "upload"} /\ s.made # TRUE THEN LoadStories ELSE <<>>)
        /\ more = (IF there = "viewer" THEN <<Call("media", q.story)>> ELSE <<>>)
  OBVIOUS
<1>n. new = Sent(Sent(Sent(kept, still), cons), more)
  BY <1>0 DEF LeftCalls
<1>1. StoryRest(n, s, p, d, calls) /\ ListCourse(page, n, s, calls, met)
  BY DEF StoryGood
<1>2. calls \in Seq(StoryCallT) /\ n \in Nat
  BY <1>1 DEF StoryRest
<1>3. /\ kept \in Seq(StoryCallT) /\ still \in Seq(StoryCallT)
      /\ Allowed(kept, StoryOK) /\ Allowed(still, StoryOK)
      /\ \A i \in 1..Len(still) : still[i].at = "sent"
      /\ OfKind(Sent(kept, still), "media") = {}
  BY <1>0, <1>1, StoryKept
<1>4. PICK left : left = Sent(kept, still)
  OBVIOUS
<1>5. left \in Seq(StoryCallT) /\ Allowed(left, StoryOK) /\ OfKind(left, "media") = {}
  <2>1. Sent(kept, still) \in Seq(StoryCallT)
    BY <1>3, SentIs
  <2>2. Allowed(Sent(kept, still), StoryOK)
    BY <1>3, SentAllowed
  <2> QED
    BY <1>3, <1>4, <2>1, <2>2
<1>6. StoryMore(LoadStories) /\ Pending(LoadStories, ListDue) /\ OfKind(LoadStories, "media") = {}
  <2>1. PICK l : l = LoadStories
    OBVIOUS
  <2>2. l = <<Call("list", 0)>>
    BY <2>1 DEF LoadStories
  <2>3. "list" \in StoryKinds /\ 0 \in Nat
    BY DEF StoryKinds
  <2>4. StoryMore(l)
    BY <2>2, <2>3, StoryCallMade
  <2>a. \A kind : OfKind(l, kind) = {} <=> "list" # kind
    BY <2>2, <2>3, StoryCallMade
  <2>b. \A P : Pending(l, P) <=> <<"list", "sent", FALSE>> \in P
    BY <2>2, <2>3, StoryCallMade
  <2>5. OfKind(l, "media") = {}
    BY <2>a
  <2>6. Pending(l, ListDue)
    BY <2>b DEF ListDue
  <2> QED
    BY <2>1, <2>4, <2>5, <2>6
<1>7. StoryMore(cons) /\ OfKind(cons, "media") = {}
  BY <1>0, <1>6, NoStoryCall
<1>8. StoryMore(more) /\ (there # "viewer" => OfKind(more, "media") = {})
      /\ (there = "viewer" => /\ OfKind(more, "media") # {} /\ AtMostOne(more, "media")
                              /\ AllAsk(more, "media", {q.story}))
  <2>1. CASE there = "viewer"
    <3>0. PICK k : k = q.story
      OBVIOUS
    <3>1. k \in Nat /\ "media" \in StoryKinds /\ more = <<Call("media", k)>>
      BY <1>0, <1>a, <2>1, <3>0 DEF PlayerT, StoryKinds
    <3>2. StoryMore(more)
      BY <3>1, StoryCallMade
    <3>3. \A kind : OfKind(more, kind) = {} <=> "media" # kind
      BY <3>1, StoryCallMade
    <3>4. AtMostOne(more, "media") /\ AllAsk(more, "media", {k})
      BY <3>1, StoryCallMade
    <3> QED
      BY <2>1, <3>0, <3>2, <3>3, <3>4
  <2>2. CASE there # "viewer"
    BY <1>0, <2>2, NoStoryCall
  <2> QED
    BY <2>1, <2>2
<1>9. PICK base : base = Sent(left, cons)
  OBVIOUS
<1>10. new = Sent(base, more)
  BY <1>n, <1>4, <1>9
<1>11. base \in Seq(StoryCallT) /\ Allowed(base, StoryOK) /\ OfKind(base, "media") = {}
  <2>0. cons \in Seq(StoryCallT) /\ Allowed(cons, StoryOK)
    BY <1>7 DEF StoryMore
  <2>1. Sent(left, cons) \in Seq(StoryCallT)
    BY <1>5, <2>0, SentIs
  <2>2. Allowed(Sent(left, cons), StoryOK)
    BY <1>5, <2>0, SentAllowed
  <2>3. OfKind(Sent(left, cons), "media") = {}
    BY <1>5, <1>7, <2>0, SentKinds
  <2> QED
    BY <1>9, <2>1, <2>2, <2>3
<1>12. StoryRest(n, t, q, e, new)
  <2>1. StoryRest(n, t, q, e, base)
    BY <1>2, <1>11, <1>a DEF StoryRest
  <2> QED
    BY <1>8, <1>10, <1>a, <2>1, StoryRestSent
<1>13. t.made = TRUE => Course(base, met2, "list", {"list"}, ListR(n), ListDue, t.known, {n})
  <2> SUFFICES ASSUME t.made = TRUE, "list" \notin met2
               PROVE  OnCourse(base, {"list"}, "list", ListR(n), ListDue, t.known, {n})
    BY DEF Course
  <2>0. cons \in Seq(StoryCallT) /\ \A i \in 1..Len(cons) : cons[i].at = "sent"
    BY <1>7 DEF StoryMore
  <2>1. CASE s.made = TRUE
    <3>1. OnCourse(calls, {"list"}, "list", ListR(n), ListDue, s.known, {n})
      BY <1>1, <1>a, <2>1 DEF ListCourse, Course
    <3>2. ~ Pending(calls, {o \in ListDue : o[1] # "list"})
      <4>1. \A o \in ListDue : o[1] # "list" => o = <<"upload", "served", FALSE>>
        <5>1. <<"list", "sent", FALSE>>[1] = "list"
          OBVIOUS
        <5> QED
          BY <5>1 DEF ListDue
      <4>2. ASSUME NEW i \in 1..Len(calls)
            PROVE  <<calls[i].kind, calls[i].at, calls[i].deaf>> # <<"upload", "served", FALSE>>
        <5>1. ~(calls[i].kind = "upload" /\ calls[i].at = "served")
          BY <1>a DEF MissesUpload
        <5> QED
          BY <5>1
      <4> QED
        BY <4>1, <4>2 DEF Pending
    <3>3. OnCourse(kept, {"list"}, "list", ListR(n), ListDue, s.known, {n})
      BY <1>0, <1>2, <3>1, <3>2, KeptOnCourse
    <3>4. OnCourse(Sent(kept, still), {"list"}, "list", ListR(n), ListDue, s.known, {n})
      BY <1>3, <3>3, SentOnCourse
    <3>5. OnCourse(left, {"list"}, "list", ListR(n), ListDue, t.known, {n})
      BY <1>4, <1>a, <3>4
    <3>6. OnCourse(Sent(left, cons), {"list"}, "list", ListR(n), ListDue, t.known, {n})
      BY <1>5, <2>0, <3>5, SentOnCourse
    <3> QED
      BY <1>9, <3>6
  <2>2. CASE s.made # TRUE
    <3>1. Pending(cons, ListDue)
      <4>1. cons = LoadStories
        BY <1>0, <1>a, <2>2
      <4> QED
        BY <1>6, <4>1
    <3>2. OnTrack(Sent(left, cons), {"list"}, "list", ListR(n), ListDue)
      BY <1>5, <2>0, <3>1, SentOnTrack
    <3> QED
      BY <1>9, <3>2 DEF OnCourse
  <2> QED
    BY <2>1, <2>2
<1>14. ListCourse(there, n, t, new, met2)
  <2>1. more \in Seq(StoryCallT) /\ \A i \in 1..Len(more) : more[i].at = "sent"
    BY <1>8 DEF StoryMore
  <2>2. t.made = TRUE => Course(Sent(base, more), met2, "list", {"list"}, ListR(n), ListDue, t.known, {n})
    <3> SUFFICES ASSUME t.made = TRUE
                 PROVE  Course(Sent(base, more), met2, "list", {"list"}, ListR(n), ListDue, t.known, {n})
      OBVIOUS
    <3>1. Course(base, met2, "list", {"list"}, ListR(n), ListDue, t.known, {n})
      BY <1>13
    <3> QED
      BY <1>11, <2>1, <3>1, SentCourse
  <2> QED
    BY <1>10, <1>a, <2>2 DEF ListCourse
<1>15. ViewerGood(there, q, e, new, met2)
  <2>1. more \in Seq(StoryCallT)
    BY <1>8 DEF StoryMore
  <2>2. OfKind(Sent(base, more), "media") = {} <=> OfKind(more, "media") = {}
    BY <1>11, <2>1, SentKinds
  <2>3. CASE there = "viewer"
    <3>1. AtMostOne(Sent(base, more), "media")
      BY <1>8, <1>11, <2>1, <2>3, SentKinds
    <3>2. AllAsk(base, "media", {q.story})
      BY <1>11 DEF AllAsk
    <3>3. AllAsk(Sent(base, more), "media", {q.story})
      BY <1>8, <1>11, <2>1, <2>3, <3>2, SentAsks
    <3>4. LastAsks(Sent(base, more), "media", {q.story}, "media")
      BY <1>8, <1>11, <2>1, <2>3, SentAsks
    <3>5. ViewerShows(q, Sent(base, more), met2)
      BY <1>8, <1>a, <2>2, <2>3, <3>4 DEF ViewerShows
    <3>6. ViewerCalm(q, e, Sent(base, more), met2)
      BY <1>a, <2>3, <3>1, <3>3 DEF ViewerCalm
    <3> QED
      BY <1>10, <1>a, <2>3, <3>5, <3>6 DEF ViewerGood
  <2>4. CASE there # "viewer"
    BY <1>8, <1>10, <1>a, <2>2, <2>4 DEF ViewerGood
  <2> QED
    BY <2>3, <2>4
<1> QED
  BY <1>12, <1>14, <1>15 DEF StoryGood

-----------------------------------------------------------------------------
\* A place the stories take the tab to.
PlaceGood(place) == place.page = "viewer" => place.story \in Nat /\ place.story # 0

\* The tab goes from its place to another.
LEMMA StoryArrivesGood ==
  ASSUME StoryInv, NEW place, PlaceGood(place), NEW pending \in DueT, route' = place,
         pending.next = TRUE => route.page = "viewer",
         StoryArrives(place, pending),
         NEW met2, storyMet' = met2, "list" \in storyMet => "list" \in met2,
         MissesUpload(storyCalls) => "list" \in met2,
         route.page = "viewer" /\ place.page = "viewer" /\ "hurried" \notin met2
            => player.clock = 0 /\ pending.next # TRUE /\ OfKind(storyCalls, "media") = {}
  PROVE  StoryInv'
<1>1. PICK page, n, s, p, d, calls, met :
        /\ page = route.page /\ n = stored /\ s = stories /\ p = player /\ d = due
        /\ calls = storyCalls /\ met = storyMet
  OBVIOUS
<1>2. PICK there, m, t, q, e, new :
        there = route'.page /\ m = stored' /\ t = stories' /\ q = player' /\ e = due' /\ new = storyCalls'
  OBVIOUS
<1>3. StoryGood(page, n, s, p, d, calls, met)
  BY <1>1 DEF StoryInv
<1>4. n \in Nat /\ s \in StoriesT /\ p \in PlayerT /\ d \in DueT /\ s.known \in Nat
  BY <1>3 DEF StoryGood, StoryRest, StoriesT
<1>5. /\ t = [s EXCEPT !.made = @ \/ there \in {"stories", "viewer", "upload"}, !.uploading = FALSE]
      /\ there = place.page /\ m = n
  BY <1>1, <1>2 DEF StoryArrives
<1>6. /\ t \in StoriesT /\ t.known = s.known
      /\ t.made = TRUE <=> s.made = TRUE \/ there \in {"stories", "viewer", "upload"}
  BY <1>4, <1>5 DEF StoriesT
<1>7. there = "viewer" => place.story \in Nat /\ place.story # 0
  BY <1>5 DEF PlaceGood
<1>8. CASE page = "viewer" /\ there = "viewer"
  <2>1. /\ q = [p EXCEPT !.story = place.story, !.list = s.known, !.media = 0]
        /\ new = Sent(calls, <<Call("media", place.story)>>)
        /\ e = pending
    BY <1>1, <1>2, <1>5, <1>8 DEF StoryArrives, Shows, LoadStory
  <2>2. q \in PlayerT /\ q.story = place.story /\ q.media = 0 /\ q.clock = p.clock
    BY <1>4, <1>7, <1>8, <2>1 DEF PlayerT
  <2>3. "hurried" \notin met2 => p.clock = 0 /\ e.next # TRUE /\ OfKind(calls, "media") = {}
    BY <1>1, <1>5, <1>8, <2>1
  <2>4. "list" \in met => "list" \in met2
    BY <1>1
  <2>5. StoryGood("viewer", n, s, p, d, calls, met) /\ t.made = TRUE
    BY <1>3, <1>6, <1>8
  <2>6. PICK k, more : k = place.story /\ more = <<Call("media", k)>>
    OBVIOUS
  <2>7. k \in Nat /\ k # 0 /\ q.story = k /\ new = Sent(calls, more)
    BY <1>7, <1>8, <2>1, <2>2, <2>6
  <2>9. TurnsTo(s, p, calls, met, k, t, q, e, met2)
    BY <1>6, <2>1, <2>2, <2>3, <2>4, <2>5, <2>6, <2>7 DEF TurnsTo
  <2>10. StoryGood("viewer", n, t, q, e, Sent(calls, more), met2)
    BY <2>5, <2>6, <2>9, OtherStory
  <2>8. StoryGood(there, m, t, q, e, new, met2)
    BY <1>5, <1>8, <2>7, <2>10
  <2> QED
    BY <1>2, <2>8 DEF StoryInv
<1>9. CASE ~(page = "viewer" /\ there = "viewer")
  <2>2. /\ q = (IF there = "viewer" THEN LoadStory(NoPlayer, place.story) ELSE NoPlayer)
        /\ new = Part(calls, {i \in 1..Len(calls) : calls[i].kind = "list"}) \o Unheard(calls, StoryWrites)
                   \o (IF there \in {"stories", "viewer", "upload"} THEN Constructor ELSE <<>>)
                   \o (IF there = "viewer" THEN <<Call("media", place.story)>> ELSE <<>>)
        /\ e = [pending EXCEPT !.play = FALSE, !.next = FALSE, !.pull = IF pending.next THEN NextPlace ELSE @]
    BY <1>1, <1>2, <1>5, <1>9 DEF StoryArrives, Shows, StoryCallsKept, StoryCallsUnheard
  <2>3. /\ q \in PlayerT /\ q.clock = 0
        /\ there = "viewer" => q.story # 0 /\ q.media = 0 /\ q.story = place.story
    <3>1. NoPlayer \in PlayerT /\ NoPlayer.clock = 0
      BY DEF NoPlayer, PlayerT
    <3>2. CASE there = "viewer"
      <4>1. q = [NoPlayer EXCEPT !.story = place.story, !.list = s.known, !.media = 0]
        BY <1>1, <2>2, <3>2 DEF LoadStory
      <4> QED
        BY <1>4, <1>7, <3>1, <3>2, <4>1 DEF PlayerT
    <3>3. CASE there # "viewer"
      BY <2>2, <3>1, <3>3
    <3> QED
      BY <3>2, <3>3
  <2>4. e \in DueT /\ e.next # TRUE
    <3>1. pending.next \in BOOLEAN /\ pending.pull \in PullT
      BY DEF DueT
    <3>2. pending.next = TRUE => NextPlace \in PullT
      <4> SUFFICES ASSUME pending.next = TRUE PROVE NextPlace \in PullT
        OBVIOUS
      <4>1. p.story \in Nat
        BY <1>4 DEF PlayerT
      <4>2. NextPlace = IF p.story > 1 THEN At("viewer", p.story - 1) ELSE At("stories", 0)
        BY <1>1 DEF NextPlace
      <4> QED
        BY <4>1, <4>2 DEF At, PullT
    <3>3. PICK pull \in PullT : e = [pending EXCEPT !.play = FALSE, !.next = FALSE, !.pull = pull]
      BY <2>2, <3>1, <3>2
    <3> QED
      BY <3>3 DEF DueT
  <2>5. new = LeftCalls(calls, s.made, there, q.story)
    <3>1. s.made \in BOOLEAN
      BY <1>4 DEF StoriesT
    <3>2. (IF there \in {"stories", "viewer", "upload"} THEN Constructor ELSE <<>>)
             = (IF there \in {"stories", "viewer", "upload"} /\ s.made # TRUE THEN LoadStories ELSE <<>>)
      BY <1>1, <3>1 DEF Constructor
    <3>3. (IF there = "viewer" THEN <<Call("media", place.story)>> ELSE <<>>)
             = (IF there = "viewer" THEN <<Call("media", q.story)>> ELSE <<>>)
      BY <2>3
    <3> QED
      BY <2>2, <3>2, <3>3 DEF LeftCalls, Sent
  <2>7. "list" \in met => "list" \in met2
    BY <1>1
  <2>8. MissesUpload(calls) => "list" \in met2
    BY <1>1
  <2>10. StartsWell(s, calls, met, there, t, q, e, met2)
    BY <1>6, <2>3, <2>4, <2>7, <2>8 DEF StartsWell
  <2>9. StoryGood(there, n, t, q, e, new, met2)
    BY <1>3, <2>5, <2>10, OtherPage
  <2> QED
    BY <1>2, <1>5, <2>9 DEF StoryInv
<1> QED
  BY <1>8, <1>9

\* The accidents left after a move.
LEMMA MetAfterIs ==
  ASSUME NEW place, NEW met2, met2 = MetAfter(place) \/ met2 = HurriedTo(place)
  PROVE  /\ "list" \in storyMet \/ MissesUpload(storyCalls) => "list" \in met2
         /\ route.page = "viewer" /\ place.page = "viewer" /\ "hurried" \notin met2 =>
              IF met2 = HurriedTo(place)
              THEN player.clock = 0 /\ due.next # TRUE /\ OfKind(storyCalls, "media") = {}
              ELSE "hurried" \notin storyMet
<1>1. "list" \in storyMet \/ MissesUpload(storyCalls) => "list" \in MetAfter(place)
  BY DEF MetAfter, MissesUpload
<1>2. "list" \in MetAfter(place) => "list" \in HurriedTo(place)
  BY DEF HurriedTo
<1>3. route.page = "viewer" /\ place.page = "viewer" /\ "hurried" \notin MetAfter(place) => "hurried" \notin storyMet
  BY DEF MetAfter, Shows
<1>4. route.page = "viewer" /\ place.page = "viewer" /\ "hurried" \notin HurriedTo(place)
        => player.clock = 0 /\ due.next # TRUE /\ OfKind(storyCalls, "media") = {}
  BY DEF HurriedTo, Hurries, Shows, OfKind
<1> QED
  BY <1>1, <1>2, <1>3, <1>4

LEMMA HurriedGood ==
  ASSUME StoryInv, NEW place, PlaceGood(place), NEW pending \in DueT, route' = place,
         pending.next = TRUE => due.next = TRUE,
         StoryArrives(place, pending), storyMet' = HurriedTo(place)
  PROVE  StoryInv'
<1>1. PICK met2 : met2 = HurriedTo(place)
  OBVIOUS
<1>2. /\ "list" \in storyMet \/ MissesUpload(storyCalls) => "list" \in met2
      /\ route.page = "viewer" /\ place.page = "viewer" /\ "hurried" \notin met2
           => player.clock = 0 /\ due.next # TRUE /\ OfKind(storyCalls, "media") = {}
  BY <1>1, MetAfterIs
<1>3. due.next = TRUE => route.page = "viewer"
  BY DEF StoryInv, StoryGood, ViewerGood
<1> QED
  BY <1>1, <1>2, <1>3, StoryArrivesGood

\* The places the stories lead to.
LEMMA PlacesGood ==
  ASSUME StoryInv
  PROVE  /\ PlaceGood(NextPlace)
         /\ PlaceGood(Landing(At("viewer", player.story + 1)))
         /\ PlaceGood(Landing(due.pull))
         /\ PlaceGood(At("stories", 0))
         /\ due \in DueT
<1>1. player.story \in Nat /\ due \in DueT
  BY DEF StoryInv, StoryGood, StoryRest, PlayerT
<1>2. due.pull \in PullT
  BY <1>1 DEF DueT
<1>3. due.pull.page = "viewer" => due.pull.story \in Nat /\ due.pull.story # 0
  BY <1>2 DEF PullT
<1>4. PlaceGood(At("stories", 0))
  BY DEF PlaceGood, At
<1>5. PlaceGood(NextPlace)
  BY <1>1 DEF PlaceGood, NextPlace, At
<1>6. \A place : PlaceGood(place) => PlaceGood(Landing(place))
  BY <1>4 DEF Landing
<1>7. PlaceGood(At("viewer", player.story + 1))
  BY <1>1 DEF PlaceGood, At
<1>8. PlaceGood(due.pull)
  BY <1>3 DEF PlaceGood
<1> QED
  BY <1>1, <1>4, <1>5, <1>6, <1>7, <1>8

-----------------------------------------------------------------------------
LEMMA NextStoryGood == StoryInv /\ NextStory => StoryInv'
<1> SUFFICES ASSUME StoryInv, NextStory PROVE StoryInv'
  OBVIOUS
<1>1. PlaceGood(NextPlace) /\ due \in DueT
  BY PlacesGood
<1>2. PICK place, pending : place = NextPlace /\ pending = due
  OBVIOUS
<1>3. route' = place /\ StoryArrives(place, pending) /\ storyMet' = HurriedTo(place)
  BY <1>2 DEF NextStory, ClickTo, Goes
<1> QED
  BY <1>1, <1>2, <1>3, HurriedGood

LEMMA PreviousStoryGood == StoryInv /\ PreviousStory => StoryInv'
<1> SUFFICES ASSUME StoryInv, PreviousStory PROVE StoryInv'
  OBVIOUS
<1>1. PlaceGood(Landing(At("viewer", player.story + 1))) /\ due \in DueT
  BY PlacesGood
<1>2. PICK place, pending : place = Landing(At("viewer", player.story + 1)) /\ pending = due
  OBVIOUS
<1>3. route' = place /\ StoryArrives(place, pending) /\ storyMet' = HurriedTo(place)
  BY <1>2 DEF PreviousStory, ClickTo, Goes
<1> QED
  BY <1>1, <1>2, <1>3, HurriedGood

\* When a picture ends nothing is on its way and no clock runs, unless the
\* user has hurried.
LEMMA OnImageTimerEndGood == StoryInv /\ OnImageTimerEnd => StoryInv'
<1> SUFFICES ASSUME StoryInv, OnImageTimerEnd PROVE StoryInv'
  OBVIOUS
<1>1. PlaceGood(NextPlace) /\ due \in DueT
  BY PlacesGood
<1>2. PICK place, pending, met2 : place = NextPlace /\ pending = [due EXCEPT !.next = FALSE] /\ met2 = MetAfter(place)
  OBVIOUS
<1>3. route' = place /\ StoryArrives(place, pending) /\ storyMet' = met2 /\ due.next = TRUE
  <2>1. due.next \in BOOLEAN
    BY <1>1 DEF DueT
  <2> QED
    BY <1>2, <2>1 DEF OnImageTimerEnd, UnpromptedTo, Goes
<1>4. pending \in DueT /\ pending.next # TRUE
  BY <1>1, <1>2 DEF DueT
<1>5. PlaceGood(place)
  BY <1>1, <1>2
<1>6. "list" \in storyMet \/ MissesUpload(storyCalls) => "list" \in met2
  BY <1>2, MetAfterIs
<1>7. route.page = "viewer" /\ place.page = "viewer" /\ "hurried" \notin met2
        => player.clock = 0 /\ OfKind(storyCalls, "media") = {}
  <2> SUFFICES ASSUME route.page = "viewer", place.page = "viewer", "hurried" \notin met2
               PROVE  player.clock = 0 /\ OfKind(storyCalls, "media") = {}
    OBVIOUS
  <2>1. "hurried" \notin storyMet
    BY <1>2 DEF MetAfter, Shows
  <2>2. ViewerCalm(player, due, storyCalls, storyMet)
    BY DEF StoryInv, StoryGood, ViewerGood
  <2> QED
    BY <1>3, <2>1, <2>2 DEF ViewerCalm
<1> QED
  BY <1>3, <1>4, <1>5, <1>6, <1>7, StoryArrivesGood

LEMMA UploadGoesHomeGood == StoryInv /\ UploadGoesHome => StoryInv'
<1> SUFFICES ASSUME StoryInv, UploadGoesHome PROVE StoryInv'
  OBVIOUS
<1>1. PlaceGood(At("stories", 0)) /\ due \in DueT
  BY PlacesGood
<1>2. PICK place, pending, met2 : /\ place = At("stories", 0) /\ pending = [due EXCEPT !.home = FALSE]
                                  /\ met2 = MetAfter(place)
  OBVIOUS
<1>3. route' = place /\ StoryArrives(place, pending) /\ storyMet' = met2 /\ route.page = "upload"
  BY <1>2 DEF UploadGoesHome, UnpromptedTo, Goes, Shows
<1>4. pending \in DueT /\ pending.next = due.next
  BY <1>1, <1>2 DEF DueT
<1>5. PlaceGood(place)
  BY <1>1, <1>2
<1>6. "list" \in storyMet \/ MissesUpload(storyCalls) => "list" \in met2
  BY <1>2, MetAfterIs
<1>7. due.next # TRUE
  BY <1>3 DEF StoryInv, StoryGood, ViewerGood
<1> QED
  BY <1>3, <1>4, <1>5, <1>6, <1>7, StoryArrivesGood

-----------------------------------------------------------------------------
\* The viewer changes, and nothing is sent or answered.
LEMMA ViewerTurns ==
  ASSUME StoryInv, UNCHANGED <<stored, stories, storyCalls>>, route' = route,
         NEW p, p = player, NEW q \in PlayerT, q = player', NEW d, d = due, NEW e \in DueT, e = due', NEW met2, met2 = storyMet',
         "list" \in storyMet => "list" \in met2, "media" \in storyMet => "media" \in met2,
         q.story = p.story /\ q.media = p.media,
         route.page # "viewer" => q.clock = 0 /\ e.next # TRUE,
         route.page = "viewer" /\ "hurried" \notin met2 =>
           /\ "hurried" \notin storyMet
           /\ OfKind(storyCalls, "media") # {} => q.clock = 0 /\ e.next # TRUE
           /\ q.clock # 0 \/ e.next = TRUE => p.media = p.story
           /\ e.next = TRUE => q.clock = 0
  PROVE  StoryInv'
<1>1. PICK page, n, s, calls, met : page = route.page /\ n = stored /\ s = stories /\ calls = storyCalls /\ met = storyMet
  OBVIOUS
<1>2. StoryRest(n, s, p, d, calls) /\ ListCourse(page, n, s, calls, met) /\ ViewerGood(page, p, d, calls, met)
  BY <1>1 DEF StoryInv, StoryGood
<1>3. StoryRest(n, s, q, e, calls)
  BY <1>2 DEF StoryRest
<1>4. ListCourse(page, n, s, calls, met2)
  BY <1>1, <1>2 DEF ListCourse, Course
<1>5. page = "viewer" => ViewerShows(q, calls, met2)
  BY <1>1, <1>2 DEF ViewerGood, ViewerShows
<1>6. page = "viewer" => ViewerCalm(q, e, calls, met2)
  <2> SUFFICES ASSUME page = "viewer", "hurried" \notin met2 PROVE ViewerCalm(q, e, calls, met2)
    BY DEF ViewerCalm
  <2>1. /\ "hurried" \notin met
        /\ OfKind(calls, "media") # {} => q.clock = 0 /\ e.next # TRUE
        /\ q.clock # 0 \/ e.next = TRUE => p.media = p.story
        /\ e.next = TRUE => q.clock = 0
    BY <1>1
  <2> QED
    BY <1>2, <2>1 DEF ViewerGood, ViewerCalm
<1>7. ViewerGood(page, q, e, calls, met2)
  BY <1>1, <1>2, <1>5, <1>6 DEF ViewerGood
<1>8. StoryGood(page, n, s, q, e, calls, met2)
  BY <1>3, <1>4, <1>7 DEF StoryGood
<1> QED
  BY <1>1, <1>8 DEF StoryInv

LEMMA StoryTypes ==
  ASSUME StoryInv
  PROVE  player \in PlayerT /\ due \in DueT /\ stories \in StoriesT /\ stored \in Nat
BY DEF StoryInv, StoryGood, StoryRest

LEMMA TogglePlayPauseGood == StoryInv /\ TogglePlayPause => StoryInv'
<1> SUFFICES ASSUME StoryInv, TogglePlayPause PROVE StoryInv'
  OBVIOUS
<1>1. PICK p, q, d, met, met2 : p = player /\ q = player' /\ d = due /\ met = storyMet /\ met2 = storyMet'
  OBVIOUS
<1>2. p \in PlayerT /\ d \in DueT
  BY <1>1, StoryTypes
<1>3. PICK c \in {p.clock, 0, p.story} : q = [p EXCEPT !.playing = ~@, !.clock = c]
  BY <1>1 DEF TogglePlayPause
<1>4. p.story \in Nat /\ p.clock \in Nat /\ d.next \in BOOLEAN
  BY <1>2 DEF PlayerT, DueT
<1>5. q \in PlayerT /\ q.story = p.story /\ q.media = p.media /\ q.clock \in {p.clock, 0, p.story}
  <2>1. PICK playing \in BOOLEAN : playing = ~p.playing
    OBVIOUS
  <2>2. q = [p EXCEPT !.playing = playing, !.clock = c]
    BY <1>3, <2>1
  <2>3. c \in Nat
    BY <1>4
  <2> QED
    BY <1>2, <2>2, <2>3 DEF PlayerT
<1>6. /\ met2 = IF p.media # p.story \/ d.next THEN met \union {"hurried"} ELSE met
      /\ UNCHANGED <<stored, stories, storyCalls, due>> /\ route' = route /\ route.page = "viewer"
  BY <1>1 DEF TogglePlayPause, Click, Shows
<1>7. "hurried" \notin met2 => "hurried" \notin met /\ p.media = p.story /\ d.next # TRUE
  BY <1>4, <1>6
<1>8. "hurried" \notin met => (OfKind(storyCalls, "media") # {} => p.media = 0) /\ p.story # 0
  BY <1>1, <1>6 DEF StoryInv, StoryGood, ViewerGood, ViewerCalm
<1>9. /\ "list" \in met => "list" \in met2
      /\ "media" \in met => "media" \in met2
  BY <1>6
<1>10. "hurried" \notin met2 => OfKind(storyCalls, "media") = {}
  BY <1>7, <1>8
<1> QED
  BY <1>1, <1>2, <1>5, <1>6, <1>7, <1>9, <1>10, ViewerTurns

LEMMA ImageTimerEndsGood == StoryInv /\ ImageTimerEnds => StoryInv'
<1> SUFFICES ASSUME StoryInv, ImageTimerEnds PROVE StoryInv'
  OBVIOUS
<1>1. PICK p, q, d, e, met : p = player /\ q = player' /\ d = due /\ e = due' /\ met = storyMet
  OBVIOUS
<1>2. p \in PlayerT /\ d \in DueT
  BY <1>1, StoryTypes
<1>3. /\ q = [p EXCEPT !.clock = 0, !.playing = FALSE] /\ e = [d EXCEPT !.next = TRUE]
      /\ UNCHANGED <<stored, stories, storyCalls, storyMet>> /\ route' = route /\ route.page = "viewer" /\ p.clock # 0
  BY <1>1 DEF ImageTimerEnds, Unprompted, browserVars, Shows
<1>4. q \in PlayerT /\ q.story = p.story /\ q.media = p.media /\ q.clock = 0 /\ e \in DueT
  BY <1>2, <1>3 DEF PlayerT, DueT
<1>5. "hurried" \notin met => OfKind(storyCalls, "media") = {} /\ p.media = p.story
  BY <1>1, <1>3 DEF StoryInv, StoryGood, ViewerGood, ViewerCalm
<1>6. storyMet' = met
  BY <1>1, <1>3
<1> QED
  BY <1>1, <1>2, <1>3, <1>4, <1>5, <1>6, ViewerTurns

LEMMA PlayVideoGood == StoryInv /\ PlayVideo => StoryInv'
<1> SUFFICES ASSUME StoryInv, PlayVideo PROVE StoryInv'
  OBVIOUS
<1>1. PICK p, q, d, e, met : p = player /\ q = player' /\ d = due /\ e = due' /\ met = storyMet
  OBVIOUS
<1>2. p \in PlayerT /\ d \in DueT
  BY <1>1, StoryTypes
<1>3. /\ q = [p EXCEPT !.playing = @ \/ IsVideo(p)] /\ e = [d EXCEPT !.play = FALSE]
      /\ UNCHANGED <<stored, stories, storyCalls, storyMet>> /\ route' = route
  BY <1>1 DEF PlayVideo, Unprompted, browserVars
<1>4. q \in PlayerT /\ q.story = p.story /\ q.media = p.media /\ q.clock = p.clock
  <2>1. PICK playing \in BOOLEAN : playing = (p.playing \/ IsVideo(p))
    OBVIOUS
  <2>2. q = [p EXCEPT !.playing = playing]
    BY <1>3, <2>1
  <2> QED
    BY <1>2, <2>2 DEF PlayerT
<1>5. e \in DueT /\ e.next = d.next
  BY <1>2, <1>3 DEF DueT
<1>6. /\ route.page # "viewer" => p.clock = 0 /\ d.next # TRUE
      /\ route.page = "viewer" /\ "hurried" \notin met =>
           /\ OfKind(storyCalls, "media") # {} => p.clock = 0 /\ d.next # TRUE
           /\ p.clock # 0 \/ d.next = TRUE => p.media = p.story
           /\ d.next = TRUE => p.clock = 0
  BY <1>1 DEF StoryInv, StoryGood, ViewerGood, ViewerCalm
<1>7. storyMet' = met
  BY <1>1, <1>3
<1> QED
  BY <1>1, <1>2, <1>3, <1>4, <1>5, <1>6, <1>7, ViewerTurns

\* A call that brings no file is gone.
LEMMA StoryCallGone ==
  ASSUME NEW page, NEW n, NEW s, NEW p, NEW d, NEW calls, NEW met, StoryGood(page, n, s, p, d, calls, met),
         NEW j \in 1..Len(calls), calls[j].kind # "media",
         NEW new \in Seq(StoryCallT), Rid(new, calls, j),
         NEW m \in Nat, NEW t \in StoriesT, NEW e \in DueT, e.next = d.next,
         NEW met2, met \subseteq met2, ListCourse(page, m, t, new, met2)
  PROVE  StoryGood(page, m, t, p, e, new, met2)
<1>1. StoryRest(n, s, p, d, calls) /\ ListCourse(page, n, s, calls, met) /\ ViewerGood(page, p, d, calls, met)
  BY DEF StoryGood
<1>2. calls \in Seq(StoryCallT) /\ p \in PlayerT
  BY <1>1 DEF StoryRest
<1>3. StoryRest(n, t, p, e, new)
  BY <1>1, <1>2, StoryRestRid
<1>4. StoryRest(m, t, p, e, new)
  BY <1>3 DEF StoryRest
<1>6. ViewerGood(page, p, d, new, met2)
  BY <1>1, <1>2, ViewerRid
<1>7. ViewerGood(page, p, e, new, met2)
  BY <1>6 DEF ViewerGood, ViewerCalm
<1> QED
  BY <1>4, <1>7 DEF StoryGood

LEMMA StoryUploadSent == StoryInv /\ UploadStory => StoryInv'
<1> SUFFICES ASSUME StoryInv, UploadStory PROVE StoryInv'
  OBVIOUS
<1>1. PICK page, n, s, p, d, calls, met :
        /\ page = route.page /\ n = stored /\ s = stories /\ p = player /\ d = due
        /\ calls = storyCalls /\ met = storyMet
  OBVIOUS
<1>2. PICK more, t, new : more = <<Call("upload", 0)>> /\ t = stories' /\ new = storyCalls'
  OBVIOUS
<1>3. /\ t = [s EXCEPT !.uploading = TRUE] /\ new = Sent(calls, more) /\ route'.page = page
      /\ stored' = n /\ player' = p /\ due' = d /\ storyMet' = met
  BY <1>1, <1>2 DEF UploadStory, Click
<1>4. StoryRest(n, s, p, d, calls) /\ ListCourse(page, n, s, calls, met) /\ ViewerGood(page, p, d, calls, met)
  BY <1>1 DEF StoryInv, StoryGood
<1>5. calls \in Seq(StoryCallT) /\ s \in StoriesT /\ p \in PlayerT /\ d \in DueT
  BY <1>4 DEF StoryRest
<1>6. t \in StoriesT /\ t.made = s.made /\ t.known = s.known
  BY <1>3, <1>5 DEF StoriesT
<1>7. StoryMore(more)
  BY <1>2, StoryCallMade DEF StoryKinds
<1>8. \A kind : OfKind(more, kind) = {} <=> "upload" # kind
  BY <1>2, StoryCallMade DEF StoryKinds
<1>9. StoryRest(n, t, p, d, Sent(calls, more))
  BY <1>4, <1>5, <1>6, <1>7, StoryRestSent
<1>10. more \in Seq(StoryCallT) /\ \A k \in 1..Len(more) : more[k].at = "sent"
  BY <1>7 DEF StoryMore
<1>11. s.made = TRUE => Course(Sent(calls, more), met, "list", {"list"}, ListR(n), ListDue, s.known, {n})
  BY <1>4, <1>5, <1>10, SentCourse DEF ListCourse
<1>12. ListCourse(page, n, t, Sent(calls, more), met)
  BY <1>4, <1>6, <1>11 DEF ListCourse
<1>13. ViewerGood(page, p, d, Sent(calls, more), met)
  BY <1>4, <1>5, <1>8, <1>10, ViewerSent
<1>14. StoryGood(page, n, t, p, d, new, met)
  BY <1>3, <1>9, <1>12, <1>13 DEF StoryGood
<1> QED
  BY <1>2, <1>3, <1>14 DEF StoryInv

\* The server.
LEMMA ServeUploadGood ==
  ASSUME StoryInv, NEW j \in 1..Len(storyCalls), ServeUpload(j)
  PROVE  StoryInv'
<1>1. PICK page, n, s, p, d, calls, met :
        /\ page = route.page /\ n = stored /\ s = stories /\ p = player /\ d = due
        /\ calls = storyCalls /\ met = storyMet
  OBVIOUS
<1>2. PICK m, new, met2 : m = stored' /\ new = storyCalls' /\ met2 = storyMet'
  OBVIOUS
<1>3. /\ calls[j].kind = "upload" /\ calls[j].at = "sent" /\ m = n + 1 /\ route'.page = page
      /\ new = (IF calls[j].deaf THEN RemoveAt(calls, j) ELSE Served(calls, j, n + 1))
      /\ met2 = (IF calls[j].deaf THEN met \union {"list"} ELSE met)
      /\ stories' = s /\ player' = p /\ due' = d
  BY <1>1, <1>2 DEF ServeUpload, Unprompted, browserVars
<1>4. StoryGood(page, n, s, p, d, calls, met) /\ j \in 1..Len(calls)
  BY <1>1 DEF StoryInv
<1>5. StoryRest(n, s, p, d, calls) /\ ListCourse(page, n, s, calls, met) /\ ViewerGood(page, p, d, calls, met)
  BY <1>4 DEF StoryGood
<1>6. calls \in Seq(StoryCallT) /\ s \in StoriesT /\ p \in PlayerT /\ d \in DueT /\ n \in Nat
  BY <1>5 DEF StoryRest
<1>7. m \in Nat /\ calls[j].deaf \in BOOLEAN
  <2>1. calls[j].deaf \in BOOLEAN
    BY <1>4, <1>5, StoryCallIs
  <2>2. m \in Nat
    BY <1>3, <1>6
  <2> QED
    BY <2>1, <2>2
<1>8. CASE calls[j].deaf = TRUE
  <2>1. new = RemoveAt(calls, j) /\ met2 = met \union {"list"}
    BY <1>3, <1>8
  <2>2. new \in Seq(StoryCallT) /\ Rid(new, calls, j)
    BY <1>4, <1>6, <2>1, RemovedCall
  <2>3. ListCourse(page, m, s, new, met2)
    BY <1>5, <2>1 DEF ListCourse, Course
  <2>4. calls[j].kind # "media" /\ met \subseteq met2 /\ d.next = d.next
    BY <1>3, <2>1
  <2>5. StoryGood(page, m, s, p, d, new, met2)
    BY <1>4, <1>6, <1>7, <2>2, <2>3, <2>4, StoryCallGone
  <2> QED
    BY <1>2, <1>3, <2>5 DEF StoryInv
<1>9. CASE calls[j].deaf = FALSE
  <2>1. new = Served(calls, j, m) /\ met2 = met
    BY <1>3, <1>9
  <2>2. StoryRest(m, s, p, d, Served(calls, j, m))
    BY <1>3, <1>4, <1>5, <1>7, <1>9, StoryRestServed
  <2>3. calls \in Seq(CallsOf(StoryKinds, Nat, StoryGots, StoryTopics)) /\ m \in StoryGots
    BY <1>6, <1>7 DEF StoryCallT, StoryGots
  <2>4. ViewerGood(page, p, d, Served(calls, j, m), met)
    BY <1>3, <1>4, <1>5, <2>3, ViewerServed
  <2>5. <<calls[j].kind, "served", calls[j].deaf>> \in ListDue
    BY <1>3, <1>9 DEF ListDue
  <2>6. OnCourse(Served(calls, j, m), {"list"}, "list", ListR(m), ListDue, s.known, {m})
    BY <1>3, <1>4, <2>3, <2>5, ServedOnCourse
  <2>7. ListCourse(page, m, s, Served(calls, j, m), met)
    BY <1>5, <2>6 DEF ListCourse, Course
  <2>8. StoryGood(page, m, s, p, d, new, met2)
    BY <2>1, <2>2, <2>4, <2>7 DEF StoryGood
  <2> QED
    BY <1>2, <1>3, <2>8 DEF StoryInv
<1> QED
  BY <1>7, <1>8, <1>9

LEMMA ServeListGood ==
  ASSUME StoryInv, NEW j \in 1..Len(storyCalls), ServeList(j)
  PROVE  StoryInv'
<1>1. PICK page, n, s, p, d, calls, met :
        /\ page = route.page /\ n = stored /\ s = stories /\ p = player /\ d = due
        /\ calls = storyCalls /\ met = storyMet
  OBVIOUS
<1>2. PICK new : new = storyCalls'
  OBVIOUS
<1>3. /\ calls[j].kind = "list" /\ calls[j].at = "sent" /\ new = Served(calls, j, n) /\ route'.page = page
      /\ stored' = n /\ stories' = s /\ player' = p /\ due' = d /\ storyMet' = met
  BY <1>1, <1>2 DEF ServeList, Unprompted, browserVars
<1>4. StoryGood(page, n, s, p, d, calls, met) /\ j \in 1..Len(calls)
  BY <1>1 DEF StoryInv
<1>5. StoryRest(n, s, p, d, calls) /\ ListCourse(page, n, s, calls, met) /\ ViewerGood(page, p, d, calls, met)
  BY <1>4 DEF StoryGood
<1>6. calls \in Seq(StoryCallT) /\ n \in Nat
  BY <1>5 DEF StoryRest
<1>7. calls[j].deaf = FALSE
  <2>1. calls[j].deaf \in BOOLEAN /\ calls[j].deaf # TRUE
    BY <1>3, <1>4, <1>5, StoryCallIs
  <2> QED
    BY <2>1
<1>8. StoryRest(n, s, p, d, Served(calls, j, n))
  BY <1>3, <1>4, <1>5, <1>6, <1>7, StoryRestServed
<1>9. calls \in Seq(CallsOf(StoryKinds, Nat, StoryGots, StoryTopics)) /\ n \in StoryGots
  BY <1>6 DEF StoryCallT, StoryGots
<1>10. ViewerGood(page, p, d, Served(calls, j, n), met)
  BY <1>3, <1>4, <1>5, <1>9, ViewerServed
<1>11. calls[j].kind \in {"list"} /\ <<calls[j].kind, n>> \in ListR(n)
  BY <1>3 DEF ListR
<1>12. OnCourse(Served(calls, j, n), {"list"}, "list", ListR(n), ListDue, s.known, {n})
  BY <1>3, <1>4, <1>9, <1>11, ServedOnCourse
<1>13. ListCourse(page, n, s, Served(calls, j, n), met)
  BY <1>5, <1>12 DEF ListCourse, Course
<1>14. StoryGood(page, n, s, p, d, new, met)
  BY <1>3, <1>8, <1>10, <1>13 DEF StoryGood
<1> QED
  BY <1>2, <1>3, <1>14 DEF StoryInv

-----------------------------------------------------------------------------
\* The answers.
LEMMA UploadedGood ==
  ASSUME StoryInv, NEW j \in 1..Len(storyCalls), Uploaded(j)
  PROVE  StoryInv'
<1>1. PICK page, n, s, p, d, calls, met :
        /\ page = route.page /\ n = stored /\ s = stories /\ p = player /\ d = due
        /\ calls = storyCalls /\ met = storyMet
  OBVIOUS
<1>2. PICK new, e, more, left : new = storyCalls' /\ e = due' /\ more = LoadStories /\ left = RemoveAt(calls, j)
  OBVIOUS
<1>3. /\ calls[j].kind = "upload" /\ calls[j].at = "served" /\ new = Sent(left, more) /\ route'.page = page
      /\ stored' = n /\ stories' = s /\ player' = p /\ e = [d EXCEPT !.home = TRUE] /\ storyMet' = met
  BY <1>1, <1>2 DEF Uploaded, Unprompted, browserVars
<1>4. StoryGood(page, n, s, p, d, calls, met) /\ j \in 1..Len(calls)
  BY <1>1 DEF StoryInv
<1>5. StoryRest(n, s, p, d, calls) /\ ListCourse(page, n, s, calls, met) /\ ViewerGood(page, p, d, calls, met)
  BY <1>4 DEF StoryGood
<1>6. calls \in Seq(StoryCallT) /\ s \in StoriesT /\ p \in PlayerT /\ d \in DueT /\ n \in Nat
  BY <1>5 DEF StoryRest
<1>7. e \in DueT /\ e.next = d.next
  BY <1>3, <1>6 DEF DueT
<1>8. left \in Seq(StoryCallT) /\ Rid(left, calls, j)
  BY <1>2, <1>4, <1>6, RemovedCall
<1>9. more = <<Call("list", 0)>> /\ "list" \in StoryKinds
  BY <1>2 DEF LoadStories, StoryKinds
<1>10. StoryMore(more)
  BY <1>9, StoryCallMade
<1>11. \A kind : OfKind(more, kind) = {} <=> "list" # kind
  BY <1>9, StoryCallMade
<1>12. \A P : Pending(more, P) <=> <<"list", "sent", FALSE>> \in P
  BY <1>9, StoryCallMade
<1>13. more \in Seq(StoryCallT) /\ \A k \in 1..Len(more) : more[k].at = "sent"
  BY <1>10 DEF StoryMore
<1>14. StoryRest(n, s, p, e, Sent(left, more))
  <2>1. StoryRest(n, s, p, e, left)
    BY <1>4, <1>5, <1>6, <1>7, <1>8, StoryRestRid
  <2> QED
    BY <1>6, <1>7, <1>10, <2>1, StoryRestSent
<1>15. ViewerGood(page, p, e, Sent(left, more), met)
  <2>1. ViewerGood(page, p, d, left, met)
    BY <1>3, <1>4, <1>5, <1>6, <1>8, ViewerRid
  <2>2. ViewerGood(page, p, d, Sent(left, more), met)
    BY <1>8, <1>11, <1>13, <2>1, ViewerSent
  <2> QED
    BY <1>7, <2>2 DEF ViewerGood, ViewerCalm
<1>16. Pending(more, ListDue)
  BY <1>12 DEF ListDue
<1>17. OnTrack(Sent(left, more), {"list"}, "list", ListR(n), ListDue)
  BY <1>8, <1>13, <1>16, SentOnTrack
<1>18. ListCourse(page, n, s, Sent(left, more), met)
  BY <1>5, <1>17 DEF ListCourse, Course, OnCourse
<1>19. StoryGood(page, n, s, p, e, new, met)
  BY <1>3, <1>14, <1>15, <1>18 DEF StoryGood
<1> QED
  BY <1>2, <1>3, <1>19 DEF StoryInv

LEMMA ListLoadedGood ==
  ASSUME StoryInv, NEW j \in 1..Len(storyCalls), ListLoaded(j)
  PROVE  StoryInv'
<1>1. PICK page, n, s, p, d, calls, met :
        /\ page = route.page /\ n = stored /\ s = stories /\ p = player /\ d = due
        /\ calls = storyCalls /\ met = storyMet
  OBVIOUS
<1>2. PICK new, t, met2, known : new = storyCalls' /\ t = stories' /\ met2 = storyMet' /\ known = calls[j].got
  OBVIOUS
<1>3. /\ calls[j].kind = "list" /\ calls[j].at = "served" /\ new = Answered(calls, j, StoryTells) /\ route'.page = page
      /\ stored' = n /\ t = [s EXCEPT !.known = known] /\ player' = p /\ due' = d
      /\ met2 = IF calls[j].late = {} THEN met ELSE met \union {"list"}
  BY <1>1, <1>2 DEF ListLoaded, Unprompted, browserVars
<1>4. StoryGood(page, n, s, p, d, calls, met) /\ j \in 1..Len(calls)
  BY <1>1 DEF StoryInv
<1>5. StoryRest(n, s, p, d, calls) /\ ListCourse(page, n, s, calls, met)
  BY <1>4 DEF StoryGood
<1>6. calls \in Seq(StoryCallT) /\ s \in StoriesT /\ d \in DueT /\ n \in Nat
  BY <1>5 DEF StoryRest
<1>7. known \in Nat
  BY <1>2, <1>3, <1>4, <1>5, StoryCallIs
<1>8. t \in StoriesT /\ t.made = s.made /\ t.known = known
  BY <1>3, <1>6, <1>7 DEF StoriesT
<1>9. calls \in Seq(CallsOf(StoryKinds, Nat, StoryGots, StoryTopics))
  BY <1>6 DEF StoryCallT
<1>10. \A o \in StoryTells : o[2] \in StoryTopics
  BY StoryTellsOf
<1>11. new \in Seq(StoryCallT) /\ Rid(new, calls, j)
  BY <1>3, <1>4, <1>9, <1>10, AnsweredIs DEF StoryCallT
<1>12. met \subseteq met2 /\ ("list" \in calls[j].late => "list" \in met2)
  BY <1>3
<1>13. t.made = TRUE => Course(new, met2, "list", {"list"}, ListR(n), ListDue, t.known, {n})
  <2> SUFFICES ASSUME s.made = TRUE, "list" \notin met2
               PROVE  OnCourse(new, {"list"}, "list", ListR(n), ListDue, t.known, {n})
    BY <1>8 DEF Course
  <2>1. OnCourse(calls, {"list"}, "list", ListR(n), ListDue, s.known, {n})
    BY <1>5, <1>12 DEF ListCourse, Course
  <2>2. \A kind \in {"list"} : <<kind, "list">> \in StoryTells
    BY StoryTellsOf
  <2>3. <<calls[j].kind, "served", calls[j].deaf>> \notin ListDue /\ calls[j].kind \in {"list"}
    BY <1>3 DEF ListDue
  <2>4. "list" \notin calls[j].late
    BY <1>12
  <2>5. <<calls[j].kind, calls[j].got>> \in ListR(n) => t.known \in {n}
    BY <1>2, <1>8 DEF ListR
  <2>6. OnCourse(Answered(calls, j, StoryTells), {"list"}, "list", ListR(n), ListDue, t.known, {n})
    BY <1>3, <1>4, <1>9, <1>10, <2>1, <2>2, <2>3, <2>4, <2>5, AnsweredOnCourse
  <2> QED
    BY <1>3, <2>6
<1>15. ListCourse(page, n, t, new, met2)
  BY <1>5, <1>8, <1>13 DEF ListCourse
<1>14. StoryGood(page, n, t, p, d, new, met2)
  BY <1>3, <1>4, <1>6, <1>8, <1>11, <1>12, <1>15, StoryCallGone
<1> QED
  BY <1>2, <1>3, <1>14 DEF StoryInv

\* A file is there: those asked for before it are late.
LEMMA MediaLoadedGood ==
  ASSUME StoryInv, NEW j \in 1..Len(storyCalls), MediaLoaded(j)
  PROVE  StoryInv'
<1>1. PICK page, n, s, p, d, calls, met :
        /\ page = route.page /\ n = stored /\ s = stories /\ p = player /\ d = due
        /\ calls = storyCalls /\ met = storyMet
  OBVIOUS
<1>2. PICK new, q, e, met2, file :
        new = storyCalls' /\ q = player' /\ e = due' /\ met2 = storyMet' /\ file = calls[j].arg
  OBVIOUS
<1>3. /\ calls[j].kind = "media" /\ new = Answered(calls, j, StoryTells) /\ route'.page = page
      /\ stored' = n /\ stories' = s /\ q = Arrived(p, file) /\ e = [d EXCEPT !.play = @ \/ IsVideo(p)]
      /\ met2 = IF calls[j].late = {} THEN met ELSE met \union {"media"}
  BY <1>1, <1>2 DEF MediaLoaded, Unprompted, browserVars
<1>4. StoryGood(page, n, s, p, d, calls, met) /\ j \in 1..Len(calls)
  BY <1>1 DEF StoryInv
<1>5. StoryRest(n, s, p, d, calls) /\ ListCourse(page, n, s, calls, met) /\ ViewerGood(page, p, d, calls, met)
  BY <1>4 DEF StoryGood
<1>6. calls \in Seq(StoryCallT) /\ s \in StoriesT /\ p \in PlayerT /\ d \in DueT /\ n \in Nat
  BY <1>5 DEF StoryRest
<1>7. calls[j].at = "sent" /\ file \in Nat
  <2>1. calls[j].arg \in Nat /\ (calls[j].kind = "media" => calls[j].at = "sent")
    BY <1>4, <1>5, StoryCallIs
  <2> QED
    BY <1>2, <1>3, <2>1
<1>8. q \in PlayerT /\ q.story = p.story /\ q.media = file
  <2>1. p.story \in Nat
    BY <1>6 DEF PlayerT
  <2>2. q = [p EXCEPT !.media = file, !.playing = TRUE, !.clock = p.story] \/ q = [p EXCEPT !.media = file]
    BY <1>3 DEF Arrived
  <2> QED
    BY <1>6, <1>7, <2>1, <2>2 DEF PlayerT
<1>9. e \in DueT /\ e.next = d.next
  <2>1. PICK play \in BOOLEAN : play = (d.play \/ IsVideo(p))
    OBVIOUS
  <2>2. e = [d EXCEPT !.play = play]
    BY <1>3, <2>1
  <2> QED
    BY <1>6, <2>2 DEF DueT
<1>10. calls \in Seq(CallsOf(StoryKinds, Nat, StoryGots, StoryTopics))
  BY <1>6 DEF StoryCallT
<1>11. /\ \A o \in StoryTells : o[2] \in StoryTopics
       /\ <<"media", "media">> \in StoryTells
  BY StoryTellsOf
<1>12. new \in Seq(StoryCallT) /\ Rid(new, calls, j)
  BY <1>3, <1>4, <1>10, <1>11, AnsweredIs DEF StoryCallT
<1>13. StoryRest(n, s, q, e, new)
  BY <1>4, <1>5, <1>6, <1>8, <1>9, <1>12, StoryRestRid
<1>14. ListCourse(page, n, s, new, met2)
  <2> SUFFICES ASSUME s.made = TRUE, "list" \notin met2
               PROVE  OnCourse(new, {"list"}, "list", ListR(n), ListDue, s.known, {n})
    BY <1>5 DEF ListCourse, Course
  <2>1. OnCourse(calls, {"list"}, "list", ListR(n), ListDue, s.known, {n})
    BY <1>3, <1>5 DEF ListCourse, Course
  <2>2. <<calls[j].kind, calls[j].at, calls[j].deaf>> \notin ListDue
    BY <1>3 DEF ListDue
  <2> QED
    BY <1>4, <1>6, <1>7, <1>12, <2>1, <2>2, RidOnCourse
<1>15. page = "viewer"
  <2>1. j \in OfKind(calls, "media")
    BY <1>3, <1>4 DEF OfKind
  <2> QED
    BY <1>5, <2>1 DEF ViewerGood
<1>16. ViewerShows(q, new, met2)
  <2> SUFFICES ASSUME "media" \notin met2
               PROVE  LastAsks(new, "media", {q.story}, "media") /\ (OfKind(new, "media") = {} => q.media = q.story)
    BY DEF ViewerShows
  <2>1. LastAsks(calls, "media", {p.story}, "media") /\ "media" \notin calls[j].late
    BY <1>3, <1>5, <1>15 DEF ViewerGood, ViewerShows
  <2>2. \A i \in OfKind(calls, "media") : calls[i].at = calls[j].at
    <3>1. ASSUME NEW i \in OfKind(calls, "media") PROVE calls[i].at = "sent"
      <4>1. i \in 1..Len(calls) /\ calls[i].kind = "media"
        BY DEF OfKind
      <4>2. calls[i].kind = "media" => calls[i].at = "sent"
        BY <1>5, <4>1, StoryCallIs
      <4> QED
        BY <4>1, <4>2
    <3> QED
      BY <1>7, <3>1
  <2>3. LastAsks(Answered(calls, j, StoryTells), "media", {p.story}, "media")
    BY <1>3, <1>4, <1>10, <1>11, <2>1, <2>2, AnsweredAsks
  <2>4. OfKind(Answered(calls, j, StoryTells), "media") = {} => calls[j].arg \in {p.story} \/ "media" \in calls[j].late
    BY <1>3, <1>4, <1>10, <1>11, <2>1, <2>2, AnsweredAsks
  <2> QED
    BY <1>2, <1>3, <1>8, <2>1, <2>3, <2>4
<1>17. ViewerCalm(q, e, new, met2)
  <2> SUFFICES ASSUME "hurried" \notin met2 PROVE ViewerCalm(q, e, new, met2)
    BY DEF ViewerCalm
  <2>1. "hurried" \notin met
    BY <1>3
  <2>2. /\ AtMostOne(calls, "media") /\ AllAsk(calls, "media", {p.story})
        /\ OfKind(calls, "media") # {} => d.next # TRUE
    BY <1>5, <1>15, <2>1 DEF ViewerGood, ViewerCalm
  <2>3. j \in OfKind(calls, "media")
    BY <1>3, <1>4 DEF OfKind
  <2>4. file = p.story /\ e.next # TRUE
    BY <1>2, <1>9, <2>2, <2>3 DEF AllAsk
  <2>5. OfKind(new, "media") = {}
    BY <1>3, <1>4, <1>6, <1>12, <2>2, RidKinds
  <2>6. AtMostOne(new, "media") /\ AllAsk(new, "media", {q.story})
    BY <2>5 DEF AtMostOne, AllAsk
  <2> QED
    BY <1>8, <2>4, <2>5, <2>6 DEF ViewerCalm
<1>18. q.story # 0
  BY <1>5, <1>8, <1>15 DEF ViewerGood
<1>19. StoryGood(page, n, s, q, e, new, met2)
  BY <1>13, <1>14, <1>15, <1>16, <1>17, <1>18 DEF StoryGood, ViewerGood
<1> QED
  BY <1>2, <1>3, <1>19 DEF StoryInv

LEMMA MediaFailedGood ==
  ASSUME StoryInv, NEW j \in 1..Len(storyCalls), MediaFailed(j)
  PROVE  StoryInv'
<1>1. PICK page, n, s, p, d, calls, met :
        /\ page = route.page /\ n = stored /\ s = stories /\ p = player /\ d = due
        /\ calls = storyCalls /\ met = storyMet
  OBVIOUS
<1>2. PICK new, q, e, met2 : new = storyCalls' /\ q = player' /\ e = due' /\ met2 = storyMet'
  OBVIOUS
<1>3. /\ calls[j].kind = "media" /\ new = RemoveAt(calls, j) /\ route'.page = page
      /\ stored' = n /\ stories' = s /\ q = Arrived(p, 0) /\ e = [d EXCEPT !.play = @ \/ IsVideo(p)]
      /\ met2 = met \union {"media", "hurried"}
  BY <1>1, <1>2 DEF MediaFailed, Failing
<1>4. StoryGood(page, n, s, p, d, calls, met) /\ j \in 1..Len(calls)
  BY <1>1 DEF StoryInv
<1>5. StoryRest(n, s, p, d, calls) /\ ListCourse(page, n, s, calls, met) /\ ViewerGood(page, p, d, calls, met)
  BY <1>4 DEF StoryGood
<1>6. calls \in Seq(StoryCallT) /\ s \in StoriesT /\ p \in PlayerT /\ d \in DueT /\ n \in Nat
  BY <1>5 DEF StoryRest
<1>7. calls[j].at = "sent"
  <2>1. calls[j].kind = "media" => calls[j].at = "sent"
    BY <1>4, <1>5, StoryCallIs
  <2> QED
    BY <1>3, <2>1
<1>8. q \in PlayerT /\ q.story = p.story
  <2>1. p.story \in Nat
    BY <1>6 DEF PlayerT
  <2>2. PICK file : file = 0 /\ file \in Nat
    OBVIOUS
  <2>3. q = [p EXCEPT !.media = file, !.playing = TRUE, !.clock = p.story] \/ q = [p EXCEPT !.media = file]
    BY <1>3, <2>2 DEF Arrived
  <2> QED
    BY <1>6, <2>1, <2>2, <2>3 DEF PlayerT
<1>9. e \in DueT
  <2>1. PICK play \in BOOLEAN : play = (d.play \/ IsVideo(p))
    OBVIOUS
  <2>2. e = [d EXCEPT !.play = play]
    BY <1>3, <2>1
  <2> QED
    BY <1>6, <2>2 DEF DueT
<1>10. new \in Seq(StoryCallT) /\ Rid(new, calls, j)
  BY <1>3, <1>4, <1>6, RemovedCall
<1>11. StoryRest(n, s, q, e, new)
  BY <1>4, <1>5, <1>6, <1>8, <1>9, <1>10, StoryRestRid
<1>12. ListCourse(page, n, s, new, met2)
  <2> SUFFICES ASSUME s.made = TRUE, "list" \notin met2
               PROVE  OnCourse(new, {"list"}, "list", ListR(n), ListDue, s.known, {n})
    BY <1>5 DEF ListCourse, Course
  <2>1. OnCourse(calls, {"list"}, "list", ListR(n), ListDue, s.known, {n})
    BY <1>3, <1>5 DEF ListCourse, Course
  <2>2. <<calls[j].kind, calls[j].at, calls[j].deaf>> \notin ListDue
    BY <1>3 DEF ListDue
  <2> QED
    BY <1>4, <1>6, <1>7, <1>10, <2>1, <2>2, RidOnCourse
<1>13. page = "viewer"
  <2>1. j \in OfKind(calls, "media")
    BY <1>3, <1>4 DEF OfKind
  <2> QED
    BY <1>5, <2>1 DEF ViewerGood
<1>14. ViewerShows(q, new, met2) /\ ViewerCalm(q, e, new, met2) /\ q.story # 0
  BY <1>3, <1>5, <1>8, <1>13 DEF ViewerGood, ViewerShows, ViewerCalm
<1>15. StoryGood(page, n, s, q, e, new, met2)
  BY <1>11, <1>12, <1>13, <1>14 DEF StoryGood, ViewerGood
<1> QED
  BY <1>2, <1>3, <1>15 DEF StoryInv

\* The list is lost, and the page goes without it.
LEMMA StoryCallLost ==
  ASSUME StoryInv, NEW j \in 1..Len(storyCalls), ListFailed(j) \/ UploadFailed(j)
  PROVE  StoryInv'
<1>1. PICK page, n, s, p, d, calls, met :
        /\ page = route.page /\ n = stored /\ s = stories /\ p = player /\ d = due
        /\ calls = storyCalls /\ met = storyMet
  OBVIOUS
<1>2. PICK new, t, met2 : new = storyCalls' /\ t = stories' /\ met2 = storyMet'
  OBVIOUS
<1>3. /\ calls[j].kind # "media" /\ new = RemoveAt(calls, j) /\ route'.page = page
      /\ stored' = n /\ player' = p /\ due' = d /\ met2 = met \union {"list"}
      /\ t = s \/ t = [s EXCEPT !.uploading = FALSE]
  <2>1. CASE ListFailed(j)
    BY <1>1, <1>2, <2>1 DEF ListFailed, Failing
  <2>2. CASE UploadFailed(j)
    BY <1>1, <1>2, <2>2 DEF UploadFailed, Failing
  <2> QED
    BY <2>1, <2>2
<1>4. StoryGood(page, n, s, p, d, calls, met) /\ j \in 1..Len(calls)
  BY <1>1 DEF StoryInv
<1>5. StoryRest(n, s, p, d, calls) /\ ListCourse(page, n, s, calls, met)
  BY <1>4 DEF StoryGood
<1>6. calls \in Seq(StoryCallT) /\ s \in StoriesT /\ d \in DueT /\ n \in Nat
  BY <1>5 DEF StoryRest
<1>7. t \in StoriesT /\ t.made = s.made
  BY <1>3, <1>6 DEF StoriesT
<1>8. new \in Seq(StoryCallT) /\ Rid(new, calls, j)
  BY <1>3, <1>4, <1>6, RemovedCall
<1>9. ListCourse(page, n, t, new, met2) /\ met \subseteq met2
  BY <1>3, <1>5, <1>7 DEF ListCourse, Course
<1>10. StoryGood(page, n, t, p, d, new, met2)
  BY <1>3, <1>4, <1>6, <1>7, <1>8, <1>9, StoryCallGone
<1> QED
  BY <1>2, <1>3, <1>10 DEF StoryInv

-----------------------------------------------------------------------------
LEMMA StoryNextGood == StoryInv /\ StoryNext => StoryInv'
<1> SUFFICES ASSUME StoryInv, StoryNext PROVE StoryInv'
  OBVIOUS
<1>1. ASSUME NEW j \in 1..Len(storyCalls),
             \/ ServeUpload(j) \/ ServeList(j) \/ Uploaded(j) \/ ListLoaded(j) \/ MediaLoaded(j)
             \/ MediaFailed(j) \/ ListFailed(j) \/ UploadFailed(j)
      PROVE  StoryInv'
  BY <1>1, ServeUploadGood, ServeListGood, UploadedGood, ListLoadedGood, MediaLoadedGood, MediaFailedGood, StoryCallLost
<1> QED
  BY <1>1, NextStoryGood, PreviousStoryGood, TogglePlayPauseGood, ImageTimerEndsGood, OnImageTimerEndGood,
     PlayVideoGood, StoryUploadSent, UploadGoesHomeGood DEF StoryNext

\* What happens elsewhere leaves the stories good.
LEMMA StoryStays ==
  ASSUME StoryInv, route'.page = route.page \/ (route.page # "viewer" /\ route'.page # "viewer"),
         UNCHANGED storyVars
  PROVE  StoryInv'
<1>1. PICK page, there, n, s, p, d, calls, met :
        /\ page = route.page /\ there = route'.page /\ n = stored /\ s = stories /\ p = player /\ d = due
        /\ calls = storyCalls /\ met = storyMet
  OBVIOUS
<1>2. StoryGood(page, n, s, p, d, calls, met)
  BY <1>1 DEF StoryInv
<1>3. there = page \/ (page # "viewer" /\ there # "viewer")
  BY <1>1
<1>4. StoryGood(there, n, s, p, d, calls, met)
  BY <1>2, <1>3 DEF StoryGood, ListCourse, ViewerGood
<1>5. /\ stored' = n /\ stories' = s /\ player' = p /\ due' = d /\ storyCalls' = calls /\ storyMet' = met
  BY <1>1 DEF storyVars
<1> QED
  BY <1>1, <1>4, <1>5 DEF StoryInv

LEMMA StoryInitGood == PagesInit => StoryInv
<1> SUFFICES ASSUME PagesInit PROVE StoryInv
  OBVIOUS
<1>1. PICK page, n, s, p, d, calls, met :
        /\ page = route.page /\ n = stored /\ s = stories /\ p = player /\ d = due
        /\ calls = storyCalls /\ met = storyMet
  OBVIOUS
<1>2. /\ page # "viewer" /\ n = FirstStory /\ s = [made |-> FALSE, known |-> 0, uploading |-> FALSE]
      /\ p = NoPlayer /\ calls = <<>> /\ d = NoneDue
  BY <1>1 DEF PagesInit, BrowserInit, StoryInit, At
<1>3. n \in Nat /\ s \in StoriesT /\ p \in PlayerT /\ d \in DueT
  <2>1. FirstStory \in Nat
    BY StoryPageAssumption
  <2>2. Stays \in PullT
    BY DEF Stays, At, PullT
  <2> QED
    BY <1>2, <2>1, <2>2 DEF StoriesT, PlayerT, DueT, NoPlayer, NoneDue
<1>4. calls \in Seq(StoryCallT) /\ Allowed(calls, StoryOK) /\ OfKind(calls, "media") = {}
  BY <1>2, NoCalls
<1>5. StoryRest(n, s, p, d, calls)
  BY <1>3, <1>4 DEF StoryRest
<1>6. ListCourse(page, n, s, calls, met)
  BY <1>2 DEF ListCourse
<1>7. ViewerGood(page, p, d, calls, met)
  BY <1>2, <1>4 DEF ViewerGood, NoPlayer, NoneDue
<1> QED
  BY <1>1, <1>5, <1>6, <1>7 DEF StoryInv, StoryGood

LEMMA StoryInvShows == StoryInv => StoriesShown
<1> SUFFICES ASSUME StoryInv PROVE StoriesShown
  OBVIOUS
<1>1. PICK page, n, s, p, d, calls, met :
        /\ page = route.page /\ n = stored /\ s = stories /\ p = player /\ d = due
        /\ calls = storyCalls /\ met = storyMet
  OBVIOUS
<1>2. StoryRest(n, s, p, d, calls) /\ ListCourse(page, n, s, calls, met) /\ ViewerGood(page, p, d, calls, met)
  BY <1>1 DEF StoryInv, StoryGood
<1>3. s \in StoriesT /\ d \in DueT
  BY <1>2 DEF StoryRest
<1>4. s.made \in BOOLEAN /\ d.next \in BOOLEAN
  BY <1>3 DEF StoriesT, DueT
<1>5. page = "viewer" /\ "media" \notin met /\ OfKind(calls, "media") = {} => p.media = p.story
  BY <1>2 DEF ViewerGood, ViewerShows
<1>6. s.made = TRUE /\ calls = <<>> /\ "list" \notin met => s.known = n
  <2> SUFFICES ASSUME s.made = TRUE, calls = <<>>, "list" \notin met PROVE s.known = n
    OBVIOUS
  <2>1. OnCourse(calls, {"list"}, "list", ListR(n), ListDue, s.known, {n})
    BY <1>2 DEF ListCourse, Course
  <2>2. ~ Pending(calls, ListDue) /\ Told(calls, {"list"}) = {}
    BY NoCalls
  <2> QED
    BY <2>1, <2>2 DEF OnCourse, OnTrack
<1>7. d.next = TRUE /\ "hurried" \notin met => p.media = p.story
  BY <1>2 DEF ViewerGood, ViewerCalm
<1>8. (\E j \in 1..Len(calls) : calls[j].kind = "media") <=> OfKind(calls, "media") # {}
  BY DEF OfKind
<1> QED
  BY <1>1, <1>4, <1>5, <1>6, <1>7, <1>8 DEF StoriesShown, Shows

-----------------------------------------------------------------------------
\* From page to page, by a click or a timeout.
LEMMA ArrivesShows ==
  ASSUME StoryInv, NEW place, PlaceGood(place), NEW pending \in DueT, pending.next = TRUE => due.next = TRUE,
         Arrives(place, pending), route' = place
  PROVE  StoryInv'
BY HurriedGood DEF Arrives

LEMMA PulledShows ==
  ASSUME StoryInv, NEW place, PlaceGood(place), NEW pending \in DueT, pending.next = due.next,
         Pulled(place, pending)
  PROVE  StoryInv'
<1>1. CASE route = place
  <2>1. PICK page, n, s, p, d, calls, met :
          /\ page = route.page /\ n = stored /\ s = stories /\ p = player /\ d = due
          /\ calls = storyCalls /\ met = storyMet
    OBVIOUS
  <2>2. /\ stored' = n /\ stories' = s /\ player' = p /\ due' = pending /\ storyCalls' = calls /\ storyMet' = met
        /\ route'.page = page
    BY <1>1, <2>1 DEF Pulled, Unprompted, browserVars
  <2>3. StoryGood(page, n, s, p, d, calls, met)
    BY <2>1 DEF StoryInv
  <2>4. StoryGood(page, n, s, p, pending, calls, met)
    BY <2>1, <2>3 DEF StoryGood, StoryRest, ViewerGood, ViewerCalm
  <2> QED
    BY <2>2, <2>4 DEF StoryInv
<1>2. CASE route # place
  <2>1. route' = place /\ Arrives(place, pending)
    BY <1>2 DEF Pulled, UnpromptedTo, Goes
  <2> QED
    BY <2>1, ArrivesShows
<1> QED
  BY <1>1, <1>2

\* A place a click or a timeout takes the tab to.
LEMMA TabPlaces ==
  ASSUME StoryInv
  PROVE  /\ \A place \in Places : PlaceGood(place)
         /\ PlaceGood(Landing(due.pull)) /\ PlaceGood(At("stories", 0))
         /\ due \in DueT
<1>1. stories.known \in Nat /\ due \in DueT /\ due.pull \in PullT
  BY DEF StoryInv, StoryGood, StoryRest, StoriesT, DueT
<1>2. PICK known, pull : known = stories.known /\ pull = due.pull
  OBVIOUS
<1>3. pull.story \in Nat /\ (pull.page = "viewer" => pull.story # 0)
  BY <1>1, <1>2 DEF PullT
<1>4. ASSUME NEW place \in Places PROVE PlaceGood(place)
  <2>1. CASE \E page \in {"room", "home", "search", "stories", "upload"} : place = At(page, 0)
    BY <2>1 DEF PlaceGood, At
  <2>2. CASE known > 0 /\ place = At("viewer", known)
    BY <1>1, <1>2, <2>2 DEF PlaceGood, At
  <2> QED
    BY <1>2, <1>4, <2>1, <2>2 DEF Places
<1>5. PlaceGood(Landing(pull)) /\ PlaceGood(At("stories", 0))
  BY <1>3 DEF PlaceGood, Landing, At
<1> QED
  BY <1>1, <1>2, <1>4, <1>5

\* Every step of the tab keeps the stories good.
LEMMA TabKeepsStories ==
  ASSUME RoomInv, StoryInv, PagesNext
  PROVE  StoryInv'
<1>1. CASE RoomNext /\ UNCHANGED <<peopleVars, storyVars>>
  <2>1. route' = route \/ (route.page = "room" /\ route'.page = "forum")
    BY <1>1, RoomGoes
  <2>2. route'.page = route.page \/ (route.page # "viewer" /\ route'.page # "viewer")
    BY <2>1
  <2> QED
    BY <1>1, <2>2, StoryStays
<1>2. CASE PeopleNext /\ UNCHANGED <<roomVars, storyVars>>
  <2>1. route'.page = route.page
    BY <1>2, PeopleStay
  <2> QED
    BY <1>2, <2>1, StoryStays
<1>3. CASE StoryNext /\ UNCHANGED <<roomVars, peopleVars>>
  BY <1>3, StoryNextGood
<1>4. CASE Go
  <2>1. PICK place \in Places : route' = place /\ Arrives(place, due)
    BY <1>4 DEF Go, ClickTo, Goes
  <2>2. PlaceGood(place) /\ due \in DueT
    BY TabPlaces
  <2> QED
    BY <2>1, <2>2, ArrivesShows
<1>5. CASE PulledToNextStory
  <2>1. PICK place, pending : place = Landing(due.pull) /\ pending = [due EXCEPT !.pull = Stays]
    OBVIOUS
  <2>2. Pulled(place, pending)
    BY <1>5, <2>1 DEF PulledToNextStory
  <2>3. due \in DueT /\ PlaceGood(place)
    BY <2>1, TabPlaces
  <2>4. Stays \in PullT
    BY DEF Stays, At, PullT
  <2>5. pending \in DueT /\ pending.next = due.next
    BY <2>1, <2>3, <2>4 DEF DueT
  <2> QED
    BY <2>2, <2>3, <2>5, PulledShows
<1>6. CASE PulledToStories
  <2>1. PICK place, pending : place = At("stories", 0) /\ pending = [due EXCEPT !.home = FALSE]
    OBVIOUS
  <2>2. Pulled(place, pending)
    BY <1>6, <2>1 DEF PulledToStories
  <2>3. due \in DueT /\ PlaceGood(place)
    BY <2>1, TabPlaces
  <2>4. pending \in DueT /\ pending.next = due.next
    BY <2>1, <2>3 DEF DueT
  <2> QED
    BY <2>2, <2>3, <2>4, PulledShows
<1> QED
  BY <1>1, <1>2, <1>3, <1>4, <1>5, <1>6 DEF PagesNext

\* At rest the viewer shows the file of its story and the service its list,
\* and no picture ends before it is shown (StoryPage).
THEOREM PagesShowStories == PagesSpec => []StoriesShown
<1>1. PagesInit => RoomInv /\ EndsInViewer /\ StoryInv
  BY RoomInitGood, StoryInitGood DEF PagesInit, StoryInit, NoneDue, EndsInViewer
<1>2. (RoomInv /\ EndsInViewer /\ StoryInv) /\ [PagesNext]_pagesVars => (RoomInv /\ EndsInViewer /\ StoryInv)'
  <2> SUFFICES ASSUME RoomInv, EndsInViewer, StoryInv, [PagesNext]_pagesVars
               PROVE  RoomInv' /\ EndsInViewer' /\ StoryInv'
    OBVIOUS
  <2>1. CASE PagesNext
    BY <2>1, TabKeepsRoom, TabKeepsStories
  <2>2. CASE UNCHANGED pagesVars
    <3>1. route' = route /\ UNCHANGED roomVars /\ UNCHANGED storyVars
      BY <2>2 DEF pagesVars, browserVars
    <3>2. RoomInv'
      BY <3>1, RoomStays
    <3>3. EndsInViewer'
      BY <3>1 DEF EndsInViewer, storyVars
    <3>4. StoryInv'
      BY <3>1, StoryStays
    <3> QED
      BY <3>2, <3>3, <3>4
  <2> QED
    BY <2>1, <2>2
<1>3. StoryInv => StoriesShown
  BY StoryInvShows
<1> QED
  BY <1>1, <1>2, <1>3, PTL DEF PagesSpec
===============================================================================
