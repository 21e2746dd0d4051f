----------------------------- MODULE ChatProofs -----------------------------
(***************************************************************************)
(* Proofs about Chat, for any number of users, conversations, messages,    *)
(* requests under way, lost connections and failed queries: two users have *)
(* one conversation, a message goes to whom its sender sees, and a page    *)
(* that has heard all there is shows its conversation, but for the         *)
(* histories that Chat names.                                              *)
(*                                                                         *)
(* The second needs that a page waits for one answer, and for the one it   *)
(* says.  The third needs to know where a message of a page's conversation *)
(* is: stored and about to be published, on its way to the page, or shown  *)
(* by it, and in one of these places only; and that the answer with the    *)
(* messages is not older than the last of them, unless the page was shaken.*)
(***************************************************************************)
EXTENDS Chat, SequenceTheorems, FiniteSetTheorems, TLAPS
-----------------------------------------------------------------------------
\* The requests the server may have in hand.
Places == 1..MaxHand

\* A request under way is at one of the steps of its kind.
JobOK(w) ==
  \/ w = NoWork
  \/ /\ w \in Work
     /\ \/ w.kind = "open" /\ w.at \in {"look", "create", "answer"} /\ w.user \in People /\ w.to \in Users \ {w.user}
        \/ w.kind = "history" /\ w.at \in {"select", "answer"} /\ w.user \in People
        \/ /\ w.kind = "send" /\ w.at \in {"sent", "look", "create", "insert", "count"}
           /\ w.user \in People /\ w.to \in Users \ {w.user}
        \/ w.kind = "reply" /\ w.at \in {"insert", "count"} /\ w.user = Grok /\ w.to \in People
     /\ w.at = "count" => Len(w.got) = 1

\* All of them are.
Steps ==
  /\ hand = [j \in Places |-> hand[j]]
  /\ \A j \in Places : JobOK(hand[j])

\* Every conversation is between two users.
OfTwo == \A c \in DOMAIN convs : \E x, y \in Users : x # y /\ convs[c] = {x, y}

\* Ids of conversations are those of conversations.
Placed ==
  /\ \A j \in Places :
       /\ hand[j].conv \in 0..Len(convs)
       /\ hand[j].at \in {"insert", "count", "select", "answer"} => hand[j].conv # 0
  /\ \A u \in People : page[u].conv \in 0..Len(convs) /\ page[u].sub \in 0..Len(convs) /\ page[u].with # u

\* Whom the request of j is about.
Pair(j) == {hand[j].user, hand[j].to}

\* Two requests that create the same conversation at once are known.
OneCreate ==
  \A i, j \in Places :
    i # j /\ hand[i].at = "create" /\ hand[j].at = "create" /\ Pair(i) = Pair(j) => Pair(j) \in twice

\* A conversation that is about to be created does not exist.
Uncreated ==
  \A j \in Places : hand[j].at = "create" /\ Pair(j) \notin twice => \A c \in DOMAIN convs : convs[c] # Pair(j)

\* What makes two users have one conversation.
OneConversation == OneCreate /\ Uncreated /\ CalmOneConversation

\* j is what the page of u waits for.
Loads(j, u) == hand[j].kind \in {"open", "history"} /\ hand[j].user = u /\ hand[j].live

\* A page waits for one answer at most.
OneLoader == \A u \in People, i, j \in Places : Loads(i, u) /\ Loads(j, u) => i = j

\* The page waits for what it says.
Waits ==
  \A j \in Places :
    /\ hand[j].kind = "open" /\ hand[j].live =>
         LET p == page[hand[j].user] IN p.load = "open" /\ p.sub = 0 /\ p.with = hand[j].to
    /\ hand[j].kind = "history" /\ hand[j].live =>
         LET p == page[hand[j].user] IN p.load = "history" /\ p.sub = hand[j].conv

\* A page hears the conversation with the user it shows, and sends with its id.
Turned ==
  \A u \in People : page[u].sub # 0 => page[u].conv = page[u].sub /\ convs[page[u].sub] = {u, page[u].with}

\* A request that has a conversation has that of its users.
Meant ==
  \A j \in Places :
    /\ hand[j].kind = "open" /\ hand[j].at = "answer" => convs[hand[j].conv] = Pair(j)
    /\ hand[j].kind \in {"send", "reply"} /\ hand[j].at \in {"sent", "insert", "count"} =>
         hand[j].hasty \/ hand[j].conv = 0 \/ convs[hand[j].conv] = Pair(j)

\* What makes a message go to whom its sender sees.
Addressed == OneLoader /\ Waits /\ Turned /\ Meant /\ CalmAddressed

\* m is stored and not yet published.
Counting(m) == \E j \in Places : hand[j].at = "count" /\ hand[j].got[1] = m

\* m is on its way to u.
Coming(u, m) == \E i \in DOMAIN net[u] : net[u][i] = m

\* u is shown m.
Seen(u, m) == \E i \in DOMAIN page[u].view : page[u].view[i] = m

\* A message about to be published is one of the conversation it is counted for,
\* and is about to be published once.
Counted ==
  /\ \A j \in Places : hand[j].at = "count" =>
       hand[j].got[1] \in DOMAIN msgs /\ msgs[hand[j].got[1]].conv = hand[j].conv
  /\ \A i, j \in Places : hand[i].at = "count" /\ hand[j].at = "count" /\ hand[i].got[1] = hand[j].got[1] => i = j

\* A message is on its way to a page once, and only after it was published.
Once ==
  \A u \in People :
    /\ \A i, k \in DOMAIN net[u] : net[u][i] = net[u][k] => i = k
    /\ \A m \in DOMAIN msgs : Coming(u, m) => ~Counting(m)

\* A page that is loading, and not shaken, has nothing of its conversation under way.
StillFor(u) ==
  page[u].load = "history" /\ ~page[u].shaken =>
    /\ page[u].sub # 0
    /\ \A m \in MessagesOf(page[u].sub) : ~Coming(u, m) /\ ~Counting(m)

\* The answer it waits for is right when it comes.
Answered ==
  \A j \in Places :
    hand[j].kind = "history" /\ hand[j].at = "answer" /\ hand[j].live /\ ~page[hand[j].user].shaken =>
      hand[j].got = InOrder(MessagesOf(hand[j].conv))

\* The page shows a conversation, and neither loads nor was shaken.
Quiet(u) == page[u].sub # 0 /\ page[u].load = "none" /\ ~page[u].shaken

\* What a page shows is of its conversation, once, and not to come again.
OnceFor(u) ==
  Quiet(u) =>
    /\ \A i, k \in DOMAIN page[u].view : page[u].view[i] = page[u].view[k] => i = k
    /\ \A m \in Nat : Seen(u, m) => m \in MessagesOf(page[u].sub) /\ ~Coming(u, m) /\ ~Counting(m)

\* All there is is shown or to come.
AllFor(u) ==
  Quiet(u) /\ page[u].sub \notin mute =>
    \A m \in MessagesOf(page[u].sub) : Seen(u, m) \/ Coming(u, m) \/ Counting(m)

\* What makes the page of u show its conversation.
RightFor(u) == StillFor(u) /\ OnceFor(u) /\ AllFor(u)

\* So it is for everybody.
Right == \A u \in People : RightFor(u)

\* The inductive invariant.
Inv == TypeOK /\ Steps /\ OfTwo /\ Placed /\ OneConversation /\ Addressed
       /\ Counted /\ Once /\ Answered /\ Right
-----------------------------------------------------------------------------
\* A finite set of numbers can be listed in order.
LEMMA Ordered ==
  ASSUME NEW S \in SUBSET Nat, IsFiniteSet(S)
  PROVE  \E q \in [1..Cardinality(S) -> S] : \A i, k \in 1..Cardinality(S) : i < k => q[i] < q[k]
<1> DEFINE n == Cardinality(S)
           Below(m) == {x \in S : x < m}
           r == [m \in S |-> Cardinality(Below(m)) + 1]
           q == [i \in 1..n |-> CHOOSE m \in S : r[m] = i]
<1>1. n \in Nat
  BY FS_CardinalityType
<1>2. ASSUME NEW m \in S
      PROVE  /\ IsFiniteSet(Below(m)) /\ Cardinality(Below(m)) \in Nat
             /\ IsFiniteSet(Below(m) \union {m})
             /\ Cardinality(Below(m) \union {m}) = Cardinality(Below(m)) + 1
             /\ Below(m) \union {m} \in SUBSET S
  <2>1. Below(m) \in SUBSET S /\ m \notin Below(m)
    OBVIOUS
  <2>2. IsFiniteSet(Below(m))
    BY <2>1, FS_Subset
  <2> HIDE DEF Below
  <2> QED
    BY <2>1, <2>2, FS_CardinalityType, FS_AddElement
<1>n. \A m \in S : m \in Nat
  OBVIOUS
<1>b. \A l, m \in S : l < m => \A x \in Below(l) \union {l} : x \in Below(m)
  BY <1>n
<1>r. r = [m \in S |-> Cardinality(Below(m)) + 1]
  OBVIOUS
<1>q. \A i \in 1..n : q[i] = CHOOSE m \in S : r[m] = i
  OBVIOUS
<1>9. (\A i \in 1..n : q[i] \in S) => q \in [1..n -> S]
  OBVIOUS
<1> HIDE DEF n, Below, r, q
<1>3. ASSUME NEW m \in S PROVE r[m] \in 1..n
  <2>1. Cardinality(Below(m) \union {m}) <= n
    BY <1>2, FS_Subset DEF n
  <2> QED
    BY <1>1, <1>2, <1>r, <2>1
<1>4. ASSUME NEW l \in S, NEW m \in S, l < m PROVE r[l] < r[m]
  <2>1. Below(l) \union {l} \in SUBSET Below(m)
    BY <1>4, <1>b
  <2>2. Cardinality(Below(l) \union {l}) <= Cardinality(Below(m))
    BY <1>2, <2>1, FS_Subset
  <2>3. r[l] = Cardinality(Below(l)) + 1 /\ r[m] = Cardinality(Below(m)) + 1
    BY <1>r
  <2>4. /\ Cardinality(Below(l)) \in Nat /\ Cardinality(Below(m)) \in Nat
        /\ Cardinality(Below(l) \union {l}) = Cardinality(Below(l)) + 1
    BY <1>2
  <2> QED
    BY <2>2, <2>3, <2>4
<1>5. r \in Injection(S, 1..n)
  <2>1. r \in [S -> 1..n]
    BY <1>3, <1>r
  <2>2. \A l, m \in S : r[l] = r[m] => l = m
    BY <1>n, <1>3, <1>4, <1>1
  <2> QED
    BY <2>1, <2>2 DEF Injection, IsInjective
<1>6. r \in Surjection(S, 1..n)
  BY <1>1, <1>5, FS_Injection, FS_Interval DEF n
<1>7. \A i \in 1..n : \E m \in S : r[m] = i
  BY <1>6 DEF Surjection
<1>8. \A i \in 1..n : q[i] \in S /\ r[q[i]] = i
  BY <1>7, <1>q
<1>10. ASSUME NEW i \in 1..n, NEW k \in 1..n, i < k PROVE q[i] < q[k]
  <2>1. q[i] \in S /\ q[k] \in S /\ r[q[i]] = i /\ r[q[k]] = k /\ i \in Nat /\ k \in Nat
    BY <1>8, <1>1
  <2>2. ~ q[k] < q[i]
    <3> SUFFICES ASSUME q[k] < q[i] PROVE FALSE
      OBVIOUS
    <3>1. r[q[k]] < r[q[i]]
      BY <1>4, <2>1
    <3> QED
      BY <1>10, <2>1, <3>1
  <2>3. q[i] # q[k]
    BY <1>10, <2>1
  <2>4. q[i] \in Nat /\ q[k] \in Nat
    BY <1>n, <2>1
  <2> QED
    BY <2>2, <2>3, <2>4
<1> QED
  BY <1>8, <1>9, <1>10 DEF n

\* InOrder lists its set, each element once.
LEMMA InOrderIs ==
  ASSUME NEW S \in SUBSET Nat, IsFiniteSet(S)
  PROVE  /\ InOrder(S) \in Seq(S)
         /\ \A i, k \in DOMAIN InOrder(S) : InOrder(S)[i] = InOrder(S)[k] => i = k
         /\ \A m \in S : \E i \in DOMAIN InOrder(S) : InOrder(S)[i] = m
<1> DEFINE n == Cardinality(S)
           q == InOrder(S)
<1>1. n \in Nat
  BY FS_CardinalityType
<1>2. q \in [1..n -> S] /\ \A i, k \in 1..n : i < k => q[i] < q[k]
  BY Ordered DEF InOrder
<1> HIDE DEF q
<1> HIDE DEF n
<1>3. \A i, k \in 1..n : q[i] = q[k] => i = k
  <2> TAKE i, k \in 1..n
  <2>1. q[i] \in Nat /\ q[k] \in Nat
    BY <1>2
  <2> QED
    BY <1>1, <1>2, <2>1
<1>4. q \in Injection(1..n, S)
  BY <1>2, <1>3 DEF Injection, IsInjective
<1>5. q \in Surjection(1..n, S)
  BY <1>1, <1>4, FS_Injection, FS_Interval DEF n
<1>6. q \in Seq(S) /\ DOMAIN q = 1..n
  BY <1>1, <1>2, SeqDef
<1>7. \A m \in S : \E i \in 1..n : q[i] = m
  BY <1>5 DEF Surjection
<1> QED
  BY <1>3, <1>6, <1>7 DEF q

\* A sequence that lists each member of a set once.
LEMMA ListsOnce ==
  ASSUME NEW S, NEW T, NEW q \in Seq(T),
         \A i, k \in DOMAIN q : q[i] = q[k] => i = k,
         \A i \in DOMAIN q : q[i] \in S,
         \A m \in S : \E i \in DOMAIN q : q[i] = m
  PROVE  Len(q) = Cardinality(S) /\ ToSet(q) = S
<1>1. Len(q) \in Nat /\ DOMAIN q = 1..Len(q) /\ q \in [1..Len(q) -> S]
  BY LenProperties
<1>2. q \in Bijection(1..Len(q), S)
  BY <1>1 DEF Bijection, Injection, Surjection, IsInjective
<1>3. Cardinality(S) = Len(q)
  BY <1>1, <1>2, FS_CountingElements DEF ExistsBijection
<1> QED
  BY <1>1, <1>3 DEF ToSet
USE ChatAssumption DEF Places

\* The fields of a free place.
LEMMA NoWorkFields ==
  /\ NoWork.kind = "none" /\ NoWork.user = Nobody /\ NoWork.to = Nobody /\ NoWork.conv = 0
  /\ NoWork.at = "idle" /\ NoWork.got = <<>> /\ NoWork.live = FALSE /\ NoWork.hasty = FALSE
BY DEF NoWork

\* What JobOK says, field by field.
LEMMA JobIs ==
  ASSUME NEW w, JobOK(w)
  PROVE  /\ w.at \in {"idle", "sent", "look", "create", "select", "insert", "count", "answer"}
         /\ w.kind \in {"none", "open", "history", "send", "reply"}
         /\ w.kind = "none" <=> w.at = "idle"
         /\ w.kind = "none" <=> w = NoWork
         /\ w.kind = "none" => w.conv = 0 /\ ~w.live /\ w.user = Nobody
         /\ w.kind # "none" => w \in Work
         /\ w.kind = "open" => w.at \in {"look", "create", "answer"} /\ w.user \in People /\ w.to \in Users \ {w.user}
         /\ w.kind = "history" => w.at \in {"select", "answer"} /\ w.user \in People
         /\ w.kind = "send" => /\ w.at \in {"sent", "look", "create", "insert", "count"}
                               /\ w.user \in People /\ w.to \in Users \ {w.user}
         /\ w.kind = "reply" => w.at \in {"insert", "count"} /\ w.user = Grok /\ w.to \in People
         /\ w.live \in BOOLEAN /\ w.hasty \in BOOLEAN /\ w.conv \in Nat /\ w.got \in Seq(Nat)
         /\ w.at = "count" => Len(w.got) = 1 /\ w.got[1] \in Nat
<1>0. <<>> \in Seq(Nat)
  OBVIOUS
<1>1. CASE w = NoWork
  <2>1. /\ w.kind = "none" /\ w.user = Nobody /\ w.conv = 0 /\ w.at = "idle" /\ w.got = <<>>
        /\ w.live = FALSE /\ w.hasty = FALSE
    BY <1>1, NoWorkFields
  <2>2. w.live \in BOOLEAN /\ w.hasty \in BOOLEAN /\ ~w.live
    BY <2>1
  <2>3. w.got \in Seq(Nat)
    BY <2>1, <1>0
  <2> QED
    BY <1>1, <2>1, <2>2, <2>3
<1>2. CASE w # NoWork
  <2>1. w \in Work
    BY <1>2 DEF JobOK
  <2>2. /\ w.user \in Users /\ w.live \in BOOLEAN /\ w.hasty \in BOOLEAN /\ w.conv \in Nat /\ w.got \in Seq(Nat)
        /\ w.kind \in {"open", "history", "send", "reply"}
    BY <2>1 DEF Work
  <2>3. w.at = "count" => Len(w.got) = 1 /\ w.got[1] \in Nat
    <3>1. w.at = "count" => Len(w.got) = 1
      BY <1>2 DEF JobOK
    <3> QED
      BY <2>2, <3>1, ElementOfSeq
  <2> QED
    BY <1>2, <2>1, <2>2, <2>3 DEF JobOK
<1> QED
  BY <1>1, <1>2

\* The same of every place.
LEMMA JobsAre ==
  ASSUME Steps
  PROVE  \A j \in Places :
           /\ JobOK(hand[j])
           /\ hand[j].at \in {"idle", "sent", "look", "create", "select", "insert", "count", "answer"}
           /\ hand[j].kind \in {"none", "open", "history", "send", "reply"}
           /\ hand[j].kind = "none" <=> hand[j].at = "idle"
           /\ hand[j].kind = "none" <=> hand[j] = NoWork
           /\ hand[j].kind = "none" => hand[j].conv = 0 /\ ~hand[j].live /\ hand[j].user = Nobody
           /\ hand[j].kind # "none" => hand[j] \in Work
           /\ hand[j].kind = "open" => /\ hand[j].at \in {"look", "create", "answer"}
                                       /\ hand[j].user \in People /\ hand[j].to \in Users \ {hand[j].user}
           /\ hand[j].kind = "history" => hand[j].at \in {"select", "answer"} /\ hand[j].user \in People
           /\ hand[j].kind = "send" => /\ hand[j].at \in {"sent", "look", "create", "insert", "count"}
                                       /\ hand[j].user \in People /\ hand[j].to \in Users \ {hand[j].user}
           /\ hand[j].kind = "reply" => hand[j].at \in {"insert", "count"} /\ hand[j].user = Grok /\ hand[j].to \in People
           /\ hand[j].live \in BOOLEAN /\ hand[j].hasty \in BOOLEAN /\ hand[j].conv \in Nat /\ hand[j].got \in Seq(Nat)
           /\ hand[j].at = "count" => Len(hand[j].got) = 1 /\ hand[j].got[1] \in Nat
<1> TAKE j \in Places
<1>1. JobOK(hand[j])
  BY DEF Steps
<1> QED
  BY <1>1, JobIs

\* Nothing but the request of j changes.
Only(j) ==
  /\ hand' = [k \in Places |-> hand'[k]]
  /\ \A k \in Places : k # j => hand'[k] = hand[k]

\* A place takes a request, and no other changes.
LEMMA PutIs ==
  ASSUME Steps, NEW j \in Places, NEW w, hand' = [hand EXCEPT ![j] = w]
  PROVE  Only(j) /\ hand'[j] = w
BY DEF Steps, Only

\* A request ends, and no other changes.
LEMMA EndIs ==
  ASSUME Steps, NEW j \in Places, Done(j)
  PROVE  Only(j) /\ hand'[j] = NoWork /\ JobOK(hand'[j]) /\ hand'[j].at = "idle" /\ hand'[j].kind = "none"
         /\ ~hand'[j].live /\ hand'[j].conv = 0
BY PutIs, NoWorkFields DEF Done, JobOK

\* A step of one request keeps Steps.
LEMMA OnlyKeepsSteps ==
  ASSUME Steps, NEW j \in Places, Only(j), JobOK(hand'[j])
  PROVE  Steps'
BY DEF Steps, Only, JobOK

\* What the page of u waited for is dropped, and nothing else of it changes.
LEMMA UnheardIs ==
  ASSUME Steps, NEW u \in People, NEW h, h = Unheard(u)
  PROVE  /\ h = [k \in Places |-> h[k]]
         /\ \A k \in Places :
              /\ JobOK(h[k])
              /\ h[k].kind = hand[k].kind /\ h[k].user = hand[k].user /\ h[k].to = hand[k].to
              /\ h[k].conv = hand[k].conv /\ h[k].at = hand[k].at /\ h[k].got = hand[k].got
              /\ h[k].hasty = hand[k].hasty
              /\ h[k].live => hand[k].live
              /\ ~(h[k].kind \in {"open", "history"} /\ h[k].user = u /\ h[k].live)
<1>1. h = [k \in Places |-> h[k]]
  BY DEF Unheard
<1>2. ASSUME NEW k \in Places
      PROVE  /\ JobOK(h[k])
             /\ h[k].kind = hand[k].kind /\ h[k].user = hand[k].user /\ h[k].to = hand[k].to
             /\ h[k].conv = hand[k].conv /\ h[k].at = hand[k].at /\ h[k].got = hand[k].got
             /\ h[k].hasty = hand[k].hasty
             /\ h[k].live => hand[k].live
             /\ ~(h[k].kind \in {"open", "history"} /\ h[k].user = u /\ h[k].live)
  <2>1. CASE hand[k].user = u /\ hand[k].kind \in {"open", "history"}
    <3> DEFINE w == [hand[k] EXCEPT !.live = FALSE]
    <3>1. h[k] = w
      BY <2>1 DEF Unheard
    <3>2. JobOK(hand[k]) /\ hand[k] \in Work /\ hand[k] # NoWork
      BY <2>1, JobsAre, NoWorkFields
    <3>3. /\ w \in Work /\ w.kind = hand[k].kind /\ w.user = hand[k].user /\ w.to = hand[k].to
          /\ w.conv = hand[k].conv /\ w.at = hand[k].at /\ w.got = hand[k].got
          /\ w.hasty = hand[k].hasty /\ w.live = FALSE
      BY <3>2 DEF Work
    <3> HIDE DEF w
    <3>4. JobOK(w)
      BY <3>2, <3>3 DEF JobOK
    <3> QED
      BY <3>1, <3>3, <3>4
  <2>2. CASE ~(hand[k].user = u /\ hand[k].kind \in {"open", "history"})
    <3>1. h[k] = hand[k]
      BY <2>2 DEF Unheard
    <3> QED
      BY <2>2, <3>1, JobsAre
  <2> QED
    BY <2>1, <2>2
<1> QED
  BY <1>1, <1>2

\* The page turns: whatever it waited for is dropped, and j looks for its conversation.
LEMMA Turns ==
  ASSUME Steps, NEW j \in Places, NEW u \in People, NEW v \in Users, LoadConversation(u, v, j)
  PROVE  /\ hand' = [k \in Places |-> hand'[k]]
         /\ JobOK(hand'[j]) /\ hand[j] = NoWork
         /\ hand'[j].kind = "open" /\ hand'[j].user = u /\ hand'[j].to = v /\ hand'[j].at = "look"
         /\ hand'[j].conv = 0 /\ hand'[j].live
         /\ \A k \in Places \ {j} :
              /\ JobOK(hand'[k])
              /\ hand'[k].kind = hand[k].kind /\ hand'[k].user = hand[k].user /\ hand'[k].to = hand[k].to
              /\ hand'[k].conv = hand[k].conv /\ hand'[k].at = hand[k].at /\ hand'[k].got = hand[k].got
              /\ hand'[k].hasty = hand[k].hasty
              /\ hand'[k].live => hand[k].live
              /\ ~(hand'[k].kind \in {"open", "history"} /\ hand'[k].user = u /\ hand'[k].live)
<1>e. <<>> \in Seq(Nat)
  OBVIOUS
<1> DEFINE h == Unheard(u)
           w == [NoWork EXCEPT !.kind = "open", !.user = u, !.to = v, !.at = "look", !.live = TRUE]
<1>1. hand' = [h EXCEPT ![j] = w] /\ hand[j] = NoWork /\ u # v
  BY DEF LoadConversation, Free
<1>2. /\ h = [k \in Places |-> h[k]]
      /\ \A k \in Places :
              /\ JobOK(h[k])
              /\ h[k].kind = hand[k].kind /\ h[k].user = hand[k].user /\ h[k].to = hand[k].to
              /\ h[k].conv = hand[k].conv /\ h[k].at = hand[k].at /\ h[k].got = hand[k].got
              /\ h[k].hasty = hand[k].hasty
              /\ h[k].live => hand[k].live
              /\ ~(h[k].kind \in {"open", "history"} /\ h[k].user = u /\ h[k].live)
  BY UnheardIs
<1>3. /\ w.kind = "open" /\ w.user = u /\ w.to = v /\ w.at = "look" /\ w.conv = 0 /\ w.live
      /\ w \in Work
  BY <1>e DEF NoWork, Work, Users
<1> HIDE DEF h, w
<1>4. JobOK(w)
  BY <1>1, <1>3 DEF JobOK
<1>5. hand'[j] = w /\ (\A k \in Places : k # j => hand'[k] = h[k]) /\ hand' = [k \in Places |-> hand'[k]]
  BY <1>1, <1>2
<1> QED
  BY <1>1, <1>2, <1>3, <1>4, <1>5

\* The conversation is known: the messages are asked for, or nobody waits.
LEMMA OpensIt ==
  ASSUME Steps, NEW j \in Places, Opened(j)
  PROVE  /\ Only(j) /\ JobOK(hand'[j]) /\ hand[j].kind = "open" /\ hand[j].at = "answer"
         /\ hand[j].live => /\ hand'[j].kind = "history" /\ hand'[j].at = "select" /\ hand'[j].live
                            /\ hand'[j].user = hand[j].user /\ hand'[j].conv = hand[j].conv
         /\ ~hand[j].live => hand'[j] = NoWork
<1>1. CASE hand[j].live
  <2> DEFINE w == [hand[j] EXCEPT !.kind = "history", !.at = "select"]
  <2>1. hand' = [hand EXCEPT ![j] = w]
    BY <1>1 DEF Opened
  <2>2. hand[j] \in Work /\ hand[j].user \in People /\ hand[j].kind = "open" /\ hand[j].at = "answer"
    BY JobsAre DEF Opened
  <2>3. /\ w \in Work /\ w.kind = "history" /\ w.at = "select" /\ w.user = hand[j].user
        /\ w.conv = hand[j].conv /\ w.live = hand[j].live
    BY <2>2 DEF Work
  <2> HIDE DEF w
  <2>4. JobOK(w)
    BY <2>2, <2>3 DEF JobOK
  <2> QED
    BY <1>1, <2>1, <2>2, <2>3, <2>4, PutIs
<1>2. CASE ~hand[j].live
  BY <1>2, EndIs DEF Opened
<1> QED
  BY <1>1, <1>2

\* j sends a message.
LEMMA SendsIt ==
  ASSUME Steps, Placed, NEW j \in Places, NEW u \in People, page[u] \in Pages, Send(u, j)
  PROVE  /\ Only(j) /\ JobOK(hand'[j]) /\ hand[j] = NoWork
         /\ hand'[j].kind = "send" /\ hand'[j].at = "sent" /\ hand'[j].user = u /\ hand'[j].to = page[u].with
         /\ hand'[j].conv = page[u].conv /\ hand'[j].hasty = (page[u].sub = 0 /\ page[u].conv # 0)
<1>e. <<>> \in Seq(Nat)
  OBVIOUS
<1> DEFINE w == [NoWork EXCEPT !.kind = "send", !.user = u, !.to = page[u].with, !.conv = page[u].conv,
                               !.at = "sent",
                               !.hasty = page[u].sub = 0 /\ page[u].conv # 0]
<1>1. hand' = [hand EXCEPT ![j] = w] /\ hand[j] = NoWork /\ page[u].with # Nobody
  BY DEF Send, Free
<1>2. page[u].with \in Users \ {u} /\ page[u].conv \in Nat
  BY <1>1 DEF Placed, Pages
<1>3. /\ w.kind = "send" /\ w.at = "sent" /\ w.user = u /\ w.to = page[u].with /\ w.conv = page[u].conv
      /\ w.hasty = (page[u].sub = 0 /\ page[u].conv # 0)
      /\ w \in Work
  BY <1>2, <1>e DEF NoWork, Work, Users
<1> HIDE DEF w
<1>4. JobOK(w)
  BY <1>2, <1>3 DEF JobOK
<1> QED
  BY <1>1, <1>3, <1>4, PutIs

\* Two users look for their conversation.
LEMMA LooksIt ==
  ASSUME Steps, NEW j \in Places, LookUp(j), convs \in Seq(SUBSET Users)
  PROVE  /\ Only(j) /\ JobOK(hand'[j])
         /\ hand[j].kind \in {"open", "send"} /\ hand[j].at \in {"look", "sent"}
         /\ hand'[j].kind = hand[j].kind /\ hand'[j].user = hand[j].user /\ hand'[j].to = hand[j].to
         /\ hand'[j].live = hand[j].live /\ hand'[j].hasty = hand[j].hasty
         /\ \/ /\ hand'[j].at = "create" /\ hand'[j].conv = hand[j].conv
               /\ Between(hand[j].user, hand[j].to) = {}
            \/ /\ hand'[j].at = IF hand[j].kind = "send" THEN "insert" ELSE "answer"
               /\ hand'[j].conv \in Between(hand[j].user, hand[j].to)
<1>1. /\ hand[j].kind \in {"open", "send"} /\ hand[j].at \in {"look", "sent"} /\ hand[j] \in Work
      /\ hand[j].user \in People /\ hand[j].to \in Users \ {hand[j].user}
  BY JobsAre DEF LookUp, Arrives
<1>2. CASE Between(hand[j].user, hand[j].to) = {}
  <2> DEFINE w == [hand[j] EXCEPT !.at = "create"]
  <2>1. hand' = [hand EXCEPT ![j] = w]
    BY <1>2 DEF LookUp
  <2>2. /\ w \in Work /\ w.kind = hand[j].kind /\ w.at = "create" /\ w.user = hand[j].user /\ w.to = hand[j].to
        /\ w.conv = hand[j].conv /\ w.live = hand[j].live /\ w.hasty = hand[j].hasty
    BY <1>1 DEF Work
  <2> HIDE DEF w
  <2>3. JobOK(w)
    BY <1>1, <2>2 DEF JobOK
  <2> QED
    BY <1>1, <1>2, <2>1, <2>2, <2>3, PutIs
<1>3. CASE Between(hand[j].user, hand[j].to) # {}
  <2> DEFINE next == IF hand[j].kind = "send" THEN "insert" ELSE "answer"
  <2>1. PICK c \in Between(hand[j].user, hand[j].to) : hand' = [hand EXCEPT ![j] = [hand[j] EXCEPT !.conv = c, !.at = next]]
    BY <1>3 DEF LookUp
  <2> DEFINE w == [hand[j] EXCEPT !.conv = c, !.at = next]
  <2>4. c \in Nat
    BY DEF Between
  <2>2. /\ w \in Work /\ w.kind = hand[j].kind /\ w.at = next /\ w.user = hand[j].user /\ w.to = hand[j].to
        /\ w.conv = c /\ w.live = hand[j].live /\ w.hasty = hand[j].hasty
    BY <1>1, <2>4 DEF Work
  <2>5. hand' = [hand EXCEPT ![j] = w]
    BY <2>1
  <2> HIDE DEF w
  <2>3. JobOK(w)
    BY <1>1, <2>2 DEF JobOK
  <2> QED
    BY <1>1, <1>3, <2>5, <2>2, <2>3, PutIs
<1> QED
  BY <1>2, <1>3

\* The conversation is created.
LEMMA CreatesIt ==
  ASSUME Steps, NEW j \in Places, CreateConversation(j), Len(convs) \in Nat
  PROVE  /\ Only(j) /\ JobOK(hand'[j])
         /\ hand[j].kind \in {"open", "send"} /\ hand[j].at = "create"
         /\ hand'[j].kind = hand[j].kind /\ hand'[j].user = hand[j].user /\ hand'[j].to = hand[j].to
         /\ hand'[j].live = hand[j].live /\ hand'[j].hasty = hand[j].hasty
         /\ hand'[j].at = IF hand[j].kind = "send" THEN "insert" ELSE "answer"
         /\ hand'[j].conv = Len(convs) + 1
<1>1. /\ hand[j].kind \in {"open", "send"} /\ hand[j].at = "create" /\ hand[j] \in Work
      /\ hand[j].user \in People /\ hand[j].to \in Users \ {hand[j].user}
  BY JobsAre DEF CreateConversation
<1>n. Len(convs) + 1 \in Nat
  OBVIOUS
<1> DEFINE w == [hand[j] EXCEPT !.conv = Len(convs) + 1, !.at = IF hand[j].kind = "send" THEN "insert" ELSE "answer"]
<1>2. hand' = [hand EXCEPT ![j] = w]
  BY DEF CreateConversation
<1>3. /\ w \in Work /\ w.kind = hand[j].kind /\ w.user = hand[j].user /\ w.to = hand[j].to
      /\ w.at = IF hand[j].kind = "send" THEN "insert" ELSE "answer"
      /\ w.conv = Len(convs) + 1 /\ w.live = hand[j].live /\ w.hasty = hand[j].hasty
  BY <1>1, <1>n DEF Work
<1> HIDE DEF w
<1>4. JobOK(w)
  BY <1>1, <1>3 DEF JobOK
<1> QED
  BY <1>1, <1>2, <1>3, <1>4, PutIs

\* The messages are read.
LEMMA SelectsIt ==
  ASSUME Steps, NEW j \in Places, SelectMessages(j), MessagesOf(hand[j].conv) \in SUBSET Nat,
         IsFiniteSet(MessagesOf(hand[j].conv))
  PROVE  /\ Only(j) /\ JobOK(hand'[j])
         /\ hand[j].kind = "history" /\ hand[j].at = "select"
         /\ hand'[j].kind = "history" /\ hand'[j].user = hand[j].user /\ hand'[j].at = "answer"
         /\ hand'[j].to = hand[j].to
         /\ hand'[j].live = hand[j].live /\ hand'[j].conv = hand[j].conv
         /\ hand'[j].got = InOrder(MessagesOf(hand[j].conv))
<1>1. hand[j].kind = "history" /\ hand[j].at = "select" /\ hand[j] \in Work /\ hand[j].user \in People
  BY JobsAre DEF SelectMessages
<1> DEFINE got == InOrder(MessagesOf(hand[j].conv))
           w == [hand[j] EXCEPT !.got = got, !.at = "answer"]
<1>2. hand' = [hand EXCEPT ![j] = w]
  BY DEF SelectMessages
<1>3. got \in Seq(Nat)
  BY InOrderIs, SeqMonotonic
<1> HIDE DEF got
<1>4. /\ w \in Work /\ w.kind = hand[j].kind /\ w.user = hand[j].user /\ w.to = hand[j].to
      /\ w.at = "answer" /\ w.got = got
      /\ w.conv = hand[j].conv /\ w.live = hand[j].live
  BY <1>1, <1>3 DEF Work
<1> HIDE DEF w
<1>5. JobOK(w)
  BY <1>1, <1>4 DEF JobOK
<1> QED
  BY <1>1, <1>2, <1>4, <1>5, PutIs DEF got

\* A message is stored.
LEMMA InsertsIt ==
  ASSUME Steps, NEW j \in Places, InsertMessage(j), Len(msgs) \in Nat
  PROVE  /\ Only(j) /\ JobOK(hand'[j])
         /\ hand[j].kind \in {"send", "reply"} /\ hand[j].at \in {"insert", "sent"} /\ hand[j].conv \in Nat
         /\ hand[j].at = "sent" => hand[j].conv # 0
         /\ hand[j].user \in Users /\ hand[j].to \in Users /\ hand[j].hasty \in BOOLEAN
         /\ hand'[j].kind = hand[j].kind /\ hand'[j].user = hand[j].user /\ hand'[j].to = hand[j].to
         /\ hand'[j].at = "count" /\ hand'[j].hasty = hand[j].hasty /\ hand'[j].live = hand[j].live
         /\ hand'[j].conv = hand[j].conv
         /\ hand'[j].got = <<Len(msgs) + 1>> /\ hand'[j].got[1] = Len(msgs) + 1
<1>1. /\ hand[j].kind \in {"send", "reply"} /\ hand[j].at \in {"insert", "sent"} /\ hand[j] \in Work
      /\ hand[j].conv \in Nat /\ hand[j].user \in Users /\ hand[j].to \in Users /\ hand[j].hasty \in BOOLEAN
      /\ hand[j].at = "sent" => hand[j].conv # 0
      /\ hand[j].kind = "send" => hand[j].user \in People /\ hand[j].to \in Users \ {hand[j].user}
      /\ hand[j].kind = "reply" => hand[j].user = Grok /\ hand[j].to \in People
  BY JobsAre DEF InsertMessage, Arrives, Users
<1> DEFINE w == [hand[j] EXCEPT !.at = "count", !.got = <<Len(msgs) + 1>>]
<1>2. hand' = [hand EXCEPT ![j] = w]
  BY DEF InsertMessage
<1>3. <<Len(msgs) + 1>> \in Seq(Nat) /\ Len(<<Len(msgs) + 1>>) = 1 /\ <<Len(msgs) + 1>>[1] = Len(msgs) + 1
  OBVIOUS
<1>4. /\ w \in Work /\ w.kind = hand[j].kind /\ w.user = hand[j].user /\ w.to = hand[j].to
      /\ w.at = "count" /\ w.got = <<Len(msgs) + 1>> /\ w.hasty = hand[j].hasty /\ w.live = hand[j].live
      /\ w.conv = hand[j].conv
  BY <1>1, <1>3 DEF Work
<1> HIDE DEF w
<1>5. JobOK(w)
  BY <1>1, <1>3, <1>4 DEF JobOK
<1> QED
  BY <1>1, <1>2, <1>3, <1>4, <1>5, PutIs, ZenonT(40)

\* Grok takes the message up.
LEMMA GrokTakesIt ==
  ASSUME Steps, NEW j \in Places, HandleGrokMessage(j)
  PROVE  /\ Only(j) /\ JobOK(hand'[j])
         /\ hand[j].kind = "send" /\ hand[j].at = "count" /\ hand[j].to = Grok /\ hand[j].user \in People
         /\ hand'[j].kind = "reply" /\ hand'[j].at = "insert" /\ hand'[j].user = Grok /\ hand'[j].to = hand[j].user
         /\ hand'[j].conv = hand[j].conv /\ hand'[j].hasty = hand[j].hasty
<1>e. <<>> \in Seq(Nat)
  OBVIOUS
<1> DEFINE w == [NoWork EXCEPT !.kind = "reply", !.user = Grok, !.to = hand[j].user, !.conv = hand[j].conv,
                               !.at = "insert", !.live = TRUE, !.hasty = hand[j].hasty]
<1>1. /\ hand' = [hand EXCEPT ![j] = w] /\ hand[j].kind = "send" /\ hand[j].at = "count" /\ hand[j].to = Grok
  BY DEF HandleGrokMessage, Publish
<1>2. hand[j].user \in People /\ hand[j].conv \in Nat /\ hand[j].hasty \in BOOLEAN
  BY <1>1, JobsAre
<1>3. /\ w.kind = "reply" /\ w.at = "insert" /\ w.user = Grok /\ w.to = hand[j].user
      /\ w.conv = hand[j].conv /\ w.hasty = hand[j].hasty /\ w \in Work
  BY <1>2, <1>e DEF NoWork, Work, Users
<1> HIDE DEF w
<1>4. JobOK(w)
  BY <1>2, <1>3 DEF JobOK
<1> QED
  BY <1>1, <1>2, <1>3, <1>4, PutIs

\* Grok apologises.
LEMMA ApologisesIt ==
  ASSUME Steps, NEW j \in Places, GrokApologises(j)
  PROVE  /\ Only(j) /\ JobOK(hand'[j])
         /\ hand[j].kind = "reply" /\ hand[j].at \in {"insert", "count"}
         /\ hand'[j].kind = "reply" /\ hand'[j].at = "insert" /\ hand'[j].user = hand[j].user
         /\ hand'[j].to = hand[j].to /\ hand'[j].conv = hand[j].conv /\ hand'[j].hasty = hand[j].hasty
<1>1. /\ hand[j] \in Work /\ hand[j].kind = "reply" /\ hand[j].at \in {"insert", "count"}
      /\ hand[j].user = Grok /\ hand[j].to \in People
  BY JobsAre DEF GrokApologises
<1>e. <<>> \in Seq(Nat)
  OBVIOUS
<1> DEFINE w == [hand[j] EXCEPT !.at = "insert", !.got = <<>>, !.live = FALSE]
<1>2. hand' = [hand EXCEPT ![j] = w]
  BY DEF GrokApologises
<1>3. /\ w \in Work /\ w.kind = "reply" /\ w.at = "insert" /\ w.user = hand[j].user
      /\ w.to = hand[j].to /\ w.conv = hand[j].conv /\ w.hasty = hand[j].hasty
  BY <1>1, <1>e DEF Work
<1> HIDE DEF w
<1>4. JobOK(w)
  BY <1>1, <1>3 DEF JobOK
<1> QED
  BY <1>1, <1>2, <1>3, <1>4, PutIs

\* Messages on their way to the server are lost.
LEMMA LosesIt ==
  ASSUME Steps, NEW u \in People, Drop(u)
  PROVE  /\ hand' = [k \in Places |-> hand'[k]]
         /\ \A k \in Places : hand'[k] = hand[k] \/ (hand'[k] = NoWork /\ hand[k].at = "sent")
<1>1. PICK lost \in SUBSET {k \in Places : hand[k].user = u /\ hand[k].at = "sent"} :
        hand' = [k \in Places |-> IF k \in lost THEN NoWork ELSE hand[k]]
  BY DEF Drop
<1> QED
  BY <1>1

\* Nothing but the page of u changes.
OnlyPage(u) ==
  /\ page' = [v \in People |-> page'[v]]
  /\ \A v \in People : v # u => page'[v] = page[v]

\* The fields of a page.
LEMMA PageIs ==
  ASSUME NEW p \in Pages
  PROVE  /\ p.with \in Users \union {Nobody} /\ p.conv \in Nat /\ p.sub \in Nat /\ p.view \in Seq(Nat)
         /\ p.load \in {"none", "open", "history"} /\ p.shaken \in BOOLEAN
BY DEF Pages

\* One page changes.
LEMMA PutPage ==
  ASSUME page \in [People -> Pages], NEW u \in People, NEW p \in Pages, page' = [page EXCEPT ![u] = p]
  PROVE  OnlyPage(u) /\ page'[u] = p /\ page' \in [People -> Pages]
BY DEF OnlyPage

\* The page turns to another user.
LEMMA TurnsPage ==
  ASSUME page \in [People -> Pages], NEW j \in Places, NEW u \in People, NEW v \in Users, LoadConversation(u, v, j)
  PROVE  /\ OnlyPage(u) /\ page' \in [People -> Pages] /\ u # v
         /\ page'[u].with = v /\ page'[u].conv = page[u].conv /\ page'[u].sub = 0 /\ page'[u].load = "open"
<1> DEFINE p == [NoPage EXCEPT !.with = v, !.conv = page[u].conv, !.load = "open"]
<1>1. page' = [page EXCEPT ![u] = p] /\ u # v
  BY DEF LoadConversation
<1>2. page[u].conv \in Nat /\ <<>> \in Seq(Nat)
  BY PageIs
<1>3. /\ p \in Pages /\ p.with = v /\ p.conv = page[u].conv /\ p.sub = 0 /\ p.load = "open"
  BY <1>2 DEF NoPage, Pages
<1> HIDE DEF p
<1> QED
  BY <1>1, <1>3, PutPage

\* The page is left.
LEMMA LeavesPage ==
  ASSUME page \in [People -> Pages], NEW u \in People, Leave(u)
  PROVE  /\ OnlyPage(u) /\ page' \in [People -> Pages]
         /\ page'[u].with = Nobody /\ page'[u].conv = 0 /\ page'[u].sub = 0 /\ page'[u].load = "none"
<1>1. <<>> \in Seq(Nat)
  OBVIOUS
<1>2. NoPage \in Pages /\ NoPage.with = Nobody /\ NoPage.conv = 0 /\ NoPage.sub = 0 /\ NoPage.load = "none"
  BY <1>1 DEF NoPage, Pages
<1> QED
  BY <1>2, PutPage DEF Leave

\* The page has its conversation.
LEMMA OpensPage ==
  ASSUME page \in [People -> Pages], Steps, NEW j \in Places, Opened(j)
  PROVE  /\ hand[j].user \in People /\ OnlyPage(hand[j].user) /\ page' \in [People -> Pages]
         /\ ~hand[j].live => page' = page
         /\ hand[j].live =>
              LET p == page'[hand[j].user]
              IN  /\ p.with = page[hand[j].user].with /\ p.conv = hand[j].conv /\ p.sub = hand[j].conv
                  /\ p.load = "history"
                  /\ ~p.shaken => ~UnderWay(hand[j].conv, hand[j].user)
<1>1. hand[j].user \in People /\ hand[j].conv \in Nat
  BY JobsAre DEF Opened
<1>2. CASE hand[j].live
  <2> DEFINE u == hand[j].user
             c == hand[j].conv
             s == page[u].shaken \/ UnderWay(c, u)
             p == [page[u] EXCEPT !.conv = c, !.sub = c, !.load = "history", !.shaken = s]
  <2>1. page' = [page EXCEPT ![u] = p]
    BY <1>2, <1>1 DEF Opened
  <2>2. s \in BOOLEAN /\ (~s => ~UnderWay(c, u))
    OBVIOUS
  <2> HIDE DEF s
  <2>3. p \in Pages /\ p.with = page[u].with /\ p.conv = c /\ p.sub = c /\ p.load = "history" /\ p.shaken = s
    BY <1>1, <2>2 DEF Pages
  <2> HIDE DEF p
  <2> QED
    BY <1>1, <1>2, <2>1, <2>2, <2>3, PutPage
<1>3. CASE ~hand[j].live
  <2>1. page' = page
    BY <1>3 DEF Opened
  <2> QED
    BY <1>1, <1>3, <2>1 DEF OnlyPage
<1> QED
  BY <1>2, <1>3

\* The page has its messages.
LEMMA LoadsPage ==
  ASSUME page \in [People -> Pages], Steps, NEW j \in Places, Loaded(j)
  PROVE  /\ hand[j].kind = "history" /\ hand[j].at = "answer"
         /\ hand[j].user \in People /\ OnlyPage(hand[j].user) /\ page' \in [People -> Pages]
         /\ ~hand[j].live => page' = page
         /\ LET p == page'[hand[j].user]
            IN  p.with = page[hand[j].user].with /\ p.conv = page[hand[j].user].conv /\ p.sub = page[hand[j].user].sub
                /\ p.shaken = page[hand[j].user].shaken
         /\ hand[j].live => page'[hand[j].user].load = "none" /\ page'[hand[j].user].view = hand[j].got
<1>1. hand[j].user \in People /\ hand[j].got \in Seq(Nat) /\ hand[j].kind = "history" /\ hand[j].at = "answer"
  BY JobsAre DEF Loaded
<1>2. CASE hand[j].live
  <2> DEFINE u == hand[j].user
             p == [page[u] EXCEPT !.view = hand[j].got, !.load = "none"]
  <2>1. page' = [page EXCEPT ![u] = p]
    BY <1>2, <1>1 DEF Loaded
  <2>3. /\ p \in Pages /\ p.with = page[u].with /\ p.conv = page[u].conv /\ p.sub = page[u].sub
        /\ p.load = "none" /\ p.shaken = page[u].shaken /\ p.view = hand[j].got
    BY <1>1 DEF Pages
  <2> HIDE DEF p
  <2> QED
    BY <1>1, <1>2, <2>1, <2>3, PutPage
<1>3. CASE ~hand[j].live
  <2>1. page' = page
    BY <1>3 DEF Loaded
  <2> QED
    BY <1>1, <1>3, <2>1 DEF OnlyPage
<1> QED
  BY <1>2, <1>3

\* The page hears a message.
LEMMA HearsPage ==
  ASSUME page \in [People -> Pages], NEW u \in People, Hear(u), net[u] \in Seq(Nat)
  PROVE  /\ OnlyPage(u) /\ page' \in [People -> Pages] /\ net[u] # <<>> /\ Head(net[u]) \in Nat
         /\ page'[u].with = page[u].with /\ page'[u].conv = page[u].conv /\ page'[u].sub = page[u].sub
         /\ page'[u].load = page[u].load /\ page'[u].shaken = page[u].shaken
         /\ page'[u].view = IF page[u].sub = msgs[Head(net[u])].conv THEN Append(page[u].view, Head(net[u]))
                            ELSE page[u].view
<1> DEFINE m == Head(net[u])
<1>1. net[u] # <<>> /\ m \in Nat
  BY HeadTailProperties DEF Hear
<1>2. CASE page[u].sub = msgs[m].conv
  <2> DEFINE p == [page[u] EXCEPT !.view = Append(page[u].view, m)]
  <2>1. page' = [page EXCEPT ![u] = p]
    BY <1>2, <1>1 DEF Hear, HearsOf
  <2>2. page[u] \in Pages /\ page[u].view \in Seq(Nat)
    BY PageIs
  <2>4. Append(page[u].view, m) \in Seq(Nat)
    BY <1>1, <2>2, AppendProperties
  <2>3. /\ p \in Pages /\ p.with = page[u].with /\ p.conv = page[u].conv /\ p.sub = page[u].sub
        /\ p.load = page[u].load /\ p.shaken = page[u].shaken /\ p.view = Append(page[u].view, m)
    BY <2>2, <2>4 DEF Pages
  <2> HIDE DEF p
  <2> QED
    BY <1>1, <1>2, <2>1, <2>3, PutPage
<1>3. CASE page[u].sub # msgs[m].conv
  <2>1. page' = page
    BY <1>3 DEF Hear, HearsOf
  <2> QED
    BY <1>1, <1>3, <2>1 DEF OnlyPage
<1> QED
  BY <1>2, <1>3

\* What a page keeps when it is only shaken.
Shakes ==
  /\ page' \in [People -> Pages]
  /\ \A u \in People :
       /\ page'[u].with = page[u].with /\ page'[u].conv = page[u].conv /\ page'[u].sub = page[u].sub
       /\ page'[u].view = page[u].view /\ page'[u].load = page[u].load
       /\ page[u].shaken => page'[u].shaken

\* A page that is shaken.
LEMMA ShakeIs ==
  ASSUME NEW p \in Pages, NEW q, q = [p EXCEPT !.shaken = TRUE]
  PROVE  /\ q \in Pages /\ q.with = p.with /\ q.conv = p.conv /\ q.sub = p.sub /\ q.view = p.view
         /\ q.load = p.load /\ q.shaken
BY DEF Pages

\* A message is stored: the pages that load its conversation are shaken.
LEMMA InsertsPage ==
  ASSUME page \in [People -> Pages], NEW j \in Places, InsertMessage(j)
  PROVE  /\ Shakes
         /\ \A u \in People : page[u].load = "history" /\ page[u].sub = hand[j].conv => page'[u].shaken
         /\ \A u \in People : ~(page[u].load = "history" /\ page[u].sub = hand[j].conv) => page'[u] = page[u]
<1>1. page' = [u \in People |->
                       IF page[u].load = "history" /\ page[u].sub = hand[j].conv
                       THEN [page[u] EXCEPT !.shaken = TRUE]
                       ELSE page[u]]
  BY DEF InsertMessage
<1>2. ASSUME NEW u \in People
      PROVE  /\ page'[u] \in Pages
             /\ page'[u].with = page[u].with /\ page'[u].conv = page[u].conv /\ page'[u].sub = page[u].sub
             /\ page'[u].view = page[u].view /\ page'[u].load = page[u].load
             /\ page[u].shaken => page'[u].shaken
             /\ page[u].load = "history" /\ page[u].sub = hand[j].conv => page'[u].shaken
             /\ ~(page[u].load = "history" /\ page[u].sub = hand[j].conv) => page'[u] = page[u]
  <2>1. CASE page[u].load = "history" /\ page[u].sub = hand[j].conv
    <3>1. page'[u] = [page[u] EXCEPT !.shaken = TRUE]
      BY <1>1, <2>1
    <3> QED
      BY <2>1, <3>1, ShakeIs
  <2>2. CASE ~(page[u].load = "history" /\ page[u].sub = hand[j].conv)
    <3>1. page'[u] = page[u]
      BY <1>1, <2>2
    <3> QED
      BY <2>2, <3>1
  <2> QED
    BY <2>1, <2>2
<1>3. page' \in [People -> Pages]
  <2>1. page' = [u \in People |-> page'[u]]
    BY <1>1
  <2> QED
    BY <1>2, <2>1
<1> QED
  BY <1>2, <1>3 DEF Shakes

\* A message is published: the pages that are not connected are shaken.
LEMMA PublishesPage ==
  ASSUME page \in [People -> Pages], online \in [People -> BOOLEAN], NEW j \in Places, Publish(j)
  PROVE  /\ Shakes
         /\ \A u \in People : ~online[u] => page'[u].shaken
         /\ \A u \in People : online[u] => page'[u] = page[u]
<1>1. page' = [u \in People |-> IF online[u] THEN page[u] ELSE [page[u] EXCEPT !.shaken = TRUE]]
  BY DEF Publish
<1>2. ASSUME NEW u \in People
      PROVE  /\ page'[u] \in Pages
             /\ page'[u].with = page[u].with /\ page'[u].conv = page[u].conv /\ page'[u].sub = page[u].sub
             /\ page'[u].view = page[u].view /\ page'[u].load = page[u].load
             /\ page[u].shaken => page'[u].shaken
             /\ ~online[u] => page'[u].shaken
             /\ online[u] => page'[u] = page[u]
  <2>1. CASE ~online[u]
    <3>1. page'[u] = [page[u] EXCEPT !.shaken = TRUE]
      BY <1>1, <2>1
    <3> QED
      BY <2>1, <3>1, ShakeIs
  <2>2. CASE online[u]
    <3>1. page'[u] = page[u]
      BY <1>1, <2>2
    <3> QED
      BY <2>2, <3>1
  <2> QED
    BY <2>1, <2>2
<1>3. page' \in [People -> Pages]
  <2>1. page' = [u \in People |-> page'[u]]
    BY <1>1
  <2> QED
    BY <1>2, <2>1
<1> QED
  BY <1>2, <1>3 DEF Shakes

\* A connection is lost: the page is shaken.
LEMMA DropsPage ==
  ASSUME page \in [People -> Pages], NEW u \in People, Drop(u)
  PROVE  Shakes /\ OnlyPage(u) /\ page'[u].shaken
<1> DEFINE p == [page[u] EXCEPT !.shaken = TRUE]
<1>1. page' = [page EXCEPT ![u] = p]
  BY DEF Drop
<1>2. /\ p \in Pages /\ p.with = page[u].with /\ p.conv = page[u].conv /\ p.sub = page[u].sub
      /\ p.view = page[u].view /\ p.load = page[u].load /\ p.shaken
  BY ShakeIs
<1> HIDE DEF p
<1>3. OnlyPage(u) /\ page'[u] = p /\ page' \in [People -> Pages]
  BY <1>1, <1>2, PutPage
<1> QED
  BY <1>2, <1>3 DEF OnlyPage, Shakes

\* A load fails: the page that waits is shaken.
LEMMA FailsPage ==
  ASSUME page \in [People -> Pages], Steps, NEW j \in Places, LoadFails(j)
  PROVE  /\ hand[j].user \in People /\ hand[j].at # "count"
         /\ OnlyPage(hand[j].user) /\ page' \in [People -> Pages]
         /\ ~hand[j].live => page' = page
         /\ LET p == page'[hand[j].user]
            IN  p.with = page[hand[j].user].with /\ p.conv = page[hand[j].user].conv /\ p.sub = page[hand[j].user].sub
         /\ hand[j].live => page'[hand[j].user].shaken /\ page'[hand[j].user].load = "none"
<1>1. hand[j].user \in People /\ hand[j].at # "count"
  BY JobsAre DEF LoadFails
<1>2. CASE hand[j].live
  <2> DEFINE u == hand[j].user
             p == [page[u] EXCEPT !.load = "none", !.shaken = TRUE]
  <2>1. page' = [page EXCEPT ![u] = p]
    BY <1>2, <1>1 DEF LoadFails
  <2>3. /\ p \in Pages /\ p.with = page[u].with /\ p.conv = page[u].conv /\ p.sub = page[u].sub
        /\ p.shaken /\ p.load = "none"
    BY <1>1 DEF Pages
  <2> HIDE DEF p
  <2> QED
    BY <1>1, <1>2, <2>1, <2>3, PutPage
<1>3. CASE ~hand[j].live
  <2>1. page' = page
    BY <1>3 DEF LoadFails
  <2> QED
    BY <1>1, <1>3, <2>1 DEF OnlyPage
<1> QED
  BY <1>2, <1>3

\* What TypeOK says, with the lengths.
LEMMA Typed ==
  ASSUME TypeOK
  PROVE  /\ convs \in Seq(SUBSET Users) /\ Len(convs) \in Nat /\ DOMAIN convs = 1..Len(convs)
         /\ msgs \in Seq(Messages) /\ Len(msgs) \in Nat /\ DOMAIN msgs = 1..Len(msgs)
         /\ page \in [People -> Pages] /\ online \in [People -> BOOLEAN]
         /\ net \in [People -> Seq(DOMAIN msgs)]
         /\ \A u \in People : net[u] \in Seq(Nat)
         /\ \A m \in DOMAIN msgs : msgs[m] \in Messages /\ msgs[m].conv \in DOMAIN convs
         /\ \A c : MessagesOf(c) \in SUBSET Nat /\ IsFiniteSet(MessagesOf(c)) /\ MessagesOf(c) \in SUBSET DOMAIN msgs
<1>1. /\ convs \in Seq(SUBSET Users) /\ msgs \in Seq(Messages)
      /\ page \in [People -> Pages] /\ online \in [People -> BOOLEAN] /\ net \in [People -> Seq(DOMAIN msgs)]
      /\ \A m \in DOMAIN msgs : msgs[m].conv \in DOMAIN convs
  BY DEF TypeOK
<1>2. Len(convs) \in Nat /\ DOMAIN convs = 1..Len(convs) /\ Len(msgs) \in Nat /\ DOMAIN msgs = 1..Len(msgs)
  BY <1>1, LenProperties
<1>3. \A m \in DOMAIN msgs : msgs[m] \in Messages
  BY <1>1, <1>2, ElementOfSeq
<1>4. DOMAIN msgs \subseteq Nat /\ IsFiniteSet(DOMAIN msgs)
  BY <1>2, FS_Interval
<1>5. ASSUME NEW u \in People PROVE net[u] \in Seq(Nat)
  <2>1. net[u] \in Seq(DOMAIN msgs)
    BY <1>1
  <2> QED
    BY <1>4, <2>1, SeqMonotonic
<1>6. ASSUME NEW c
      PROVE MessagesOf(c) \in SUBSET Nat /\ IsFiniteSet(MessagesOf(c)) /\ MessagesOf(c) \in SUBSET DOMAIN msgs
  <2>1. MessagesOf(c) \in SUBSET DOMAIN msgs
    BY DEF MessagesOf
  <2> QED
    BY <1>4, <2>1, FS_Subset
<1> QED
  BY <1>1, <1>2, <1>3, <1>5, <1>6

\* Every step leaves the requests at a step of their kind.
LEMMA StepsKept == TypeOK /\ Steps /\ Placed /\ [Next]_vars => Steps'
<1> SUFFICES ASSUME TypeOK, Steps, Placed, [Next]_vars PROVE Steps'
  OBVIOUS
<1>t. /\ convs \in Seq(SUBSET Users) /\ Len(convs) \in Nat /\ Len(msgs) \in Nat
      /\ page \in [People -> Pages]
      /\ \A c : MessagesOf(c) \in SUBSET Nat /\ IsFiniteSet(MessagesOf(c))
  BY Typed
<1>d. ASSUME NEW j \in Places, Done(j) PROVE Steps'
  BY <1>d, EndIs, OnlyKeepsSteps
<1>1. ASSUME NEW j \in Places, LookUp(j) PROVE Steps'
  BY <1>1, <1>t, LooksIt, OnlyKeepsSteps
<1>2. ASSUME NEW j \in Places, CreateConversation(j) PROVE Steps'
  BY <1>2, <1>t, CreatesIt, OnlyKeepsSteps
<1>3. ASSUME NEW j \in Places, SelectMessages(j) PROVE Steps'
  BY <1>3, <1>t, SelectsIt, OnlyKeepsSteps
<1>4. ASSUME NEW j \in Places, InsertMessage(j) PROVE Steps'
  BY <1>4, <1>t, InsertsIt, OnlyKeepsSteps
<1>5. ASSUME NEW j \in Places, HandleSend(j) \/ ProcessGrokResponse(j) \/ LoadFails(j) \/ SendFails(j) \/ Loaded(j) PROVE Steps'
  BY <1>5, <1>d DEF HandleSend, ProcessGrokResponse, LoadFails, SendFails, Loaded
<1>6. ASSUME NEW j \in Places, HandleGrokMessage(j) PROVE Steps'
  BY <1>6, GrokTakesIt, OnlyKeepsSteps
<1>7. ASSUME NEW j \in Places, GrokApologises(j) PROVE Steps'
  BY <1>7, ApologisesIt, OnlyKeepsSteps
<1>8. ASSUME NEW j \in Places, Opened(j) PROVE Steps'
  BY <1>8, OpensIt, OnlyKeepsSteps
<1>9. ASSUME NEW j \in Places, NEW u \in People, Send(u, j) PROVE Steps'
  <2>1. page[u] \in Pages
    BY <1>t
  <2> QED
    BY <1>9, <2>1, SendsIt, OnlyKeepsSteps
<1>10. ASSUME NEW j \in Places, NEW u \in People, NEW v \in Users, LoadConversation(u, v, j) PROVE Steps'
  <2>1. /\ hand' = [k \in Places |-> hand'[k]]
        /\ \A k \in Places : JobOK(hand'[k])
    BY <1>10, Turns
  <2> QED
    BY <2>1 DEF Steps, JobOK
<1>11. ASSUME NEW u \in People, Leave(u) PROVE Steps'
  <2>1. hand' = Unheard(u)
    BY <1>11 DEF Leave
  <2>2. /\ hand' = [k \in Places |-> hand'[k]]
        /\ \A k \in Places : JobOK(hand'[k])
    BY <2>1, UnheardIs
  <2> QED
    BY <2>2 DEF Steps, JobOK
<1>12. ASSUME NEW u \in People, Drop(u) PROVE Steps'
  <2>1. /\ hand' = [k \in Places |-> hand'[k]]
        /\ \A k \in Places : JobOK(hand'[k])
    BY <1>12, LosesIt DEF Steps, JobOK
  <2> QED
    BY <2>1 DEF Steps, JobOK
<1>13. ASSUME UNCHANGED hand PROVE Steps'
  BY <1>13 DEF Steps, JobOK
<1>14. CASE \E u \in People : Hear(u) \/ Reconnect(u)
  BY <1>13, <1>14 DEF Hear, Reconnect
<1>15. CASE UNCHANGED vars
  BY <1>13, <1>15 DEF vars
<1> QED
  BY <1>1, <1>2, <1>3, <1>4, <1>5, <1>6, <1>7, <1>8, <1>9, <1>10, <1>11, <1>12, <1>14, <1>15
  DEF Next, Server, Enter, TurnTo, OpenConversation

\* Conversations and messages are added, one at a time, and stay what they are.
Grows ==
  /\ convs' \in Seq(SUBSET Users) /\ msgs' \in Seq(Messages)
  /\ Len(convs') \in Nat /\ Len(convs') >= Len(convs) /\ Len(msgs') \in Nat /\ Len(msgs') >= Len(msgs)
  /\ DOMAIN convs' = 1..Len(convs') /\ DOMAIN msgs' = 1..Len(msgs')
  /\ \A c \in DOMAIN convs : convs'[c] = convs[c]
  /\ \A m \in DOMAIN msgs : msgs'[m] = msgs[m]
  /\ \A m \in DOMAIN msgs' : msgs'[m].conv \in DOMAIN convs'

\* The conversation that is created.
LEMMA CreatesConv ==
  ASSUME TypeOK, Steps, NEW j \in Places, CreateConversation(j)
  PROVE  /\ convs' \in Seq(SUBSET Users) /\ Len(convs') = Len(convs) + 1
         /\ DOMAIN convs' = 1..Len(convs) + 1
         /\ \A c \in DOMAIN convs : convs'[c] = convs[c]
         /\ convs'[Len(convs) + 1] = Pair(j) /\ hand[j].user # hand[j].to
         /\ hand[j].user \in Users /\ hand[j].to \in Users
<1>1. convs \in Seq(SUBSET Users) /\ Len(convs) \in Nat /\ DOMAIN convs = 1..Len(convs)
  BY Typed
<1>2. hand[j].user \in Users /\ hand[j].to \in Users /\ hand[j].user # hand[j].to
  BY JobsAre DEF CreateConversation, Users
<1>3. convs' = Append(convs, Pair(j)) /\ Pair(j) \in SUBSET Users
  BY <1>2 DEF CreateConversation, Participants, Pair
<1>4. /\ convs' \in Seq(SUBSET Users) /\ Len(convs') = Len(convs) + 1
      /\ \A c \in 1..Len(convs) : convs'[c] = convs[c]
      /\ convs'[Len(convs) + 1] = Pair(j)
  BY <1>1, <1>3, AppendProperties
<1>5. DOMAIN convs' = 1..Len(convs) + 1
  BY <1>4, LenProperties
<1> QED
  BY <1>1, <1>2, <1>4, <1>5

\* The message that is stored.
LEMMA InsertsMsg ==
  ASSUME TypeOK, Steps, Placed, NEW j \in Places, InsertMessage(j)
  PROVE  LET m == Len(msgs) + 1
         IN  /\ msgs' \in Seq(Messages) /\ Len(msgs') = m /\ DOMAIN msgs' = 1..m
             /\ \A k \in DOMAIN msgs : msgs'[k] = msgs[k]
             /\ msgs'[m].conv = hand[j].conv /\ msgs'[m].from = hand[j].user /\ msgs'[m].to = hand[j].to
             /\ msgs'[m].hasty = hand[j].hasty
             /\ hand[j].conv \in DOMAIN convs
<1>1. msgs \in Seq(Messages) /\ Len(msgs) \in Nat /\ DOMAIN msgs = 1..Len(msgs) /\ DOMAIN convs = 1..Len(convs)
  BY Typed
<1>2. /\ hand[j].conv \in Nat /\ hand[j].user \in Users /\ hand[j].to \in Users /\ hand[j].hasty \in BOOLEAN
      /\ hand[j].conv # 0
  BY <1>1, InsertsIt DEF Placed
<1>3. hand[j].conv \in DOMAIN convs
  BY <1>1, <1>2, Typed DEF Placed
<1> DEFINE x == [conv |-> hand[j].conv, from |-> hand[j].user, to |-> hand[j].to, hasty |-> hand[j].hasty]
<1>4. msgs' = Append(msgs, x)
  BY DEF InsertMessage
<1>5. x \in Messages /\ x.conv = hand[j].conv /\ x.from = hand[j].user /\ x.to = hand[j].to /\ x.hasty = hand[j].hasty
  BY <1>2 DEF Messages
<1> HIDE DEF x
<1>6. /\ msgs' \in Seq(Messages) /\ Len(msgs') = Len(msgs) + 1
      /\ \A c \in 1..Len(msgs) : msgs'[c] = msgs[c]
      /\ msgs'[Len(msgs) + 1] = x
  BY <1>1, <1>4, <1>5, AppendProperties
<1>7. DOMAIN msgs' = 1..Len(msgs) + 1
  BY <1>6, LenProperties
<1> QED
  BY <1>1, <1>3, <1>5, <1>6, <1>7

\* Conversations and messages are never taken away.
LEMMA Growth == TypeOK /\ Steps /\ Placed /\ [Next]_vars => Grows
<1> SUFFICES ASSUME TypeOK, Steps, Placed, [Next]_vars PROVE Grows
  OBVIOUS
<1>1. /\ convs \in Seq(SUBSET Users) /\ Len(convs) \in Nat /\ DOMAIN convs = 1..Len(convs)
      /\ msgs \in Seq(Messages) /\ Len(msgs) \in Nat /\ DOMAIN msgs = 1..Len(msgs)
      /\ \A m \in DOMAIN msgs : msgs[m].conv \in DOMAIN convs
  BY Typed
<1>2. ASSUME UNCHANGED <<convs, msgs>> PROVE Grows
  BY <1>1, <1>2 DEF Grows
<1>3. ASSUME NEW j \in Places, CreateConversation(j) PROVE Grows
  <2>1. UNCHANGED msgs
    BY <1>3 DEF CreateConversation
  <2> QED
    BY <1>1, <1>3, <2>1, CreatesConv DEF Grows
<1>4. ASSUME NEW j \in Places, InsertMessage(j) PROVE Grows
  <2>1. UNCHANGED convs
    BY <1>4 DEF InsertMessage
  <2>2. /\ msgs' \in Seq(Messages) /\ Len(msgs') = Len(msgs) + 1 /\ DOMAIN msgs' = 1..Len(msgs) + 1
        /\ \A k \in DOMAIN msgs : msgs'[k] = msgs[k]
        /\ msgs'[Len(msgs) + 1].conv \in DOMAIN convs
    BY <1>4, InsertsMsg
  <2>3. \A m \in DOMAIN msgs' : msgs'[m].conv \in DOMAIN convs
    BY <1>1, <2>2
  <2> QED
    BY <1>1, <2>1, <2>2, <2>3 DEF Grows
<1>5. CASE \E j \in Places : LookUp(j) \/ SelectMessages(j) \/ Opened(j) \/ Loaded(j)
  BY <1>2, <1>5 DEF LookUp, SelectMessages, Opened, Loaded
<1>6. CASE \E j \in Places : HandleSend(j) \/ HandleGrokMessage(j) \/ ProcessGrokResponse(j)
  BY <1>2, <1>6 DEF HandleSend, HandleGrokMessage, ProcessGrokResponse, Publish
<1>7. CASE \E j \in Places : LoadFails(j) \/ SendFails(j) \/ GrokApologises(j)
  BY <1>2, <1>7 DEF LoadFails, SendFails, GrokApologises, Fails
<1>8. CASE \E j \in Places, u \in People : Send(u, j) \/ \E v \in Users : LoadConversation(u, v, j)
  BY <1>2, <1>8 DEF Send, LoadConversation
<1>9. CASE \E u \in People : Leave(u) \/ Hear(u) \/ Drop(u) \/ Reconnect(u)
  BY <1>2, <1>9 DEF Leave, Hear, Drop, Reconnect
<1>10. CASE UNCHANGED vars
  BY <1>2, <1>10 DEF vars
<1> QED
  BY <1>3, <1>4, <1>5, <1>6, <1>7, <1>8, <1>9, <1>10
  DEF Next, Server, Enter, TurnTo, OpenConversation

\* Every conversation is between two users.
LEMMA OfTwoKept == TypeOK /\ Steps /\ OfTwo /\ Placed /\ [Next]_vars => OfTwo'
<1> SUFFICES ASSUME TypeOK, Steps, OfTwo, Placed, [Next]_vars PROVE OfTwo'
  OBVIOUS
<1>1. ASSUME NEW j \in Places, CreateConversation(j) PROVE OfTwo'
  <2>1. DOMAIN convs = 1..Len(convs) /\ Len(convs) \in Nat
    BY Typed
  <2>2. /\ DOMAIN convs' = 1..Len(convs) + 1
        /\ \A c \in DOMAIN convs : convs'[c] = convs[c]
        /\ convs'[Len(convs) + 1] = Pair(j) /\ hand[j].user # hand[j].to
        /\ hand[j].user \in Users /\ hand[j].to \in Users
    BY <1>1, CreatesConv
  <2>3. SUFFICES ASSUME NEW c \in DOMAIN convs' PROVE \E x, y \in Users : x # y /\ convs'[c] = {x, y}
    BY DEF OfTwo
  <2>4. CASE c \in DOMAIN convs
    BY <2>2, <2>4 DEF OfTwo
  <2>5. CASE c = Len(convs) + 1
    BY <2>2, <2>5 DEF Pair
  <2> QED
    BY <2>1, <2>2, <2>4, <2>5
<1>2. ASSUME UNCHANGED convs PROVE OfTwo'
  BY <1>2 DEF OfTwo
<1>5. CASE \E j \in Places : LookUp(j) \/ SelectMessages(j) \/ Opened(j) \/ Loaded(j) \/ InsertMessage(j)
  BY <1>2, <1>5 DEF LookUp, SelectMessages, Opened, Loaded, InsertMessage
<1>6. CASE \E j \in Places : HandleSend(j) \/ HandleGrokMessage(j) \/ ProcessGrokResponse(j)
  BY <1>2, <1>6 DEF HandleSend, HandleGrokMessage, ProcessGrokResponse, Publish
<1>7. CASE \E j \in Places : LoadFails(j) \/ SendFails(j) \/ GrokApologises(j)
  BY <1>2, <1>7 DEF LoadFails, SendFails, GrokApologises, Fails
<1>8. CASE \E j \in Places, u \in People : Send(u, j) \/ \E v \in Users : LoadConversation(u, v, j)
  BY <1>2, <1>8 DEF Send, LoadConversation
<1>9. CASE \E u \in People : Leave(u) \/ Hear(u) \/ Drop(u) \/ Reconnect(u)
  BY <1>2, <1>9 DEF Leave, Hear, Drop, Reconnect
<1>10. CASE UNCHANGED vars
  BY <1>2, <1>10 DEF vars
<1> QED
  BY <1>1, <1>5, <1>6, <1>7, <1>8, <1>9, <1>10
  DEF Next, Server, Enter, TurnTo, OpenConversation

\* A pair has two elements.
LEMMA TwoCard ==
  ASSUME NEW x, NEW y, x # y
  PROVE  Cardinality({x, y}) = 2
<1>2. IsFiniteSet({x}) /\ Cardinality({x}) = 1 /\ y \notin {x}
  BY FS_Singleton
<1>3. Cardinality({x} \union {y}) = IF y \in {x} THEN Cardinality({x}) ELSE Cardinality({x}) + 1
  BY <1>2, FS_AddElement
<1>4. {x} \union {y} = {x, y}
  OBVIOUS
<1> QED
  BY <1>2, <1>3, <1>4

\* The pages stay pages.
LEMMA PagesKept == TypeOK /\ Steps /\ Placed /\ [Next]_vars => page' \in [People -> Pages]
<1> SUFFICES ASSUME TypeOK, Steps, Placed, [Next]_vars PROVE page' \in [People -> Pages]
  OBVIOUS
<1>1. page \in [People -> Pages] /\ online \in [People -> BOOLEAN] /\ \A u \in People : net[u] \in Seq(Nat)
  BY Typed
<1>2. ASSUME UNCHANGED page PROVE page' \in [People -> Pages]
  BY <1>1, <1>2
<1>3. CASE \E j \in Places : LookUp(j) \/ SelectMessages(j) \/ CreateConversation(j) \/ \E u \in People : Send(u, j)
  BY <1>2, <1>3 DEF LookUp, SelectMessages, CreateConversation, Send
<1>4. CASE \E j \in Places : SendFails(j) \/ GrokApologises(j)
  BY <1>2, <1>4 DEF SendFails, GrokApologises
<1>5. CASE \E j \in Places : HandleSend(j) \/ HandleGrokMessage(j) \/ ProcessGrokResponse(j)
  <2>1. PICK j \in Places : Publish(j)
    BY <1>5 DEF HandleSend, HandleGrokMessage, ProcessGrokResponse
  <2> QED
    BY <1>1, <2>1, PublishesPage DEF Shakes
<1>6. CASE \E j \in Places : InsertMessage(j)
  BY <1>1, <1>6, InsertsPage DEF Shakes
<1>7. CASE \E j \in Places : Opened(j)
  BY <1>1, <1>7, OpensPage
<1>8. CASE \E j \in Places : Loaded(j)
  BY <1>1, <1>8, LoadsPage
<1>9. CASE \E j \in Places : LoadFails(j)
  BY <1>1, <1>9, FailsPage
<1>10. CASE \E j \in Places, u \in People, v \in Users : LoadConversation(u, v, j)
  BY <1>1, <1>10, TurnsPage
<1>11. CASE \E u \in People : Leave(u)
  BY <1>1, <1>11, LeavesPage
<1>12. CASE \E u \in People : Hear(u)
  BY <1>1, <1>12, HearsPage
<1>13. CASE \E u \in People : Drop(u)
  BY <1>1, <1>13, DropsPage DEF Shakes
<1>14. CASE \E u \in People : Reconnect(u)
  BY <1>2, <1>14 DEF Reconnect
<1>15. CASE UNCHANGED vars
  BY <1>2, <1>15 DEF vars
<1> QED
  BY <1>3, <1>4, <1>5, <1>6, <1>7, <1>8, <1>9, <1>10, <1>11, <1>12, <1>13, <1>14, <1>15
  DEF Next, Server, Enter, TurnTo, OpenConversation

\* What is published reaches the browsers that are connected.
LEMMA PublishesNet ==
  ASSUME TypeOK, Steps, Counted, NEW j \in Places, Publish(j)
  PROVE  LET m == hand[j].got[1]
         IN  /\ m \in DOMAIN msgs /\ msgs[m].conv = hand[j].conv
             /\ net' \in [People -> Seq(DOMAIN msgs)]
             /\ \A u \in People : ~online[u] => net'[u] = net[u]
             /\ \A u \in People : online[u] =>
                  /\ Len(net[u]) \in Nat /\ DOMAIN net[u] = 1..Len(net[u])
                  /\ DOMAIN net'[u] = 1..Len(net[u]) + 1
                  /\ \A i \in DOMAIN net[u] : net'[u][i] = net[u][i]
                  /\ net'[u][Len(net[u]) + 1] = m
<1> DEFINE m == hand[j].got[1]
<1>1. m \in DOMAIN msgs /\ msgs[m].conv = hand[j].conv
  BY DEF Counted, Publish
<1>2. Len(hand[j].got) = 1 /\ hand[j].got \in Seq(Nat)
  BY JobsAre DEF Publish
<1>3. hand[j].got = <<m>>
  <2>1. <<m>> \in Seq(Nat) /\ Len(<<m>>) = 1 /\ <<m>>[1] = m
    BY <1>2, ElementOfSeq
  <2> QED
    BY <1>2, <2>1, SeqEqual
<1>4. net \in [People -> Seq(DOMAIN msgs)]
  BY Typed
<1>5. net' = [u \in People |-> IF online[u] THEN net[u] \o <<m>> ELSE net[u]]
  BY <1>3 DEF Publish
<1> HIDE DEF m
<1>6. ASSUME NEW u \in People
      PROVE  /\ Len(net[u]) \in Nat /\ DOMAIN net[u] = 1..Len(net[u])
             /\ net[u] \o <<m>> \in Seq(DOMAIN msgs)
             /\ DOMAIN (net[u] \o <<m>>) = 1..Len(net[u]) + 1
             /\ \A i \in DOMAIN net[u] : (net[u] \o <<m>>)[i] = net[u][i]
             /\ (net[u] \o <<m>>)[Len(net[u]) + 1] = m
  <2>1. net[u] \in Seq(DOMAIN msgs) /\ Len(net[u]) \in Nat /\ DOMAIN net[u] = 1..Len(net[u])
    BY <1>4, LenProperties
  <2>2. net[u] \o <<m>> = Append(net[u], m)
    BY <1>1, <2>1, AppendIsConcat
  <2>3. /\ Append(net[u], m) \in Seq(DOMAIN msgs) /\ Len(Append(net[u], m)) = Len(net[u]) + 1
        /\ \A i \in 1..Len(net[u]) : Append(net[u], m)[i] = net[u][i]
        /\ Append(net[u], m)[Len(net[u]) + 1] = m
    BY <1>1, <2>1, AppendProperties
  <2>4. DOMAIN Append(net[u], m) = 1..Len(net[u]) + 1
    BY <2>3, LenProperties
  <2> QED
    BY <2>1, <2>2, <2>3, <2>4
<1>7. net' \in [People -> Seq(DOMAIN msgs)]
  BY <1>4, <1>5, <1>6
<1> QED
  BY <1>1, <1>5, <1>6, <1>7 DEF m

\* A page hears the messages that are on their way to it, one by one.
LEMMA HearsNet ==
  ASSUME TypeOK, NEW u \in People, Hear(u)
  PROVE  /\ net' \in [People -> Seq(DOMAIN msgs)]
         /\ \A v \in People : v # u => net'[v] = net[v]
         /\ Len(net[u]) \in Nat \ {0} /\ DOMAIN net[u] = 1..Len(net[u]) /\ Head(net[u]) = net[u][1]
         /\ DOMAIN net'[u] = 1..Len(net[u]) - 1
         /\ \A i \in DOMAIN net'[u] : net'[u][i] = net[u][i + 1]
         /\ Head(net[u]) \in DOMAIN msgs
<1>1. net \in [People -> Seq(DOMAIN msgs)] /\ net[u] \in Seq(DOMAIN msgs) /\ net[u] # <<>>
  BY Typed DEF Hear
<1>2. Len(net[u]) \in Nat \ {0} /\ DOMAIN net[u] = 1..Len(net[u])
  BY <1>1, LenProperties, EmptySeq
<1>3. /\ Head(net[u]) \in DOMAIN msgs /\ Tail(net[u]) \in Seq(DOMAIN msgs) /\ Len(Tail(net[u])) = Len(net[u]) - 1
      /\ \A i \in 1..Len(Tail(net[u])) : Tail(net[u])[i] = net[u][i + 1]
  BY <1>1, HeadTailProperties
<1>4. DOMAIN Tail(net[u]) = 1..Len(net[u]) - 1
  BY <1>3, LenProperties
<1>5. Head(net[u]) = net[u][1]
  BY <1>1, <1>2
<1>6. net' = [net EXCEPT ![u] = Tail(net[u])]
  BY DEF Hear
<1> QED
  BY <1>1, <1>2, <1>3, <1>4, <1>5, <1>6

\* Every step keeps the types.
LEMMA TypesKept == TypeOK /\ Steps /\ OfTwo /\ Placed /\ Counted /\ [Next]_vars => TypeOK'
<1> SUFFICES ASSUME TypeOK, Steps, OfTwo, Placed, Counted, [Next]_vars PROVE TypeOK'
  OBVIOUS
<1> DEFINE Sent == net' \in [People -> Seq(DOMAIN msgs')]
           Joined == online' \in [People -> BOOLEAN]
           Bound == opens' \in 0..MaxOpens /\ sends' \in 0..MaxMessages /\ drops' \in 0..MaxDrops
           Noted == twice' \subseteq SUBSET Users /\ mute' \subseteq DOMAIN convs'
<1>g. Grows
  BY Growth
<1>c. \A c \in DOMAIN convs' : Cardinality(convs'[c]) = 2
  <2>1. OfTwo'
    BY OfTwoKept
  <2>2. SUFFICES ASSUME NEW c \in DOMAIN convs' PROVE Cardinality(convs'[c]) = 2
    OBVIOUS
  <2>3. PICK x, y \in Users : x # y /\ convs'[c] = {x, y}
    BY <2>1 DEF OfTwo
  <2>4. Cardinality({x, y}) = 2
    BY <2>3, TwoCard
  <2> QED
    BY <2>3, <2>4
<1>h. hand' \in [Places -> Work \union {NoWork}]
  <2>1. Steps'
    BY StepsKept
  <2> QED
    BY <2>1 DEF Steps, JobOK
<1>p. page' \in [People -> Pages]
  BY PagesKept
<1>t. /\ net \in [People -> Seq(DOMAIN msgs)] /\ online \in [People -> BOOLEAN]
      /\ opens \in 0..MaxOpens /\ sends \in 0..MaxMessages /\ drops \in 0..MaxDrops
      /\ twice \subseteq SUBSET Users /\ mute \subseteq DOMAIN convs
      /\ DOMAIN convs = 1..Len(convs) /\ Len(convs) \in Nat /\ DOMAIN msgs = 1..Len(msgs) /\ Len(msgs) \in Nat
  BY Typed DEF TypeOK
<1>s. DOMAIN msgs \subseteq DOMAIN msgs' /\ DOMAIN convs \subseteq DOMAIN convs'
  BY <1>t, <1>g DEF Grows
<1>o. MaxOpens \in Nat
  BY LenProperties DEF MaxOpens
<1>n. ASSUME UNCHANGED net PROVE Sent
  <2>1. ASSUME NEW u \in People PROVE net[u] \in Seq(DOMAIN msgs')
    <3>1. net[u] \in Seq(DOMAIN msgs)
      BY <1>t
    <3> QED
      BY <1>s, <3>1, SeqMonotonic
  <2> QED
    BY <1>n, <1>t, <2>1
<1>i. ASSUME UNCHANGED online PROVE Joined
  BY <1>i, <1>t
<1>b. ASSUME UNCHANGED <<opens, sends, drops>> PROVE Bound
  BY <1>b, <1>t
<1>m. ASSUME UNCHANGED <<twice, mute>> PROVE Noted
  BY <1>m, <1>t, <1>s
<1> DEFINE All == Sent /\ Joined /\ Bound /\ Noted
<1>1. ASSUME NEW j \in Places, LookUp(j) PROVE All
  <2>1. hand[j].user \in Users /\ hand[j].to \in Users
    BY <1>1, JobsAre DEF LookUp, Arrives, Users
  <2>2. {hand[j].user, hand[j].to} \in SUBSET Users
    BY <2>1
  <2>3. twice' \subseteq SUBSET Users /\ mute' = mute
    BY <1>1, <2>2, <1>t DEF LookUp
  <2> QED
    BY <1>1, <2>3, <1>t, <1>s, <1>n, <1>i, <1>b DEF LookUp
<1>2. ASSUME NEW j \in Places, CreateConversation(j) \/ SelectMessages(j) \/ InsertMessage(j) \/ Opened(j) \/ Loaded(j) PROVE All
  BY <1>2, <1>n, <1>i, <1>b, <1>m DEF CreateConversation, SelectMessages, InsertMessage, Opened, Loaded
<1>3. ASSUME NEW j \in Places, HandleSend(j) \/ HandleGrokMessage(j) \/ ProcessGrokResponse(j) PROVE All
  <2>1. Publish(j)
    BY <1>3 DEF HandleSend, HandleGrokMessage, ProcessGrokResponse
  <2>2. msgs' = msgs
    BY <2>1 DEF Publish
  <2>3. Sent
    BY <2>1, <2>2, PublishesNet
  <2> QED
    BY <2>1, <2>3, <1>i, <1>b, <1>m DEF Publish
<1>4. ASSUME NEW j \in Places, Fails(j) PROVE Sent /\ Joined /\ Noted /\ opens' = opens /\ drops' \in 0..MaxDrops
  <2>1. hand[j].at = "count" => hand[j].conv \in DOMAIN convs
    BY <1>t, JobsAre DEF Placed
  <2>2. mute' \subseteq DOMAIN convs' /\ twice' = twice
    BY <1>4, <2>1, <1>t, <1>s DEF Fails
  <2> QED
    BY <1>4, <2>2, <1>t, <1>n, <1>i DEF Fails
<1>5. ASSUME NEW j \in Places, LoadFails(j) \/ SendFails(j) PROVE All
  BY <1>4, <1>5, <1>t DEF LoadFails, SendFails
<1>6. ASSUME NEW j \in Places, GrokApologises(j) PROVE All
  BY <1>4, <1>6, <1>t DEF GrokApologises
<1>7. ASSUME NEW j \in Places, NEW u \in People, Send(u, j) PROVE All
  <2>1. sends' \in 0..MaxMessages
    BY <1>7, <1>t DEF Send
  <2> QED
    BY <1>7, <2>1, <1>t, <1>n, <1>i, <1>m DEF Send
<1>8. ASSUME NEW j \in Places, NEW u \in People, NEW v \in Users, LoadConversation(u, v, j) PROVE All
  <2>1. opens' \in 0..MaxOpens
    BY <1>8, <1>t, <1>o, SMTT(40) DEF LoadConversation
  <2> QED
    BY <1>8, <2>1, <1>t, <1>n, <1>i, <1>m DEF LoadConversation
<1>9. ASSUME NEW u \in People, Leave(u) PROVE All
  BY <1>9, <1>n, <1>i, <1>b, <1>m DEF Leave
<1>10. ASSUME NEW u \in People, Hear(u) PROVE All
  <2>1. Sent
    BY <1>10, HearsNet DEF Hear
  <2> QED
    BY <1>10, <2>1, <1>i, <1>b, <1>m DEF Hear
<1>11. ASSUME NEW u \in People, Drop(u) PROVE All
  <2>1. <<>> \in Seq(DOMAIN msgs)
    OBVIOUS
  <2>2. Sent
    BY <1>11, <2>1, <1>t DEF Drop
  <2>3. Joined
    BY <1>11, <1>t DEF Drop
  <2>4. Bound
    BY <1>11, <1>t DEF Drop
  <2> QED
    BY <1>11, <2>2, <2>3, <2>4, <1>m DEF Drop
<1>12. ASSUME NEW u \in People, Reconnect(u) PROVE All
  <2>1. Joined
    BY <1>12, <1>t DEF Reconnect
  <2> QED
    BY <1>12, <2>1, <1>n, <1>b, <1>m DEF Reconnect
<1>13. ASSUME UNCHANGED vars PROVE All
  BY <1>13, <1>n, <1>i, <1>b, <1>m DEF vars
<1> HIDE DEF All
<1>14. All
  BY <1>1, <1>2, <1>3, <1>5, <1>6, <1>7, <1>8, <1>9, <1>10, <1>11, <1>12, <1>13
  DEF Next, Server, Enter, TurnTo, OpenConversation
<1> QED
  BY <1>14, <1>g, <1>c, <1>h, <1>p DEF TypeOK, Grows, All

\* Ids of conversations stay those of conversations.
LEMMA PlacedKept == TypeOK /\ Steps /\ Placed /\ [Next]_vars => Placed'
<1> SUFFICES ASSUME TypeOK, Steps, Placed, [Next]_vars PROVE Placed'
  OBVIOUS
<1> DEFINE JobsIn == \A j \in Places :
                       /\ hand'[j].conv \in 0..Len(convs')
                       /\ hand'[j].at \in {"insert", "count", "select", "answer"} => hand'[j].conv # 0
           PagesIn == \A u \in People : /\ page'[u].conv \in 0..Len(convs') /\ page'[u].sub \in 0..Len(convs')
                                        /\ page'[u].with # u
           All == JobsIn /\ PagesIn
<1>g. Len(convs) \in Nat /\ Len(convs') \in Nat /\ Len(convs') >= Len(convs)
  BY Growth, Typed DEF Grows
<1>t. /\ convs \in Seq(SUBSET Users) /\ DOMAIN convs = 1..Len(convs) /\ Len(msgs) \in Nat
      /\ page \in [People -> Pages] /\ online \in [People -> BOOLEAN] /\ \A u \in People : net[u] \in Seq(Nat)
      /\ \A c : MessagesOf(c) \in SUBSET Nat /\ IsFiniteSet(MessagesOf(c))
  BY Typed
<1>k. \A k \in Places : /\ hand[k].conv \in 0..Len(convs')
                        /\ hand[k].at \in {"insert", "count", "select", "answer"} => hand[k].conv # 0
  BY <1>g DEF Placed
<1>q. \A u \in People : /\ page[u].conv \in 0..Len(convs') /\ page[u].sub \in 0..Len(convs') /\ page[u].with # u
  BY <1>g DEF Placed
<1>o. ASSUME NEW j \in Places, Only(j), hand'[j].conv \in 0..Len(convs'),
             hand'[j].at \in {"insert", "count", "select", "answer"} => hand'[j].conv # 0
      PROVE  JobsIn
  BY <1>o, <1>k DEF Only
<1>d. ASSUME NEW j \in Places, Done(j) PROVE JobsIn
  <2>1. Only(j) /\ hand'[j].conv = 0 /\ hand'[j].at = "idle"
    BY <1>d, EndIs
  <2> QED
    BY <2>1, <1>o, <1>g
<1>p. ASSUME UNCHANGED page PROVE PagesIn
  BY <1>p, <1>q
<1>s. ASSUME Shakes PROVE PagesIn
  BY <1>s, <1>q DEF Shakes
<1>1. ASSUME NEW j \in Places, LookUp(j) PROVE All
  <2>1. /\ Only(j)
        /\ \/ hand'[j].at = "create" /\ hand'[j].conv = hand[j].conv
           \/ hand'[j].conv \in Between(hand[j].user, hand[j].to)
    BY <1>1, <1>t, LooksIt
  <2>2. Between(hand[j].user, hand[j].to) \subseteq 1..Len(convs)
    BY <1>t DEF Between
  <2>3. /\ hand'[j].conv \in 0..Len(convs')
        /\ hand'[j].at \in {"insert", "count", "select", "answer"} => hand'[j].conv # 0
    BY <2>1, <2>2, <1>k, <1>g
  <2> QED
    BY <1>1, <2>1, <2>3, <1>o, <1>p DEF LookUp
<1>2. ASSUME NEW j \in Places, CreateConversation(j) PROVE All
  <2>1. Only(j) /\ hand'[j].conv = Len(convs) + 1
    BY <1>2, <1>g, CreatesIt
  <2>2. Len(convs') = Len(convs) + 1
    BY <1>2, CreatesConv
  <2>3. hand'[j].conv \in 0..Len(convs') /\ hand'[j].conv # 0
    BY <2>1, <2>2, <1>g
  <2> QED
    BY <1>2, <2>1, <2>3, <1>o, <1>p DEF CreateConversation
<1>3. ASSUME NEW j \in Places, SelectMessages(j) PROVE All
  <2>1. Only(j) /\ hand'[j].conv = hand[j].conv /\ hand[j].at = "select"
    BY <1>3, <1>t, SelectsIt
  <2> QED
    BY <1>3, <2>1, <1>o, <1>k, <1>p DEF SelectMessages
<1>4. ASSUME NEW j \in Places, InsertMessage(j) PROVE All
  <2>1. /\ Only(j) /\ hand'[j].conv = hand[j].conv /\ hand[j].at \in {"insert", "sent"}
        /\ hand[j].at = "sent" => hand[j].conv # 0
    BY <1>4, <1>t, InsertsIt
  <2>2. hand'[j].conv \in 0..Len(convs') /\ hand'[j].conv # 0
    BY <2>1, <1>k
  <2>3. Shakes
    BY <1>4, <1>t, InsertsPage
  <2> QED
    BY <2>1, <2>2, <2>3, <1>o, <1>s
<1>5. ASSUME NEW j \in Places, HandleSend(j) \/ ProcessGrokResponse(j) PROVE All
  <2>1. Done(j) /\ Shakes
    BY <1>5, <1>t, PublishesPage DEF HandleSend, ProcessGrokResponse
  <2> QED
    BY <2>1, <1>d, <1>s
<1>6. ASSUME NEW j \in Places, HandleGrokMessage(j) PROVE All
  <2>1. Only(j) /\ hand'[j].conv = hand[j].conv /\ hand[j].at = "count"
    BY <1>6, GrokTakesIt
  <2>2. Shakes
    BY <1>6, <1>t, PublishesPage DEF HandleGrokMessage
  <2>3. hand'[j].conv \in 0..Len(convs') /\ hand'[j].conv # 0
    BY <2>1, <1>k
  <2> QED
    BY <2>1, <2>2, <2>3, <1>o, <1>s
<1>7. ASSUME NEW j \in Places, GrokApologises(j) PROVE All
  <2>1. Only(j) /\ hand'[j].conv = hand[j].conv /\ hand[j].at \in {"insert", "count"}
    BY <1>7, ApologisesIt
  <2>2. hand'[j].conv \in 0..Len(convs') /\ hand'[j].conv # 0
    BY <2>1, <1>k
  <2> QED
    BY <1>7, <2>1, <2>2, <1>o, <1>p DEF GrokApologises
<1>8. ASSUME NEW j \in Places, SendFails(j) PROVE All
  BY <1>8, <1>d, <1>p DEF SendFails
<1>9. ASSUME NEW j \in Places, LoadFails(j) PROVE All
  <2>1. /\ hand[j].user \in People /\ OnlyPage(hand[j].user)
        /\ LET p == page'[hand[j].user]
           IN  p.with = page[hand[j].user].with /\ p.conv = page[hand[j].user].conv /\ p.sub = page[hand[j].user].sub
    BY <1>9, <1>t, FailsPage
  <2>2. PagesIn
    BY <2>1, <1>q DEF OnlyPage
  <2> QED
    BY <1>9, <2>2, <1>d DEF LoadFails
<1>10. ASSUME NEW j \in Places, Loaded(j) PROVE All
  <2>1. /\ hand[j].user \in People /\ OnlyPage(hand[j].user)
        /\ LET p == page'[hand[j].user]
           IN  p.with = page[hand[j].user].with /\ p.conv = page[hand[j].user].conv /\ p.sub = page[hand[j].user].sub
    BY <1>10, <1>t, LoadsPage
  <2>2. PagesIn
    BY <2>1, <1>q DEF OnlyPage
  <2> QED
    BY <1>10, <2>2, <1>d DEF Loaded
<1>11. ASSUME NEW j \in Places, Opened(j) PROVE All
  <2>1. /\ Only(j) /\ hand[j].kind = "open" /\ hand[j].at = "answer"
        /\ hand[j].live => hand'[j].conv = hand[j].conv
        /\ ~hand[j].live => hand'[j] = NoWork
    BY <1>11, OpensIt
  <2>2. /\ hand[j].user \in People /\ OnlyPage(hand[j].user)
        /\ ~hand[j].live => page' = page
        /\ hand[j].live =>
              LET p == page'[hand[j].user]
              IN  p.with = page[hand[j].user].with /\ p.conv = hand[j].conv /\ p.sub = hand[j].conv
    BY <1>11, <1>t, OpensPage
  <2>3. /\ hand'[j].conv \in 0..Len(convs')
        /\ hand'[j].at \in {"insert", "count", "select", "answer"} => hand'[j].conv # 0
    BY <2>1, <1>k, <1>g, NoWorkFields
  <2>4. PagesIn
    BY <2>2, <1>q, <1>k DEF OnlyPage
  <2> QED
    BY <2>1, <2>3, <2>4, <1>o
<1>12. ASSUME NEW j \in Places, NEW u \in People, Send(u, j) PROVE All
  <2>0. page[u] \in Pages
    BY <1>t
  <2>1. Only(j) /\ hand'[j].conv = page[u].conv /\ hand'[j].at = "sent"
    BY <1>12, <2>0, SendsIt
  <2> QED
    BY <1>12, <2>1, <1>o, <1>q, <1>p DEF Send
<1>13. ASSUME NEW j \in Places, NEW u \in People, NEW v \in Users, LoadConversation(u, v, j) PROVE All
  <2>1. /\ hand'[j].conv = 0 /\ hand'[j].at = "look"
        /\ \A k \in Places \ {j} : hand'[k].conv = hand[k].conv /\ hand'[k].at = hand[k].at
    BY <1>13, Turns
  <2>2. JobsIn
    BY <2>1, <1>k, <1>g
  <2>3. /\ OnlyPage(u) /\ u # v
        /\ page'[u].with = v /\ page'[u].conv = page[u].conv /\ page'[u].sub = 0
    BY <1>13, <1>t, TurnsPage
  <2>4. PagesIn
    BY <2>3, <1>q, <1>g DEF OnlyPage
  <2> QED
    BY <2>2, <2>4
<1>14. ASSUME NEW u \in People, Leave(u) PROVE All
  <2>1. \A k \in Places : hand'[k].conv = hand[k].conv /\ hand'[k].at = hand[k].at
    BY <1>14, UnheardIs DEF Leave
  <2>2. JobsIn
    BY <2>1, <1>k
  <2>3. /\ OnlyPage(u) /\ page'[u].with = Nobody /\ page'[u].conv = 0 /\ page'[u].sub = 0
    BY <1>14, <1>t, LeavesPage
  <2>4. PagesIn
    BY <2>3, <1>q, <1>g DEF OnlyPage
  <2> QED
    BY <2>2, <2>4
<1>15. ASSUME NEW u \in People, Hear(u) PROVE All
  <2>1. /\ OnlyPage(u)
        /\ page'[u].with = page[u].with /\ page'[u].conv = page[u].conv /\ page'[u].sub = page[u].sub
    BY <1>15, <1>t, HearsPage
  <2>2. PagesIn
    BY <2>1, <1>q DEF OnlyPage
  <2>3. JobsIn
    BY <1>15, <1>k DEF Hear
  <2> QED
    BY <2>2, <2>3
<1>16. ASSUME NEW u \in People, Drop(u) PROVE All
  <2>1. Shakes
    BY <1>16, <1>t, DropsPage
  <2>2. \A k \in Places : hand'[k] = hand[k] \/ hand'[k] = NoWork
    BY <1>16, LosesIt
  <2>3. JobsIn
    BY <2>2, <1>k, <1>g, NoWorkFields
  <2> QED
    BY <2>1, <2>3, <1>s
<1>17. ASSUME NEW u \in People, Reconnect(u) PROVE All
  BY <1>17, <1>k, <1>p DEF Reconnect
<1>18. ASSUME UNCHANGED vars PROVE All
  BY <1>18, <1>k, <1>p DEF vars
<1> HIDE DEF All
<1>19. All
  BY <1>1, <1>2, <1>3, <1>4, <1>5, <1>6, <1>7, <1>8, <1>9, <1>10, <1>11, <1>12, <1>13, <1>14, <1>15, <1>16, <1>17, <1>18
  DEF Next, Server, Enter, TurnTo, OpenConversation
<1> QED
  BY <1>19 DEF Placed, All

\* Two users have one conversation, whatever happens next.
LEMMA OneConversationKept == TypeOK /\ Steps /\ Placed /\ OneConversation /\ [Next]_vars => OneConversation'
<1> SUFFICES ASSUME TypeOK, Steps, Placed, OneConversation, [Next]_vars PROVE OneConversation'
  OBVIOUS
<1>t. /\ convs \in Seq(SUBSET Users) /\ Len(convs) \in Nat /\ DOMAIN convs = 1..Len(convs) /\ Len(msgs) \in Nat
      /\ page \in [People -> Pages]
      /\ \A c : MessagesOf(c) \in SUBSET Nat /\ IsFiniteSet(MessagesOf(c))
  BY Typed
<1>s. ASSUME UNCHANGED <<convs, twice>>,
             \A k \in Places : hand'[k].at = "create" => hand[k].at = "create" /\ hand'[k].user = hand[k].user /\ hand'[k].to = hand[k].to
      PROVE  OneConversation'
  BY <1>s DEF OneConversation, OneCreate, Uncreated, CalmOneConversation, Pair
<1>o. ASSUME NEW j \in Places, Only(j), hand'[j].at # "create", UNCHANGED <<convs, twice>> PROVE OneConversation'
  <2>1. \A k \in Places : hand'[k].at = "create" => hand'[k] = hand[k]
    BY <1>o DEF Only
  <2> QED
    BY <2>1, <1>o, <1>s
<1>d. ASSUME NEW j \in Places, Done(j), UNCHANGED <<convs, twice>> PROVE OneConversation'
  <2>1. Only(j) /\ hand'[j].at = "idle"
    BY <1>d, EndIs
  <2> QED
    BY <2>1, <1>o, <1>d
<1>1. ASSUME NEW j \in Places, LookUp(j) PROVE OneConversation'
  <2>1. /\ Only(j) /\ hand[j].at \in {"look", "sent"}
        /\ hand'[j].user = hand[j].user /\ hand'[j].to = hand[j].to
        /\ \/ hand'[j].at = "create" /\ Between(hand[j].user, hand[j].to) = {}
           \/ /\ hand'[j].at = IF hand[j].kind = "send" THEN "insert" ELSE "answer"
              /\ hand'[j].conv \in Between(hand[j].user, hand[j].to)
    BY <1>1, <1>t, LooksIt
  <2>2. convs' = convs
    BY <1>1 DEF LookUp
  <2>3. CASE Between(hand[j].user, hand[j].to) = {}
    <3>1. hand'[j].at = "create" /\ Pair(j)' = Pair(j)
      BY <2>1, <2>3 DEF Pair
    <3>2. twice' = IF \E i \in Places : hand[i].at = "create" /\ Pair(i) = Pair(j) THEN twice \union {Pair(j)} ELSE twice
      BY <1>1, <2>3 DEF LookUp, Pair
    <3>3. \A k \in Places : k # j => hand'[k] = hand[k] /\ Pair(k)' = Pair(k)
      BY <2>1 DEF Only, Pair
    <3>4. \A c \in DOMAIN convs : convs[c] # Pair(j)
      BY <2>3 DEF Between, Pair
    <3> HIDE DEF Pair
    <3>5. twice \subseteq twice'
      BY <3>2
    <3>6. OneCreate'
      <4> SUFFICES ASSUME NEW i \in Places, NEW k \in Places, i # k, hand'[i].at = "create", hand'[k].at = "create",
                          Pair(i)' = Pair(k)'
                   PROVE  Pair(k)' \in twice'
        BY DEF OneCreate
      <4>1. CASE i # j /\ k # j
        BY <4>1, <3>3, <3>5 DEF OneConversation, OneCreate
      <4>2. CASE i = j \/ k = j
        BY <4>2, <3>1, <3>2, <3>3
      <4> QED
        BY <4>1, <4>2
    <3>7. Uncreated'
      <4> SUFFICES ASSUME NEW k \in Places, hand'[k].at = "create", Pair(k)' \notin twice', NEW c \in DOMAIN convs'
                   PROVE  convs'[c] # Pair(k)'
        BY DEF Uncreated
      <4>1. CASE k = j
        BY <4>1, <3>1, <3>4, <2>2
      <4>2. CASE k # j
        BY <4>2, <3>3, <3>5, <2>2 DEF OneConversation, Uncreated
      <4> QED
        BY <4>1, <4>2
    <3>8. CalmOneConversation'
      BY <2>2, <3>5 DEF OneConversation, CalmOneConversation
    <3> QED
      BY <3>6, <3>7, <3>8 DEF OneConversation
  <2>4. CASE Between(hand[j].user, hand[j].to) # {}
    <3>1. twice' = twice
      BY <1>1, <2>4 DEF LookUp
    <3>2. hand'[j].at # "create"
      BY <1>1, <2>1, <2>4, <1>t, LooksIt
    <3> QED
      BY <2>1, <2>2, <3>1, <3>2, <1>o
  <2> QED
    BY <2>3, <2>4
<1>2. ASSUME NEW j \in Places, CreateConversation(j) PROVE OneConversation'
  <2>1. Only(j) /\ hand[j].at = "create" /\ hand'[j].at # "create"
    BY <1>2, <1>t, CreatesIt
  <2>2. /\ Len(convs') = Len(convs) + 1 /\ DOMAIN convs' = 1..Len(convs) + 1
        /\ \A c \in DOMAIN convs : convs'[c] = convs[c]
        /\ convs'[Len(convs) + 1] = Pair(j)
    BY <1>2, CreatesConv
  <2>3. twice' = twice
    BY <1>2 DEF CreateConversation
  <2>4. \A k \in Places : k # j => hand'[k] = hand[k] /\ Pair(k)' = Pair(k)
    BY <2>1 DEF Only, Pair
  <2> HIDE DEF Pair
  <2>5. OneCreate'
    BY <2>1, <2>3, <2>4 DEF OneConversation, OneCreate
  <2>6. Uncreated'
    <3> SUFFICES ASSUME NEW k \in Places, hand'[k].at = "create", Pair(k)' \notin twice', NEW c \in DOMAIN convs'
                 PROVE  convs'[c] # Pair(k)'
      BY DEF Uncreated
    <3>1. k # j /\ hand[k].at = "create" /\ Pair(k)' = Pair(k) /\ Pair(k) \notin twice
      BY <2>1, <2>3, <2>4
    <3>2. CASE c \in DOMAIN convs
      BY <2>2, <3>1, <3>2 DEF OneConversation, Uncreated
    <3>3. CASE c = Len(convs) + 1
      BY <2>1, <2>2, <3>1, <3>3 DEF OneConversation, OneCreate
    <3> QED
      BY <1>t, <2>2, <3>2, <3>3
  <2>7. CalmOneConversation'
    <3> SUFFICES ASSUME NEW c \in DOMAIN convs', NEW d \in DOMAIN convs', c # d, convs'[c] = convs'[d]
                 PROVE  convs'[c] \in twice'
      BY DEF CalmOneConversation
    <3>1. CASE c \in DOMAIN convs /\ d \in DOMAIN convs
      BY <2>2, <2>3, <3>1 DEF OneConversation, CalmOneConversation
    <3>2. CASE c \in DOMAIN convs /\ d = Len(convs) + 1
      BY <2>1, <2>2, <2>3, <3>2 DEF OneConversation, Uncreated
    <3>3. CASE d \in DOMAIN convs /\ c = Len(convs) + 1
      BY <2>1, <2>2, <2>3, <3>3 DEF OneConversation, Uncreated
    <3> QED
      BY <1>t, <2>2, <3>1, <3>2, <3>3
  <2> QED
    BY <2>5, <2>6, <2>7 DEF OneConversation
<1>3. ASSUME NEW j \in Places, SelectMessages(j) PROVE OneConversation'
  <2>1. Only(j) /\ hand'[j].at = "answer"
    BY <1>3, <1>t, SelectsIt
  <2> QED
    BY <1>3, <2>1, <1>o DEF SelectMessages
<1>4. ASSUME NEW j \in Places, InsertMessage(j) PROVE OneConversation'
  <2>1. Only(j) /\ hand'[j].at = "count"
    BY <1>4, <1>t, InsertsIt
  <2> QED
    BY <1>4, <2>1, <1>o DEF InsertMessage
<1>5. ASSUME NEW j \in Places, HandleSend(j) \/ ProcessGrokResponse(j) PROVE OneConversation'
  BY <1>5, <1>d DEF HandleSend, ProcessGrokResponse, Publish
<1>6. ASSUME NEW j \in Places, HandleGrokMessage(j) PROVE OneConversation'
  <2>1. Only(j) /\ hand'[j].at = "insert"
    BY <1>6, GrokTakesIt
  <2> QED
    BY <1>6, <2>1, <1>o DEF HandleGrokMessage, Publish
<1>7. ASSUME NEW j \in Places, GrokApologises(j) PROVE OneConversation'
  <2>1. Only(j) /\ hand'[j].at = "insert"
    BY <1>7, ApologisesIt
  <2> QED
    BY <1>7, <2>1, <1>o DEF GrokApologises, Fails
<1>8. ASSUME NEW j \in Places, SendFails(j) \/ LoadFails(j) \/ Loaded(j) PROVE OneConversation'
  BY <1>8, <1>d DEF SendFails, LoadFails, Loaded, Fails
<1>9. ASSUME NEW j \in Places, Opened(j) PROVE OneConversation'
  <2>1. Only(j) /\ hand'[j].at # "create"
    BY <1>9, OpensIt, NoWorkFields
  <2> QED
    BY <1>9, <2>1, <1>o DEF Opened
<1>10. ASSUME NEW j \in Places, NEW u \in People, Send(u, j) PROVE OneConversation'
  <2>0. page[u] \in Pages
    BY <1>t
  <2>1. Only(j) /\ hand'[j].at = "sent"
    BY <1>10, <2>0, SendsIt
  <2> QED
    BY <1>10, <2>1, <1>o DEF Send
<1>11. ASSUME NEW j \in Places, NEW u \in People, NEW v \in Users, LoadConversation(u, v, j) PROVE OneConversation'
  <2>1. /\ hand'[j].at = "look"
        /\ \A k \in Places \ {j} : hand'[k].user = hand[k].user /\ hand'[k].to = hand[k].to /\ hand'[k].at = hand[k].at
    BY <1>11, Turns
  <2> QED
    BY <1>11, <2>1, <1>s DEF LoadConversation
<1>12. ASSUME NEW u \in People, Leave(u) PROVE OneConversation'
  <2>1. \A k \in Places : hand'[k].user = hand[k].user /\ hand'[k].to = hand[k].to /\ hand'[k].at = hand[k].at
    BY <1>12, UnheardIs DEF Leave
  <2> QED
    BY <1>12, <2>1, <1>s DEF Leave
<1>13. ASSUME NEW u \in People, Hear(u) \/ Reconnect(u) PROVE OneConversation'
  BY <1>13, <1>s DEF Hear, Reconnect
<1>14. ASSUME NEW u \in People, Drop(u) PROVE OneConversation'
  <2>1. \A k \in Places : hand'[k] = hand[k] \/ hand'[k] = NoWork
    BY <1>14, LosesIt
  <2> QED
    BY <1>14, <2>1, <1>s, NoWorkFields DEF Drop
<1>15. ASSUME UNCHANGED vars PROVE OneConversation'
  BY <1>15, <1>s DEF vars
<1> QED
  BY <1>1, <1>2, <1>3, <1>4, <1>5, <1>6, <1>7, <1>8, <1>9, <1>10, <1>11, <1>12, <1>13, <1>14, <1>15
  DEF Next, Server, Enter, TurnTo, OpenConversation

\* What the pages wait for was waited for before.
KeepsLoaders ==
  \A k \in Places :
    hand'[k].kind \in {"open", "history"} /\ hand'[k].live =>
      /\ hand[k].kind = hand'[k].kind /\ hand[k].live /\ hand[k].user = hand'[k].user
      /\ hand[k].to = hand'[k].to
      /\ hand[k].kind = "history" => hand[k].conv = hand'[k].conv

\* The pages stay where they are.
KeepsPages ==
  \A u \in People :
    /\ page'[u].with = page[u].with /\ page'[u].conv = page[u].conv /\ page'[u].sub = page[u].sub
    /\ page'[u].load = page[u].load

\* The steps that are not about what a page waits for.
Aside ==
  \/ \E j \in Places :
       \/ LookUp(j) \/ CreateConversation(j) \/ SelectMessages(j)
       \/ InsertMessage(j) \/ HandleSend(j) \/ HandleGrokMessage(j) \/ ProcessGrokResponse(j)
       \/ SendFails(j) \/ GrokApologises(j)
       \/ \E u \in People : Send(u, j)
  \/ \E u \in People : Hear(u) \/ Drop(u) \/ Reconnect(u)
  \/ UNCHANGED vars

\* Those steps change neither what a page waits for nor where it is.
LEMMA Asides == TypeOK /\ Steps /\ Placed /\ Aside => KeepsLoaders /\ KeepsPages
<1> SUFFICES ASSUME TypeOK, Steps, Placed, Aside PROVE KeepsLoaders /\ KeepsPages
  OBVIOUS
<1>t. /\ convs \in Seq(SUBSET Users) /\ Len(convs) \in Nat /\ Len(msgs) \in Nat
      /\ page \in [People -> Pages] /\ online \in [People -> BOOLEAN] /\ \A u \in People : net[u] \in Seq(Nat)
      /\ \A c : MessagesOf(c) \in SUBSET Nat /\ IsFiniteSet(MessagesOf(c))
  BY Typed
<1>o. ASSUME NEW j \in Places, Only(j),
             hand'[j].kind \in {"open", "history"} /\ hand'[j].live =>
                 /\ hand[j].kind = hand'[j].kind /\ hand[j].live /\ hand[j].user = hand'[j].user
                 /\ hand[j].to = hand'[j].to
                 /\ hand[j].kind = "history" => hand[j].conv = hand'[j].conv
      PROVE  KeepsLoaders
  BY <1>o DEF Only, KeepsLoaders
<1>d. ASSUME NEW j \in Places, Done(j) PROVE KeepsLoaders
  <2>1. Only(j) /\ hand'[j].kind = "none"
    BY <1>d, EndIs
  <2> QED
    BY <2>1, <1>o
<1>p. ASSUME UNCHANGED page PROVE KeepsPages
  BY <1>p DEF KeepsPages
<1>s. ASSUME Shakes PROVE KeepsPages
  BY <1>s DEF KeepsPages, Shakes
<1>1. ASSUME NEW j \in Places, LookUp(j) PROVE KeepsLoaders /\ KeepsPages
  <2>1. /\ Only(j) /\ hand[j].kind \in {"open", "send"}
        /\ hand'[j].kind = hand[j].kind /\ hand'[j].user = hand[j].user /\ hand'[j].to = hand[j].to
        /\ hand'[j].live = hand[j].live
    BY <1>1, <1>t, LooksIt
  <2>2. UNCHANGED page
    BY <1>1 DEF LookUp
  <2> QED
    BY <2>1, <2>2, <1>o, <1>p
<1>2. ASSUME NEW j \in Places, CreateConversation(j) PROVE KeepsLoaders /\ KeepsPages
  <2>1. /\ Only(j) /\ hand[j].kind \in {"open", "send"}
        /\ hand'[j].kind = hand[j].kind /\ hand'[j].user = hand[j].user /\ hand'[j].to = hand[j].to
        /\ hand'[j].live = hand[j].live
    BY <1>2, <1>t, CreatesIt
  <2>2. UNCHANGED page
    BY <1>2 DEF CreateConversation
  <2> QED
    BY <2>1, <2>2, <1>o, <1>p
<1>3. ASSUME NEW j \in Places, SelectMessages(j) PROVE KeepsLoaders /\ KeepsPages
  <2>1. /\ Only(j) /\ hand[j].kind = "history"
        /\ hand'[j].kind = "history" /\ hand'[j].user = hand[j].user
        /\ hand'[j].live = hand[j].live /\ hand'[j].conv = hand[j].conv /\ hand'[j].to = hand[j].to
    BY <1>3, <1>t, SelectsIt
  <2>2. UNCHANGED page
    BY <1>3 DEF SelectMessages
  <2> QED
    BY <2>1, <2>2, <1>o, <1>p
<1>4. ASSUME NEW j \in Places, InsertMessage(j) PROVE KeepsLoaders /\ KeepsPages
  <2>1. Only(j) /\ hand'[j].kind \in {"send", "reply"}
    BY <1>4, <1>t, InsertsIt
  <2>2. Shakes
    BY <1>4, <1>t, InsertsPage
  <2> QED
    BY <2>1, <2>2, <1>o, <1>s
<1>5. ASSUME NEW j \in Places, HandleSend(j) \/ ProcessGrokResponse(j) PROVE KeepsLoaders /\ KeepsPages
  <2>1. Done(j) /\ Shakes
    BY <1>5, <1>t, PublishesPage DEF HandleSend, ProcessGrokResponse
  <2> QED
    BY <2>1, <1>d, <1>s
<1>6. ASSUME NEW j \in Places, HandleGrokMessage(j) PROVE KeepsLoaders /\ KeepsPages
  <2>1. Only(j) /\ hand'[j].kind = "reply"
    BY <1>6, GrokTakesIt
  <2>2. Shakes
    BY <1>6, <1>t, PublishesPage DEF HandleGrokMessage
  <2> QED
    BY <2>1, <2>2, <1>o, <1>s
<1>7. ASSUME NEW j \in Places, GrokApologises(j) PROVE KeepsLoaders /\ KeepsPages
  <2>1. Only(j) /\ hand'[j].kind = "reply"
    BY <1>7, ApologisesIt
  <2> QED
    BY <1>7, <2>1, <1>o, <1>p DEF GrokApologises
<1>8. ASSUME NEW j \in Places, SendFails(j) PROVE KeepsLoaders /\ KeepsPages
  BY <1>8, <1>d, <1>p DEF SendFails
<1>9. ASSUME NEW j \in Places, NEW u \in People, Send(u, j) PROVE KeepsLoaders /\ KeepsPages
  <2>0. page[u] \in Pages
    BY <1>t
  <2>1. Only(j) /\ hand'[j].kind = "send"
    BY <1>9, <2>0, SendsIt
  <2> QED
    BY <1>9, <2>1, <1>o, <1>p DEF Send
<1>10. ASSUME NEW u \in People, Hear(u) PROVE KeepsLoaders /\ KeepsPages
  <2>1. /\ OnlyPage(u)
        /\ page'[u].with = page[u].with /\ page'[u].conv = page[u].conv /\ page'[u].sub = page[u].sub
        /\ page'[u].load = page[u].load
    BY <1>10, <1>t, HearsPage
  <2>2. KeepsPages
    BY <2>1 DEF OnlyPage, KeepsPages
  <2>3. KeepsLoaders
    BY <1>10 DEF Hear, KeepsLoaders
  <2> QED
    BY <2>2, <2>3
<1>11. ASSUME NEW u \in People, Drop(u) PROVE KeepsLoaders /\ KeepsPages
  <2>1. Shakes
    BY <1>11, <1>t, DropsPage
  <2>2. \A k \in Places : hand'[k] = hand[k] \/ hand'[k] = NoWork
    BY <1>11, LosesIt
  <2>3. KeepsLoaders
    BY <2>2, NoWorkFields DEF KeepsLoaders
  <2> QED
    BY <2>1, <2>3, <1>s
<1>12. ASSUME NEW u \in People, Reconnect(u) PROVE KeepsLoaders /\ KeepsPages
  BY <1>12, <1>p DEF Reconnect, KeepsLoaders
<1>13. ASSUME UNCHANGED vars PROVE KeepsLoaders /\ KeepsPages
  BY <1>13, <1>p DEF vars, KeepsLoaders
<1> QED
  BY <1>1, <1>2, <1>3, <1>4, <1>5, <1>6, <1>7, <1>8, <1>9, <1>10, <1>11, <1>12, <1>13 DEF Aside

\* The steps of [Next]_vars: those aside, and those of what pages wait for.
LEMMA Ways ==
  ASSUME [Next]_vars
  PROVE  \/ Aside
         \/ \E j \in Places : Opened(j) \/ Loaded(j) \/ LoadFails(j)
         \/ \E j \in Places, u \in People, v \in Users : LoadConversation(u, v, j)
         \/ \E u \in People : Leave(u)
<1>1. CASE UNCHANGED vars
  BY <1>1 DEF Aside
<1>2. CASE Next
  BY <1>2 DEF Next, Server, Enter, TurnTo, OpenConversation, Aside
<1> QED
  BY <1>1, <1>2

\* A step that ends a request that a page waited for.
LEMMA EndsLoader ==
  ASSUME Steps, NEW j \in Places, Done(j)
  PROVE  KeepsLoaders /\ ~hand'[j].live
<1>1. Only(j) /\ hand'[j].kind = "none" /\ ~hand'[j].live
  BY EndIs
<1> QED
  BY <1>1 DEF Only, KeepsLoaders

\* Every page waits for one answer, and for what it says.
LEMMA WaitsKept == TypeOK /\ Steps /\ Placed /\ OneLoader /\ Waits /\ [Next]_vars => OneLoader' /\ Waits'
<1> SUFFICES ASSUME TypeOK, Steps, Placed, OneLoader, Waits, [Next]_vars PROVE OneLoader' /\ Waits'
  OBVIOUS
<1>t. page \in [People -> Pages]
  BY Typed
<1>u. \A k \in Places : hand[k].kind \in {"open", "history"} => hand[k].user \in People
  BY JobsAre
<1>k. ASSUME KeepsLoaders PROVE OneLoader'
  BY <1>k DEF KeepsLoaders, OneLoader, Loads
<1>l. ASSUME KeepsLoaders, NEW v \in People, OnlyPage(v),
             \A k \in Places : ~(hand'[k].kind \in {"open", "history"} /\ hand'[k].live /\ hand'[k].user = v)
      PROVE  Waits'
  <2> SUFFICES ASSUME NEW k \in Places, hand'[k].kind \in {"open", "history"}, hand'[k].live
               PROVE  /\ hand'[k].kind = "open" =>
                           LET p == page'[hand'[k].user] IN p.load = "open" /\ p.sub = 0 /\ p.with = hand'[k].to
                      /\ hand'[k].kind = "history" =>
                           LET p == page'[hand'[k].user] IN p.load = "history" /\ p.sub = hand'[k].conv
    BY DEF Waits
  <2>1. /\ hand[k].kind = hand'[k].kind /\ hand[k].live /\ hand[k].user = hand'[k].user
        /\ hand[k].to = hand'[k].to
        /\ hand[k].kind = "history" => hand[k].conv = hand'[k].conv
    BY <1>l DEF KeepsLoaders
  <2>2. page'[hand[k].user] = page[hand[k].user]
    BY <1>l, <1>u, <2>1 DEF OnlyPage
  <2> QED
    BY <2>1, <2>2 DEF Waits
<1>1. CASE Aside
  <2>1. KeepsLoaders /\ KeepsPages
    BY <1>1, Asides
  <2>2. Waits'
    <3> SUFFICES ASSUME NEW k \in Places, hand'[k].kind \in {"open", "history"}, hand'[k].live
                 PROVE  /\ hand'[k].kind = "open" =>
                             LET p == page'[hand'[k].user] IN p.load = "open" /\ p.sub = 0 /\ p.with = hand'[k].to
                        /\ hand'[k].kind = "history" =>
                             LET p == page'[hand'[k].user] IN p.load = "history" /\ p.sub = hand'[k].conv
      BY DEF Waits
    <3>1. /\ hand[k].kind = hand'[k].kind /\ hand[k].live /\ hand[k].user = hand'[k].user
          /\ hand[k].to = hand'[k].to
          /\ hand[k].kind = "history" => hand[k].conv = hand'[k].conv
      BY <2>1 DEF KeepsLoaders
    <3> QED
      BY <1>u, <2>1, <3>1 DEF Waits, KeepsPages
  <2> QED
    BY <2>1, <2>2, <1>k
<1>2. ASSUME NEW j \in Places, Opened(j) PROVE OneLoader' /\ Waits'
  <2> DEFINE u == hand[j].user
  <2>1. /\ Only(j) /\ hand[j].kind = "open" /\ hand[j].at = "answer"
        /\ hand[j].live => /\ hand'[j].kind = "history" /\ hand'[j].live
                           /\ hand'[j].user = hand[j].user /\ hand'[j].conv = hand[j].conv
        /\ ~hand[j].live => hand'[j] = NoWork
    BY <1>2, OpensIt
  <2>2. /\ u \in People /\ OnlyPage(u)
        /\ ~hand[j].live => page' = page
        /\ hand[j].live => page'[u].load = "history" /\ page'[u].sub = hand[j].conv
    BY <1>2, <1>t, OpensPage
  <2>3. CASE ~hand[j].live
    <3>1. hand'[j] = NoWork /\ page' = page /\ \A k \in Places : k # j => hand'[k] = hand[k]
      BY <2>1, <2>2, <2>3 DEF Only
    <3>2. OneLoader'
      BY <3>1, NoWorkFields DEF OneLoader, Loads
    <3>3. Waits'
      BY <3>1, NoWorkFields DEF Waits
    <3> QED
      BY <3>2, <3>3
  <2>4. CASE hand[j].live
    <3>1. \A k \in Places : k # j => hand'[k] = hand[k]
      BY <2>1 DEF Only
    <3>2. \A k \in Places, v \in People : Loads(k, v)' => Loads(k, v)
      BY <2>1, <2>4, <3>1 DEF Loads
    <3>3. OneLoader'
      BY <3>2 DEF OneLoader
    <3>4. \A k \in Places : k # j => ~Loads(k, u)
      BY <2>1, <2>2, <2>4 DEF OneLoader, Loads
    <3>5. \A v \in People : v # u => page'[v] = page[v]
      BY <2>2 DEF OnlyPage
    <3>6. Waits'
      <4> SUFFICES ASSUME NEW k \in Places, hand'[k].kind \in {"open", "history"}, hand'[k].live
                   PROVE  /\ hand'[k].kind = "open" =>
                               LET p == page'[hand'[k].user] IN p.load = "open" /\ p.sub = 0 /\ p.with = hand'[k].to
                          /\ hand'[k].kind = "history" =>
                               LET p == page'[hand'[k].user] IN p.load = "history" /\ p.sub = hand'[k].conv
        BY DEF Waits
      <4>1. CASE k = j
        BY <4>1, <2>1, <2>2, <2>4
      <4>2. CASE k # j
        <5>1. hand'[k] = hand[k] /\ hand[k].user # u /\ hand[k].user \in People
          BY <4>2, <3>1, <3>4, <1>u DEF Loads
        <5>2. page'[hand[k].user] = page[hand[k].user]
          BY <5>1, <3>5
        <5> QED
          BY <5>1, <5>2 DEF Waits
      <4> QED
        BY <4>1, <4>2
    <3> QED
      BY <3>3, <3>6
  <2> QED
    BY <2>3, <2>4
<1>3. ASSUME NEW j \in Places, Loaded(j) \/ LoadFails(j) PROVE OneLoader' /\ Waits'
  <2>1. KeepsLoaders /\ ~hand'[j].live
    BY <1>3, EndsLoader DEF Loaded, LoadFails
  <2>2. /\ hand[j].kind \in {"open", "history"}
        /\ hand[j].user \in People /\ OnlyPage(hand[j].user)
        /\ ~hand[j].live => page' = page
    BY <1>3, <1>t, LoadsPage, FailsPage DEF LoadFails
  <2>3. CASE hand[j].live
    <3>1. \A k \in Places : k # j => ~Loads(k, hand[j].user)
      BY <2>2, <2>3 DEF OneLoader, Loads
    <3>2. \A k \in Places : ~(hand'[k].kind \in {"open", "history"} /\ hand'[k].live /\ hand'[k].user = hand[j].user)
      BY <2>1, <3>1 DEF KeepsLoaders, Loads
    <3> QED
      BY <2>1, <2>2, <3>2, <1>k, <1>l
  <2>4. CASE ~hand[j].live
    <3>1. page' = page
      BY <2>2, <2>4
    <3>2. Waits'
      BY <2>1, <3>1, <1>u DEF KeepsLoaders, Waits
    <3> QED
      BY <2>1, <3>2, <1>k
  <2> QED
    BY <2>3, <2>4
<1>4. ASSUME NEW j \in Places, NEW u \in People, NEW v \in Users, LoadConversation(u, v, j) PROVE OneLoader' /\ Waits'
  <2>1. /\ hand'[j].kind = "open" /\ hand'[j].user = u /\ hand'[j].to = v /\ hand'[j].live
        /\ \A k \in Places \ {j} :
              /\ hand'[k].kind = hand[k].kind /\ hand'[k].user = hand[k].user /\ hand'[k].to = hand[k].to
              /\ hand'[k].conv = hand[k].conv
              /\ hand'[k].live => hand[k].live
              /\ ~(hand'[k].kind \in {"open", "history"} /\ hand'[k].user = u /\ hand'[k].live)
    BY <1>4, Turns
  <2>2. OnlyPage(u) /\ page'[u].with = v /\ page'[u].sub = 0 /\ page'[u].load = "open"
    BY <1>4, <1>t, TurnsPage
  <2>3. OneLoader'
    BY <2>1 DEF OneLoader, Loads
  <2>4. Waits'
    <3> SUFFICES ASSUME NEW k \in Places, hand'[k].kind \in {"open", "history"}, hand'[k].live
                 PROVE  /\ hand'[k].kind = "open" =>
                             LET p == page'[hand'[k].user] IN p.load = "open" /\ p.sub = 0 /\ p.with = hand'[k].to
                        /\ hand'[k].kind = "history" =>
                             LET p == page'[hand'[k].user] IN p.load = "history" /\ p.sub = hand'[k].conv
      BY DEF Waits
    <3>1. CASE k = j
      BY <3>1, <2>1, <2>2
    <3>2. CASE k # j
      <4>1. /\ hand'[k].user # u /\ hand[k].user = hand'[k].user /\ hand[k].live /\ hand[k].kind = hand'[k].kind
            /\ hand[k].to = hand'[k].to /\ hand[k].conv = hand'[k].conv
        BY <3>2, <2>1
      <4>2. page'[hand[k].user] = page[hand[k].user]
        BY <4>1, <2>2, <1>u DEF OnlyPage
      <4> QED
        BY <4>1, <4>2 DEF Waits
    <3> QED
      BY <3>1, <3>2
  <2> QED
    BY <2>3, <2>4
<1>5. ASSUME NEW u \in People, Leave(u) PROVE OneLoader' /\ Waits'
  <2>1. \A k \in Places :
              /\ hand'[k].kind = hand[k].kind /\ hand'[k].user = hand[k].user /\ hand'[k].to = hand[k].to
              /\ hand'[k].conv = hand[k].conv
              /\ hand'[k].live => hand[k].live
              /\ ~(hand'[k].kind \in {"open", "history"} /\ hand'[k].user = u /\ hand'[k].live)
    BY <1>5, UnheardIs DEF Leave
  <2>2. KeepsLoaders
    BY <2>1 DEF KeepsLoaders
  <2>3. OnlyPage(u)
    BY <1>5, <1>t, LeavesPage
  <2> QED
    BY <2>1, <2>2, <2>3, <1>k, <1>l
<1> QED
  BY <1>1, <1>2, <1>3, <1>4, <1>5, Ways

\* Two users have a conversation exactly if it is theirs.
LEMMA BetweenIs ==
  ASSUME OfTwo, NEW u, NEW v, u # v, NEW c \in Between(u, v)
  PROVE  c \in DOMAIN convs /\ convs[c] = {u, v}
<1>1. c \in DOMAIN convs /\ {u, v} \subseteq convs[c]
  BY DEF Between
<1>2. PICK x, y \in Users : x # y /\ convs[c] = {x, y}
  BY <1>1 DEF OfTwo
<1>3. u \in {x, y} /\ v \in {x, y}
  BY <1>1, <1>2
<1> QED
  BY <1>1, <1>2, <1>3

\* A page hears the conversation with the user it shows.
LEMMA TurnedKept == TypeOK /\ Steps /\ Placed /\ Waits /\ Turned /\ Meant /\ [Next]_vars => Turned'
<1> SUFFICES ASSUME TypeOK, Steps, Placed, Waits, Turned, Meant, [Next]_vars PROVE Turned'
  OBVIOUS
<1>t. page \in [People -> Pages] /\ DOMAIN convs = 1..Len(convs) /\ Len(convs) \in Nat
  BY Typed
<1>g. \A c \in DOMAIN convs : convs'[c] = convs[c]
  BY Growth DEF Grows
<1>s. \A u \in People : page[u].sub # 0 => page[u].conv = page[u].sub /\ convs'[page[u].sub] = {u, page[u].with}
  <2> SUFFICES ASSUME NEW u \in People, page[u].sub # 0
               PROVE  page[u].conv = page[u].sub /\ convs'[page[u].sub] = {u, page[u].with}
    OBVIOUS
  <2>1. page[u].sub \in DOMAIN convs
    BY <1>t DEF Placed
  <2> QED
    BY <2>1, <1>g DEF Turned
<1>o. ASSUME NEW u \in People, OnlyPage(u),
             page'[u].sub # 0 => page'[u].conv = page'[u].sub /\ convs'[page'[u].sub] = {u, page'[u].with}
      PROVE  Turned'
  BY <1>o, <1>s DEF OnlyPage, Turned
<1>1. CASE Aside
  BY <1>1, <1>s, Asides DEF KeepsPages, Turned
<1>2. ASSUME NEW j \in Places, Opened(j) PROVE Turned'
  <2> DEFINE u == hand[j].user
  <2>1. /\ u \in People /\ OnlyPage(u)
        /\ ~hand[j].live => page' = page
        /\ hand[j].live =>
             /\ page'[u].with = page[u].with /\ page'[u].conv = hand[j].conv /\ page'[u].sub = hand[j].conv
             /\ page'[u].load = "history"
    BY <1>2, <1>t, OpensPage
  <2>2. hand[j].kind = "open" /\ hand[j].at = "answer"
    BY <1>2, OpensIt
  <2>3. hand[j].live => page[u].with = hand[j].to
    BY <2>2 DEF Waits
  <2>4. convs[hand[j].conv] = {u, hand[j].to}
    BY <2>2 DEF Meant, Pair
  <2>5. hand[j].conv \in DOMAIN convs
    BY <2>2, <1>t DEF Placed
  <2>6. page'[u].sub # 0 => page'[u].conv = page'[u].sub /\ convs'[page'[u].sub] = {u, page'[u].with}
    BY <2>1, <2>3, <2>4, <2>5, <1>g, <1>s
  <2> QED
    BY <2>1, <2>6, <1>o
<1>3. ASSUME NEW j \in Places, Loaded(j) PROVE Turned'
  <2>1. /\ hand[j].user \in People /\ OnlyPage(hand[j].user)
        /\ LET p == page'[hand[j].user]
           IN  p.with = page[hand[j].user].with /\ p.conv = page[hand[j].user].conv /\ p.sub = page[hand[j].user].sub
    BY <1>3, <1>t, LoadsPage
  <2> QED
    BY <2>1, <1>o, <1>s
<1>4. ASSUME NEW j \in Places, LoadFails(j) PROVE Turned'
  <2>1. /\ hand[j].user \in People /\ OnlyPage(hand[j].user)
        /\ LET p == page'[hand[j].user]
           IN  p.with = page[hand[j].user].with /\ p.conv = page[hand[j].user].conv /\ p.sub = page[hand[j].user].sub
    BY <1>4, <1>t, FailsPage
  <2> QED
    BY <2>1, <1>o, <1>s
<1>5. ASSUME NEW j \in Places, NEW u \in People, NEW v \in Users, LoadConversation(u, v, j) PROVE Turned'
  BY <1>5, <1>t, <1>o, TurnsPage
<1>6. ASSUME NEW u \in People, Leave(u) PROVE Turned'
  BY <1>6, <1>t, <1>o, LeavesPage
<1> QED
  BY <1>1, <1>2, <1>3, <1>4, <1>5, <1>6, Ways

\* The conversation of a request stays that of its users.
LEMMA MeantKept ==
  TypeOK /\ Steps /\ OfTwo /\ Placed /\ Turned /\ Meant /\ [Next]_vars => Meant'
<1> SUFFICES ASSUME TypeOK, Steps, OfTwo, Placed, Turned, Meant, [Next]_vars PROVE Meant'
  OBVIOUS
<1> DEFINE For(k) ==
             /\ hand'[k].kind = "open" /\ hand'[k].at = "answer" => convs'[hand'[k].conv] = {hand'[k].user, hand'[k].to}
             /\ hand'[k].kind \in {"send", "reply"} /\ hand'[k].at \in {"sent", "insert", "count"} =>
                  hand'[k].hasty \/ hand'[k].conv = 0 \/ convs'[hand'[k].conv] = {hand'[k].user, hand'[k].to}
<1>t. /\ page \in [People -> Pages] /\ DOMAIN convs = 1..Len(convs) /\ Len(convs) \in Nat /\ Len(msgs) \in Nat
      /\ convs \in Seq(SUBSET Users)
      /\ \A c : MessagesOf(c) \in SUBSET Nat /\ IsFiniteSet(MessagesOf(c))
  BY Typed
<1>g. \A c \in DOMAIN convs : convs'[c] = convs[c]
  BY Growth DEF Grows
<1>m. SUFFICES \A k \in Places : For(k)
  BY DEF Meant, Pair
<1>c. \A k \in Places : hand[k].conv # 0 => hand[k].conv \in DOMAIN convs
  BY <1>t DEF Placed
<1>k. \A k \in Places :
        /\ hand[k].kind = "open" /\ hand[k].at = "answer" => convs'[hand[k].conv] = {hand[k].user, hand[k].to}
        /\ hand[k].kind \in {"send", "reply"} /\ hand[k].at \in {"sent", "insert", "count"} =>
             hand[k].hasty \/ hand[k].conv = 0 \/ convs'[hand[k].conv] = {hand[k].user, hand[k].to}
  BY <1>c, <1>g DEF Meant, Pair, Placed
<1>o. ASSUME NEW j \in Places, Only(j), For(j) PROVE \A k \in Places : For(k)
  BY <1>o, <1>k DEF Only
<1>d. ASSUME NEW j \in Places, Done(j) PROVE \A k \in Places : For(k)
  BY <1>d, EndIs, <1>o
<1>1. ASSUME NEW j \in Places, LookUp(j) PROVE \A k \in Places : For(k)
  <2>1. /\ Only(j) /\ hand[j].kind \in {"open", "send"}
        /\ hand'[j].kind = hand[j].kind /\ hand'[j].user = hand[j].user /\ hand'[j].to = hand[j].to
        /\ \/ hand'[j].at = "create" /\ hand'[j].conv = hand[j].conv
           \/ hand'[j].conv \in Between(hand[j].user, hand[j].to)
    BY <1>1, <1>t, LooksIt
  <2>2. hand[j].user # hand[j].to
    BY <2>1, JobsAre
  <2>3. hand'[j].at = "create" \/ convs'[hand'[j].conv] = {hand[j].user, hand[j].to}
    BY <2>1, <2>2, BetweenIs, <1>g
  <2>4. For(j)
    BY <2>1, <2>3
  <2> QED
    BY <2>1, <2>4, <1>o
<1>2. ASSUME NEW j \in Places, CreateConversation(j) PROVE \A k \in Places : For(k)
  <2>1. Only(j) /\ hand'[j].conv = Len(convs) + 1 /\ hand'[j].user = hand[j].user /\ hand'[j].to = hand[j].to
    BY <1>2, <1>t, CreatesIt
  <2>2. convs'[Len(convs) + 1] = {hand[j].user, hand[j].to}
    BY <1>2, CreatesConv DEF Pair
  <2>3. For(j)
    BY <2>1, <2>2
  <2> QED
    BY <2>1, <2>3, <1>o
<1>3. ASSUME NEW j \in Places, SelectMessages(j) PROVE \A k \in Places : For(k)
  <2>1. Only(j) /\ hand'[j].kind = "history"
    BY <1>3, <1>t, SelectsIt
  <2> QED
    BY <2>1, <1>o
<1>4. ASSUME NEW j \in Places, InsertMessage(j) PROVE \A k \in Places : For(k)
  <2>1. /\ Only(j) /\ hand[j].kind \in {"send", "reply"} /\ hand[j].at \in {"insert", "sent"}
        /\ hand'[j].kind = hand[j].kind /\ hand'[j].user = hand[j].user /\ hand'[j].to = hand[j].to
        /\ hand'[j].hasty = hand[j].hasty /\ hand'[j].conv = hand[j].conv
    BY <1>4, <1>t, InsertsIt
  <2>2. For(j)
    BY <2>1, <1>k
  <2> QED
    BY <2>1, <2>2, <1>o
<1>5. ASSUME NEW j \in Places, HandleSend(j) \/ ProcessGrokResponse(j) \/ SendFails(j) \/ LoadFails(j) \/ Loaded(j)
      PROVE  \A k \in Places : For(k)
  BY <1>5, <1>d DEF HandleSend, ProcessGrokResponse, SendFails, LoadFails, Loaded
<1>6. ASSUME NEW j \in Places, HandleGrokMessage(j) PROVE \A k \in Places : For(k)
  <2>1. /\ Only(j) /\ hand[j].kind = "send" /\ hand[j].at = "count" /\ hand[j].to = Grok
        /\ hand'[j].kind = "reply" /\ hand'[j].user = Grok /\ hand'[j].to = hand[j].user
        /\ hand'[j].conv = hand[j].conv /\ hand'[j].hasty = hand[j].hasty
    BY <1>6, GrokTakesIt
  <2>2. {hand'[j].user, hand'[j].to} = {hand[j].user, hand[j].to}
    BY <2>1
  <2>3. For(j)
    BY <2>1, <2>2, <1>k
  <2> QED
    BY <2>1, <2>3, <1>o
<1>7. ASSUME NEW j \in Places, GrokApologises(j) PROVE \A k \in Places : For(k)
  <2>1. /\ Only(j) /\ hand[j].kind = "reply" /\ hand[j].at \in {"insert", "count"}
        /\ hand'[j].kind = "reply" /\ hand'[j].user = hand[j].user /\ hand'[j].to = hand[j].to
        /\ hand'[j].hasty = hand[j].hasty /\ hand'[j].conv = hand[j].conv
    BY <1>7, ApologisesIt
  <2>2. For(j)
    BY <2>1, <1>k
  <2> QED
    BY <2>1, <2>2, <1>o
<1>8. ASSUME NEW j \in Places, NEW u \in People, Send(u, j) PROVE \A k \in Places : For(k)
  <2>0. page[u] \in Pages
    BY <1>t
  <2>1. /\ Only(j) /\ hand'[j].kind = "send" /\ hand'[j].user = u /\ hand'[j].to = page[u].with
        /\ hand'[j].conv = page[u].conv /\ hand'[j].hasty = (page[u].sub = 0 /\ page[u].conv # 0)
    BY <1>8, <2>0, SendsIt
  <2>4. page[u].sub # 0 => page[u].sub \in DOMAIN convs
    BY <1>t DEF Placed
  <2>2. page[u].sub # 0 => page[u].conv = page[u].sub /\ convs'[page[u].sub] = {u, page[u].with}
    BY <2>4, <1>g DEF Turned
  <2>3. For(j)
    BY <2>1, <2>2
  <2> QED
    BY <2>1, <2>3, <1>o
<1>9. ASSUME NEW j \in Places, Opened(j) PROVE \A k \in Places : For(k)
  <2>1. Only(j) /\ hand'[j].kind \in {"history", "none"}
    BY <1>9, OpensIt, NoWorkFields
  <2> QED
    BY <2>1, <1>o
<1>10. ASSUME NEW j \in Places, NEW u \in People, NEW v \in Users, LoadConversation(u, v, j) PROVE \A k \in Places : For(k)
  <2>1. /\ hand'[j].kind = "open" /\ hand'[j].at = "look"
        /\ \A k \in Places \ {j} :
              /\ hand'[k].kind = hand[k].kind /\ hand'[k].user = hand[k].user /\ hand'[k].to = hand[k].to
              /\ hand'[k].conv = hand[k].conv /\ hand'[k].at = hand[k].at /\ hand'[k].hasty = hand[k].hasty
    BY <1>10, Turns
  <2>2. For(j)
    BY <2>1
  <2>3. ASSUME NEW k \in Places \ {j} PROVE For(k)
    BY <2>1, <1>k
  <2> QED
    BY <2>2, <2>3
<1>11. ASSUME NEW u \in People, Leave(u) PROVE \A k \in Places : For(k)
  <2>1. \A k \in Places :
              /\ hand'[k].kind = hand[k].kind /\ hand'[k].user = hand[k].user /\ hand'[k].to = hand[k].to
              /\ hand'[k].conv = hand[k].conv /\ hand'[k].at = hand[k].at /\ hand'[k].hasty = hand[k].hasty
    BY <1>11, UnheardIs DEF Leave
  <2> QED
    BY <2>1, <1>k
<1>12. ASSUME NEW u \in People, Hear(u) \/ Reconnect(u) PROVE \A k \in Places : For(k)
  BY <1>12, <1>k DEF Hear, Reconnect
<1>13. ASSUME NEW u \in People, Drop(u) PROVE \A k \in Places : For(k)
  <2>1. \A k \in Places : hand'[k] = hand[k] \/ hand'[k] = NoWork
    BY <1>13, LosesIt
  <2> QED
    BY <2>1, <1>k, NoWorkFields
<1>14. ASSUME UNCHANGED vars PROVE \A k \in Places : For(k)
  BY <1>14, <1>k DEF vars
<1> QED
  BY <1>1, <1>2, <1>3, <1>4, <1>5, <1>6, <1>7, <1>8, <1>9, <1>10, <1>11, <1>12, <1>13, <1>14
  DEF Next, Server, Enter, TurnTo, OpenConversation

\* Messages stay addressed, and new ones go to whom their senders see.
LEMMA AddressedKept ==
  TypeOK /\ Steps /\ OfTwo /\ Placed /\ Addressed /\ [Next]_vars => Addressed'
<1> SUFFICES ASSUME TypeOK, Steps, OfTwo, Placed, Addressed, [Next]_vars PROVE Addressed'
  OBVIOUS
<1>1. OneLoader' /\ Waits'
  BY WaitsKept DEF Addressed
<1>2. Turned'
  BY TurnedKept DEF Addressed
<1>3. Meant'
  BY MeantKept DEF Addressed
<1>4. CalmAddressed'
  <2>t. /\ DOMAIN convs = 1..Len(convs) /\ Len(convs) \in Nat /\ DOMAIN msgs = 1..Len(msgs) /\ Len(msgs) \in Nat
        /\ \A m \in DOMAIN msgs : msgs[m].conv \in DOMAIN convs
    BY Typed
  <2>g. \A c \in DOMAIN convs : convs'[c] = convs[c]
    BY Growth DEF Grows
  <2>1. ASSUME NEW j \in Places, InsertMessage(j) PROVE CalmAddressed'
    <3>1. /\ Len(msgs') = Len(msgs) + 1 /\ DOMAIN msgs' = 1..Len(msgs) + 1
          /\ \A k \in DOMAIN msgs : msgs'[k] = msgs[k]
          /\ msgs'[Len(msgs) + 1].conv = hand[j].conv /\ msgs'[Len(msgs) + 1].from = hand[j].user
          /\ msgs'[Len(msgs) + 1].to = hand[j].to /\ msgs'[Len(msgs) + 1].hasty = hand[j].hasty
          /\ hand[j].conv \in DOMAIN convs
      BY <2>1, InsertsMsg
    <3>2. hand[j].kind \in {"send", "reply"} /\ hand[j].at \in {"insert", "sent"}
      BY <2>1, <2>t, InsertsIt
    <3>3. hand[j].hasty \/ convs[hand[j].conv] = {hand[j].user, hand[j].to}
      BY <3>1, <3>2, <2>t DEF Addressed, Meant, Pair
    <3> SUFFICES ASSUME NEW m \in DOMAIN msgs'
                 PROVE  msgs'[m].hasty \/ {msgs'[m].from, msgs'[m].to} = convs'[msgs'[m].conv]
      BY DEF CalmAddressed
    <3>4. CASE m \in DOMAIN msgs
      BY <3>1, <3>4, <2>t, <2>g DEF Addressed, CalmAddressed
    <3>5. CASE m = Len(msgs) + 1
      BY <3>1, <3>3, <3>5, <2>g
    <3> QED
      BY <2>t, <3>1, <3>4, <3>5
  <2>2. ASSUME UNCHANGED msgs PROVE CalmAddressed'
    BY <2>2, <2>t, <2>g DEF Addressed, CalmAddressed
  <2>5. CASE \E j \in Places : LookUp(j) \/ SelectMessages(j) \/ Opened(j) \/ Loaded(j) \/ CreateConversation(j)
    BY <2>2, <2>5 DEF LookUp, SelectMessages, Opened, Loaded, CreateConversation
  <2>6. CASE \E j \in Places : HandleSend(j) \/ HandleGrokMessage(j) \/ ProcessGrokResponse(j)
    BY <2>2, <2>6 DEF HandleSend, HandleGrokMessage, ProcessGrokResponse, Publish
  <2>7. CASE \E j \in Places : LoadFails(j) \/ SendFails(j) \/ GrokApologises(j)
    BY <2>2, <2>7 DEF LoadFails, SendFails, GrokApologises, Fails
  <2>8. CASE \E j \in Places, u \in People : Send(u, j) \/ \E v \in Users : LoadConversation(u, v, j)
    BY <2>2, <2>8 DEF Send, LoadConversation
  <2>9. CASE \E u \in People : Leave(u) \/ Hear(u) \/ Drop(u) \/ Reconnect(u)
    BY <2>2, <2>9 DEF Leave, Hear, Drop, Reconnect
  <2>10. CASE UNCHANGED vars
    BY <2>2, <2>10 DEF vars
  <2> QED
    BY <2>1, <2>5, <2>6, <2>7, <2>8, <2>9, <2>10
    DEF Next, Server, Enter, TurnTo, OpenConversation
<1> QED
  BY <1>1, <1>2, <1>3, <1>4 DEF Addressed

\* The messages of c among ms.
Within(ms, c) == {m \in DOMAIN ms : ms[m].conv = c}

\* MessagesOf is about msgs.
LEMMA WithinIs == \A c : MessagesOf(c) = Within(msgs, c)
BY DEF MessagesOf, Within

\* The messages under way to be published stay the same.
SameCounts ==
  \A k \in Places :
    /\ hand'[k].at = "count" <=> hand[k].at = "count"
    /\ hand[k].at = "count" => hand'[k].got = hand[k].got /\ hand'[k].conv = hand[k].conv

\* Nothing happens to the messages.
Level == SameCounts /\ UNCHANGED <<msgs, net, mute>>

\* What is about to be published stays.
LEMMA LevelCounts ==
  ASSUME SameCounts
  PROVE  \A m : Counting(m)' <=> Counting(m)
BY DEF SameCounts, Counting

\* Nothing is published twice by a step that leaves the messages alone.
LEMMA LevelKeeps ==
  ASSUME Level, Counted, Once
  PROVE  Counted' /\ Once'
<1>1. \A m : Counting(m)' <=> Counting(m)
  BY LevelCounts DEF Level
<1>2. \A u \in People : \A m : Coming(u, m)' <=> Coming(u, m)
  BY DEF Level, Coming
<1>3. Counted'
  BY DEF Level, SameCounts, Counted
<1>4. Once'
  BY <1>1, <1>2 DEF Level, Once
<1> QED
  BY <1>3, <1>4

\* A page nothing is said of.
LEMMA OutOf ==
  ASSUME NEW u \in People,
         \/ page'[u].shaken
         \/ page'[u].load = "open"
         \/ page'[u].load = "none" /\ page'[u].sub = 0
  PROVE  RightFor(u)'
BY DEF RightFor, StillFor, OnceFor, AllFor, Quiet

\* What is said of the page of u, with what has become of it.
LEMMA RightWith ==
  ASSUME NEW u \in People,
         page'[u].load = "history" /\ ~page'[u].shaken =>
           /\ page'[u].sub # 0
           /\ \A m \in Within(msgs', page'[u].sub) : ~Coming(u, m)' /\ ~Counting(m)',
         page'[u].sub # 0 /\ page'[u].load = "none" /\ ~page'[u].shaken =>
           /\ \A i, k \in DOMAIN page'[u].view : page'[u].view[i] = page'[u].view[k] => i = k
           /\ \A m \in Nat : Seen(u, m)' => m \in Within(msgs', page'[u].sub) /\ ~Coming(u, m)' /\ ~Counting(m)'
           /\ page'[u].sub \notin mute' =>
                \A m \in Within(msgs', page'[u].sub) : Seen(u, m)' \/ Coming(u, m)' \/ Counting(m)'
  PROVE  RightFor(u)'
BY DEF RightFor, StillFor, OnceFor, AllFor, Quiet, MessagesOf, Within

\* A page that stays as it is, while nothing happens to the messages.
LEMMA LevelPage ==
  ASSUME Level, NEW u \in People, page'[u] = page[u], RightFor(u)
  PROVE  RightFor(u)'
<1>1. \A m : Counting(m)' <=> Counting(m)
  BY LevelCounts DEF Level
<1>2. \A m : Coming(u, m)' <=> Coming(u, m)
  BY DEF Level, Coming
<1>3. \A m : Seen(u, m)' <=> Seen(u, m)
  BY DEF Seen
<1>5. \A c : Within(msgs', c) = MessagesOf(c)
  BY DEF Level, MessagesOf, Within
<1>6. mute' = mute
  BY DEF Level
<1>7. page[u].load = "history" /\ ~page[u].shaken =>
        /\ page[u].sub # 0
        /\ \A m \in Within(msgs', page[u].sub) : ~Coming(u, m)' /\ ~Counting(m)'
  BY <1>1, <1>2, <1>5 DEF RightFor, StillFor
<1>8. page[u].sub # 0 /\ page[u].load = "none" /\ ~page[u].shaken =>
        \A i, k \in DOMAIN page[u].view : page[u].view[i] = page[u].view[k] => i = k
  BY DEF RightFor, OnceFor, Quiet
<1>9. page[u].sub # 0 /\ page[u].load = "none" /\ ~page[u].shaken =>
        \A m \in Nat : Seen(u, m)' => m \in Within(msgs', page[u].sub) /\ ~Coming(u, m)' /\ ~Counting(m)'
  BY <1>1, <1>2, <1>3, <1>5 DEF RightFor, OnceFor, Quiet
<1>10. page[u].sub # 0 /\ page[u].load = "none" /\ ~page[u].shaken /\ page[u].sub \notin mute' =>
        \A m \in Within(msgs', page[u].sub) : Seen(u, m)' \/ Coming(u, m)' \/ Counting(m)'
  BY <1>1, <1>2, <1>3, <1>5, <1>6 DEF RightFor, AllFor, Quiet
<1> QED
  BY <1>7, <1>8, <1>9, <1>10, RightWith

\* The requests that do not end in the storage or the publication of a message.
LEMMA OnlyLevel ==
  ASSUME Steps, NEW j \in Places, Only(j), hand[j].at # "count", hand'[j].at # "count"
  PROVE  SameCounts
BY DEF Only, SameCounts

\* The steps that leave the messages alone, and what they leave of the pages.
LEMMA LevelSteps ==
  ASSUME TypeOK, Steps, Placed, NEW j \in Places,
         \/ LookUp(j) \/ CreateConversation(j) \/ SelectMessages(j)
         \/ \E u \in People : Send(u, j)
         \/ SendFails(j) /\ hand[j].at # "count"
         \/ GrokApologises(j) /\ hand[j].at # "count"
  PROVE  Level /\ page' = page
<1>t. /\ convs \in Seq(SUBSET Users) /\ Len(convs) \in Nat
      /\ page \in [People -> Pages]
      /\ \A c : MessagesOf(c) \in SUBSET Nat /\ IsFiniteSet(MessagesOf(c))
  BY Typed
<1>1. CASE LookUp(j)
  <2>1. Only(j) /\ hand[j].at \in {"look", "sent"} /\ hand'[j].at # "count"
    <3>1. /\ Only(j) /\ hand[j].at \in {"look", "sent"}
          /\ hand'[j].at = "create" \/ hand'[j].at = IF hand[j].kind = "send" THEN "insert" ELSE "answer"
      BY <1>1, <1>t, LooksIt
    <3> QED
      BY <3>1
  <2> QED
    BY <1>1, <2>1, OnlyLevel DEF Level, LookUp
<1>2. CASE CreateConversation(j)
  <2>1. Only(j) /\ hand[j].at = "create" /\ hand'[j].at # "count"
    BY <1>2, <1>t, CreatesIt
  <2> QED
    BY <1>2, <2>1, OnlyLevel DEF Level, CreateConversation
<1>3. CASE SelectMessages(j)
  <2>1. Only(j) /\ hand[j].at = "select" /\ hand'[j].at = "answer"
    BY <1>3, <1>t, SelectsIt
  <2> QED
    BY <1>3, <2>1, OnlyLevel DEF Level, SelectMessages
<1>4. ASSUME NEW u \in People, Send(u, j) PROVE Level /\ page' = page
  <2>0. page[u] \in Pages
    BY <1>t
  <2>1. Only(j) /\ hand[j] = NoWork /\ hand'[j].at = "sent"
    BY <1>4, <2>0, SendsIt
  <2> QED
    BY <1>4, <2>1, OnlyLevel, NoWorkFields DEF Level, Send
<1>5. CASE SendFails(j) /\ hand[j].at # "count"
  <2>1. Only(j) /\ hand'[j].at = "idle"
    BY <1>5, EndIs DEF SendFails
  <2> QED
    BY <1>5, <2>1, OnlyLevel DEF Level, SendFails, Fails
<1>6. CASE GrokApologises(j) /\ hand[j].at # "count"
  <2>1. Only(j) /\ hand'[j].at = "insert"
    BY <1>6, ApologisesIt
  <2> QED
    BY <1>6, <2>1, OnlyLevel DEF Level, GrokApologises, Fails
<1> QED
  BY <1>1, <1>2, <1>3, <1>4, <1>5, <1>6

\* What a stored message changes.
LEMMA InsertKeeps ==
  ASSUME TypeOK, Steps, Placed, Counted, Once, Right, NEW j \in Places, InsertMessage(j)
  PROVE  Counted' /\ Once' /\ Right'
<1> DEFINE n == Len(msgs) + 1
<1>t. /\ page \in [People -> Pages] /\ Len(msgs) \in Nat /\ DOMAIN msgs = 1..Len(msgs)
      /\ net \in [People -> Seq(DOMAIN msgs)]
  BY Typed
<1>1. /\ Only(j) /\ hand[j].at \in {"insert", "sent"} /\ hand'[j].at = "count" /\ hand'[j].conv = hand[j].conv
      /\ hand'[j].got[1] = n
  BY <1>t, InsertsIt
<1>2. /\ Len(msgs') = n /\ DOMAIN msgs' = 1..n
      /\ \A k \in DOMAIN msgs : msgs'[k] = msgs[k]
      /\ msgs'[n].conv = hand[j].conv
  BY InsertsMsg
<1>3. \A k \in Places : k # j => hand'[k] = hand[k]
  BY <1>1 DEF Only
<1>4. n \notin DOMAIN msgs /\ DOMAIN msgs' = DOMAIN msgs \union {n}
  BY <1>2, <1>t
<1>5. net' = net /\ mute' = mute
  BY DEF InsertMessage
<1> HIDE DEF n
<1>6. \A m : Counting(m)' <=> Counting(m) \/ m = n
  BY <1>1, <1>3 DEF Counting
<1>7. \A u \in People : \A m : Coming(u, m)' <=> Coming(u, m)
  BY <1>5 DEF Coming
<1>8. \A u \in People : \A m : Coming(u, m) => m \in DOMAIN msgs
  <2> TAKE u \in People
  <2>1. net[u] \in Seq(DOMAIN msgs)
    BY <1>t
  <2>2. \A i \in DOMAIN net[u] : net[u][i] \in DOMAIN msgs
    BY <2>1, LenProperties, ElementOfSeq
  <2> QED
    BY <2>2 DEF Coming
<1>9. \A c : Within(msgs', c) = MessagesOf(c) \union (IF c = hand[j].conv THEN {n} ELSE {})
  BY <1>2, <1>4 DEF MessagesOf, Within
<1>10. \A c : n \notin MessagesOf(c)
  BY <1>4 DEF MessagesOf
<1>11. Counted'
  <2>1. ASSUME NEW k \in Places, hand'[k].at = "count"
        PROVE  hand'[k].got[1] \in DOMAIN msgs' /\ msgs'[hand'[k].got[1]].conv = hand'[k].conv
    <3>1. CASE k = j
      BY <1>1, <1>2, <1>4, <3>1
    <3>2. CASE k # j
      BY <1>2, <1>3, <1>4, <2>1, <3>2, ZenonT(40) DEF Counted
    <3> QED
      BY <3>1, <3>2
  <2>2. ASSUME NEW i \in Places, NEW k \in Places, hand'[i].at = "count", hand'[k].at = "count",
               hand'[i].got[1] = hand'[k].got[1]
        PROVE  i = k
    <3>1. i # j => hand'[i].got[1] # n
      BY <1>3, <1>4, <2>2 DEF Counted
    <3>2. k # j => hand'[k].got[1] # n
      BY <1>3, <1>4, <2>2 DEF Counted
    <3>3. i # j /\ k # j => i = k
      BY <1>3, <2>2 DEF Counted
    <3> QED
      BY <1>1, <2>2, <3>1, <3>2, <3>3
  <2> QED
    BY <2>1, <2>2 DEF Counted
<1>12. Once'
  <2> SUFFICES ASSUME NEW u \in People
               PROVE  /\ \A i, k \in DOMAIN net'[u] : net'[u][i] = net'[u][k] => i = k
                      /\ \A m \in DOMAIN msgs' : Coming(u, m)' => ~Counting(m)'
    BY DEF Once
  <2>1. \A i, k \in DOMAIN net'[u] : net'[u][i] = net'[u][k] => i = k
    BY <1>5 DEF Once
  <2>2. \A m \in DOMAIN msgs' : Coming(u, m)' => ~Counting(m)'
    BY <1>4, <1>6, <1>7, <1>8 DEF Once
  <2> QED
    BY <2>1, <2>2
<1>13. ASSUME NEW u \in People PROVE RightFor(u)'
  <2>1. CASE page[u].load = "history" /\ page[u].sub = hand[j].conv
    <3>1. page'[u].shaken
      BY <2>1, <1>t, InsertsPage
    <3> QED
      BY <3>1, OutOf
  <2>2. CASE ~(page[u].load = "history" /\ page[u].sub = hand[j].conv)
    <3>1. page'[u] = page[u]
      BY <2>2, <1>t, InsertsPage
    <3>2. RightFor(u)
      BY DEF Right
    <3>3. \A m : Seen(u, m)' <=> Seen(u, m)
      BY <3>1 DEF Seen
    <3>4. page[u].load = "history" /\ ~page[u].shaken =>
            /\ page[u].sub # 0
            /\ \A m \in Within(msgs', page[u].sub) : ~Coming(u, m)' /\ ~Counting(m)'
      BY <2>2, <3>2, <1>6, <1>7, <1>9, <1>10 DEF RightFor, StillFor
    <3>5. page[u].sub # 0 /\ page[u].load = "none" /\ ~page[u].shaken =>
            \A i, k \in DOMAIN page[u].view : page[u].view[i] = page[u].view[k] => i = k
      BY <3>2 DEF RightFor, OnceFor, Quiet
    <3>6. page[u].sub # 0 /\ page[u].load = "none" /\ ~page[u].shaken =>
            \A m \in Nat : Seen(u, m)' => m \in Within(msgs', page[u].sub) /\ ~Coming(u, m)' /\ ~Counting(m)'
      BY <3>2, <3>3, <1>6, <1>7, <1>9, <1>10 DEF RightFor, OnceFor, Quiet
    <3>7. page[u].sub # 0 /\ page[u].load = "none" /\ ~page[u].shaken /\ page[u].sub \notin mute' =>
            \A m \in Within(msgs', page[u].sub) : Seen(u, m)' \/ Coming(u, m)' \/ Counting(m)'
      BY <3>2, <3>3, <1>5, <1>6, <1>7, <1>9 DEF RightFor, AllFor, Quiet
    <3> QED
      BY <3>1, <3>4, <3>5, <3>6, <3>7, RightWith
  <2> QED
    BY <2>1, <2>2
<1> QED
  BY <1>11, <1>12, <1>13 DEF Right

\* What a message that is published, or never will be, changes in what is under way.
LEMMA CountEnds ==
  ASSUME Counted, NEW j \in Places, Only(j), hand[j].at = "count", hand'[j].at # "count", msgs' = msgs
  PROVE  /\ \A m : Counting(m)' <=> Counting(m) /\ m # hand[j].got[1]
         /\ Counting(hand[j].got[1])
         /\ Counted'
<1>1. \A k \in Places : k # j => hand'[k] = hand[k]
  BY DEF Only
<1>2. \A k \in Places : k # j /\ hand[k].at = "count" => hand[k].got[1] # hand[j].got[1]
  BY DEF Counted
<1>3. \A m : Counting(m)' <=> Counting(m) /\ m # hand[j].got[1]
  BY <1>1, <1>2 DEF Counting
<1>4. Counted'
  BY <1>1 DEF Counted
<1> QED
  BY <1>3, <1>4 DEF Counting

\* What a published message changes.
LEMMA PublishKeeps ==
  ASSUME TypeOK, Steps, Counted, Once, Right, NEW j \in Places, Publish(j), Only(j), hand'[j].at # "count"
  PROVE  Counted' /\ Once' /\ Right'
<1> DEFINE n == hand[j].got[1]
<1>t. /\ page \in [People -> Pages] /\ online \in [People -> BOOLEAN] /\ net \in [People -> Seq(DOMAIN msgs)]
  BY Typed
<1>0. hand[j].at = "count" /\ msgs' = msgs /\ mute' = mute
  BY DEF Publish
<1>1. /\ \A m : Counting(m)' <=> Counting(m) /\ m # n
      /\ Counting(n) /\ Counted'
  BY <1>0, CountEnds
<1>2. /\ n \in DOMAIN msgs
      /\ \A u \in People : ~online[u] => net'[u] = net[u]
      /\ \A u \in People : online[u] =>
           /\ Len(net[u]) \in Nat /\ DOMAIN net[u] = 1..Len(net[u])
           /\ DOMAIN net'[u] = 1..Len(net[u]) + 1
           /\ \A i \in DOMAIN net[u] : net'[u][i] = net[u][i]
           /\ net'[u][Len(net[u]) + 1] = n
  BY PublishesNet
<1> HIDE DEF n
<1>3. \A u \in People : ~online[u] => \A m : Coming(u, m)' <=> Coming(u, m)
  BY <1>2 DEF Coming
<1>4. \A u \in People : online[u] => \A m : Coming(u, m)' <=> Coming(u, m) \/ m = n
  <2> SUFFICES ASSUME NEW u \in People, online[u], NEW m PROVE Coming(u, m)' <=> Coming(u, m) \/ m = n
    OBVIOUS
  <2>1. DOMAIN net'[u] = DOMAIN net[u] \union {Len(net[u]) + 1}
    BY <1>2
  <2> QED
    BY <2>1, <1>2 DEF Coming
<1>5. \A u \in People : ~Coming(u, n)
  BY <1>1, <1>2 DEF Once
<1>6. Once'
  <2> SUFFICES ASSUME NEW u \in People
               PROVE  /\ \A i, k \in DOMAIN net'[u] : net'[u][i] = net'[u][k] => i = k
                      /\ \A m \in DOMAIN msgs' : Coming(u, m)' => ~Counting(m)'
    BY DEF Once
  <2>1. \A m \in DOMAIN msgs' : Coming(u, m)' => ~Counting(m)'
    BY <1>0, <1>1, <1>3, <1>4, <1>t DEF Once
  <2>2. CASE ~online[u]
    <3>1. \A i, k \in DOMAIN net'[u] : net'[u][i] = net'[u][k] => i = k
      BY <1>2, <2>2 DEF Once
    <3> QED
      BY <2>1, <3>1
  <2>3. CASE online[u]
    <3>1. DOMAIN net'[u] = DOMAIN net[u] \union {Len(net[u]) + 1} /\ Len(net[u]) + 1 \notin DOMAIN net[u]
      BY <1>2, <2>3
    <3>2. \A i \in DOMAIN net[u] : net'[u][i] = net[u][i] /\ net[u][i] # n
      BY <1>2, <1>5, <2>3 DEF Coming
    <3>3. net'[u][Len(net[u]) + 1] = n
      BY <1>2, <2>3
    <3>4. \A i, k \in DOMAIN net[u] : net[u][i] = net[u][k] => i = k
      BY DEF Once
    <3>5. \A i, k \in DOMAIN net'[u] : net'[u][i] = net'[u][k] => i = k
      BY <3>1, <3>2, <3>3, <3>4
    <3> QED
      BY <2>1, <3>5
  <2> QED
    BY <2>2, <2>3
<1>7. ASSUME NEW u \in People PROVE RightFor(u)'
  <2>1. CASE ~online[u]
    <3>1. page'[u].shaken
      BY <2>1, <1>t, PublishesPage
    <3> QED
      BY <3>1, OutOf
  <2>2. CASE online[u]
    <3>1. page'[u] = page[u]
      BY <2>2, <1>t, PublishesPage
    <3>2. RightFor(u)
      BY DEF Right
    <3>3. \A m : Seen(u, m)' <=> Seen(u, m)
      BY <3>1 DEF Seen
    <3>4. \A m : Coming(u, m)' <=> Coming(u, m) \/ m = n
      BY <1>4, <2>2
    <3>5. \A c : Within(msgs', c) = MessagesOf(c)
      BY <1>0 DEF MessagesOf, Within
    <3>6. page[u].load = "history" /\ ~page[u].shaken =>
            /\ page[u].sub # 0
            /\ \A m \in Within(msgs', page[u].sub) : ~Coming(u, m)' /\ ~Counting(m)'
      BY <3>2, <3>4, <3>5, <1>1 DEF RightFor, StillFor
    <3>7. page[u].sub # 0 /\ page[u].load = "none" /\ ~page[u].shaken =>
            \A i, k \in DOMAIN page[u].view : page[u].view[i] = page[u].view[k] => i = k
      BY <3>2 DEF RightFor, OnceFor, Quiet
    <3>8. page[u].sub # 0 /\ page[u].load = "none" /\ ~page[u].shaken =>
            \A m \in Nat : Seen(u, m)' => m \in Within(msgs', page[u].sub) /\ ~Coming(u, m)' /\ ~Counting(m)'
      BY <3>2, <3>3, <3>4, <3>5, <1>1 DEF RightFor, OnceFor, Quiet
    <3>9. page[u].sub # 0 /\ page[u].load = "none" /\ ~page[u].shaken /\ page[u].sub \notin mute' =>
            \A m \in Within(msgs', page[u].sub) : Seen(u, m)' \/ Coming(u, m)' \/ Counting(m)'
      BY <3>2, <3>3, <3>4, <3>5, <1>0, <1>1 DEF RightFor, AllFor, Quiet
    <3> QED
      BY <3>1, <3>6, <3>7, <3>8, <3>9, RightWith
  <2> QED
    BY <2>1, <1>t, <2>2
<1> QED
  BY <1>1, <1>6, <1>7 DEF Right

\* What a message that is stored and never published changes.
LEMMA MuteKeeps ==
  ASSUME TypeOK, Steps, Counted, Once, Right, NEW j \in Places, Fails(j), Only(j), hand[j].at = "count",
         hand'[j].at # "count", page' = page
  PROVE  Counted' /\ Once' /\ Right'
<1> DEFINE n == hand[j].got[1]
<1>0. msgs' = msgs /\ net' = net /\ mute' = mute \union {hand[j].conv}
  BY DEF Fails
<1>1. /\ \A m : Counting(m)' <=> Counting(m) /\ m # n
      /\ Counted'
  BY <1>0, CountEnds
<1>2. n \in DOMAIN msgs /\ msgs[n].conv = hand[j].conv
  BY DEF Counted
<1> HIDE DEF n
<1>3. \A u \in People : \A m : Coming(u, m)' <=> Coming(u, m)
  BY <1>0 DEF Coming
<1>4. \A c : Within(msgs', c) = MessagesOf(c)
  BY <1>0 DEF MessagesOf, Within
<1>5. \A c : n \in MessagesOf(c) => c = hand[j].conv
  BY <1>2 DEF MessagesOf
<1>6. Once'
  BY <1>0, <1>1, <1>3 DEF Once
<1>7. ASSUME NEW u \in People PROVE RightFor(u)'
  <2>1. RightFor(u) /\ page'[u] = page[u]
    BY DEF Right
  <2>2. \A m : Seen(u, m)' <=> Seen(u, m)
    BY <2>1 DEF Seen
  <2>3. page[u].load = "history" /\ ~page[u].shaken =>
          /\ page[u].sub # 0
          /\ \A m \in Within(msgs', page[u].sub) : ~Coming(u, m)' /\ ~Counting(m)'
    BY <2>1, <1>1, <1>3, <1>4 DEF RightFor, StillFor
  <2>4. page[u].sub # 0 /\ page[u].load = "none" /\ ~page[u].shaken =>
          \A i, k \in DOMAIN page[u].view : page[u].view[i] = page[u].view[k] => i = k
    BY <2>1 DEF RightFor, OnceFor, Quiet
  <2>5. page[u].sub # 0 /\ page[u].load = "none" /\ ~page[u].shaken =>
          \A m \in Nat : Seen(u, m)' => m \in Within(msgs', page[u].sub) /\ ~Coming(u, m)' /\ ~Counting(m)'
    BY <2>1, <2>2, <1>1, <1>3, <1>4 DEF RightFor, OnceFor, Quiet
  <2>6. page[u].sub # 0 /\ page[u].load = "none" /\ ~page[u].shaken /\ page[u].sub \notin mute' =>
          \A m \in Within(msgs', page[u].sub) : Seen(u, m)' \/ Coming(u, m)' \/ Counting(m)'
    BY <2>1, <2>2, <1>0, <1>1, <1>3, <1>4, <1>5 DEF RightFor, AllFor, Quiet
  <2> QED
    BY <2>1, <2>3, <2>4, <2>5, <2>6, RightWith
<1> QED
  BY <1>1, <1>6, <1>7 DEF Right

\* What a page that hears a message makes of it.
LEMMA HearKeeps ==
  ASSUME TypeOK, Counted, Once, Right, NEW u \in People, Hear(u)
  PROVE  Counted' /\ Once' /\ Right'
<1> DEFINE n == Head(net[u])
<1>t. /\ page \in [People -> Pages] /\ \A v \in People : net[v] \in Seq(Nat)
  BY Typed
<1>0. msgs' = msgs /\ mute' = mute /\ hand' = hand
  BY DEF Hear
<1>1. /\ \A v \in People : v # u => net'[v] = net[v]
      /\ Len(net[u]) \in Nat \ {0} /\ DOMAIN net[u] = 1..Len(net[u]) /\ n = net[u][1]
      /\ DOMAIN net'[u] = 1..Len(net[u]) - 1
      /\ \A i \in DOMAIN net'[u] : net'[u][i] = net[u][i + 1]
      /\ n \in DOMAIN msgs
  BY HearsNet
<1>2. /\ OnlyPage(u) /\ n \in Nat
      /\ page'[u].sub = page[u].sub /\ page'[u].load = page[u].load /\ page'[u].shaken = page[u].shaken
      /\ page'[u].view = IF page[u].sub = msgs[n].conv THEN Append(page[u].view, n) ELSE page[u].view
  BY <1>t, HearsPage
<1> HIDE DEF n
<1>3. \A i, k \in DOMAIN net[u] : net[u][i] = net[u][k] => i = k
  BY DEF Once
<1>4. \A m : Coming(u, m)' <=> Coming(u, m) /\ m # n
  <2> TAKE m
  <2>1. Coming(u, m)' => Coming(u, m) /\ m # n
    <3> SUFFICES ASSUME NEW i \in DOMAIN net'[u], net'[u][i] = m PROVE Coming(u, m) /\ m # n
      BY DEF Coming
    <3>1. i \in Nat /\ i + 1 \in DOMAIN net[u] /\ i + 1 # 1 /\ 1 \in DOMAIN net[u] /\ net[u][i + 1] = m
      BY <1>1
    <3> QED
      BY <3>1, <1>1, <1>3 DEF Coming
  <2>2. Coming(u, m) /\ m # n => Coming(u, m)'
    <3> SUFFICES ASSUME NEW i \in DOMAIN net[u], net[u][i] = m, m # n PROVE Coming(u, m)'
      BY DEF Coming
    <3>1. i # 1 /\ i \in Nat
      BY <1>1
    <3>2. i - 1 \in DOMAIN net'[u] /\ (i - 1) + 1 = i
      BY <3>1, <1>1
    <3>3. net'[u][i - 1] = m
      BY <3>2, <1>1
    <3> QED
      BY <3>2, <3>3 DEF Coming
  <2> QED
    BY <2>1, <2>2
<1>5. Coming(u, n)
  BY <1>1 DEF Coming
<1>6. \A m : Counting(m)' <=> Counting(m)
  BY <1>0 DEF Counting
<1>7. \A c : Within(msgs', c) = MessagesOf(c)
  BY <1>0 DEF MessagesOf, Within
<1>8. Counted'
  BY <1>0 DEF Counted
<1>9. Once'
  <2> SUFFICES ASSUME NEW v \in People
               PROVE  /\ \A i, k \in DOMAIN net'[v] : net'[v][i] = net'[v][k] => i = k
                      /\ \A m \in DOMAIN msgs' : Coming(v, m)' => ~Counting(m)'
    BY DEF Once
  <2>1. CASE v = u
    <3>1. \A i, k \in DOMAIN net'[u] : net'[u][i] = net'[u][k] => i = k
      <4> SUFFICES ASSUME NEW i \in DOMAIN net'[u], NEW k \in DOMAIN net'[u], net'[u][i] = net'[u][k] PROVE i = k
        OBVIOUS
      <4>1. i \in Nat /\ k \in Nat /\ i + 1 \in DOMAIN net[u] /\ k + 1 \in DOMAIN net[u]
        BY <1>1
      <4>2. net[u][i + 1] = net[u][k + 1]
        BY <1>1
      <4>3. i + 1 = k + 1
        BY <4>1, <4>2, <1>3
      <4> QED
        BY <4>1, <4>3
    <3>2. \A m \in DOMAIN msgs' : Coming(u, m)' => ~Counting(m)'
      BY <1>0, <1>4, <1>6 DEF Once
    <3> QED
      BY <2>1, <3>1, <3>2
  <2>2. CASE v # u
    <3>1. net'[v] = net[v]
      BY <1>1, <2>2
    <3>2. \A m : Coming(v, m)' <=> Coming(v, m)
      BY <3>1 DEF Coming
    <3>3. \A m \in DOMAIN msgs' : Coming(v, m)' => ~Counting(m)'
      BY <1>0, <3>2, <1>6 DEF Once
    <3>4. \A i, k \in DOMAIN net'[v] : net'[v][i] = net'[v][k] => i = k
      BY <3>1 DEF Once
    <3> QED
      BY <3>3, <3>4
  <2> QED
    BY <2>1, <2>2
<1>10. ASSUME NEW v \in People, v # u PROVE RightFor(v)'
  <2>1. page'[v] = page[v] /\ RightFor(v) /\ net'[v] = net[v]
    BY <1>1, <1>2, <1>10 DEF OnlyPage, Right
  <2>2. \A m : Seen(v, m)' <=> Seen(v, m)
    BY <2>1 DEF Seen
  <2>3. \A m : Coming(v, m)' <=> Coming(v, m)
    BY <2>1 DEF Coming
  <2>4. page[v].load = "history" /\ ~page[v].shaken =>
          /\ page[v].sub # 0
          /\ \A m \in Within(msgs', page[v].sub) : ~Coming(v, m)' /\ ~Counting(m)'
    BY <2>1, <2>3, <1>6, <1>7 DEF RightFor, StillFor
  <2>5. page[v].sub # 0 /\ page[v].load = "none" /\ ~page[v].shaken =>
          \A i, k \in DOMAIN page[v].view : page[v].view[i] = page[v].view[k] => i = k
    BY <2>1 DEF RightFor, OnceFor, Quiet
  <2>6. page[v].sub # 0 /\ page[v].load = "none" /\ ~page[v].shaken =>
          \A m \in Nat : Seen(v, m)' => m \in Within(msgs', page[v].sub) /\ ~Coming(v, m)' /\ ~Counting(m)'
    BY <2>1, <2>2, <2>3, <1>6, <1>7 DEF RightFor, OnceFor, Quiet
  <2>7. page[v].sub # 0 /\ page[v].load = "none" /\ ~page[v].shaken /\ page[v].sub \notin mute' =>
          \A m \in Within(msgs', page[v].sub) : Seen(v, m)' \/ Coming(v, m)' \/ Counting(m)'
    BY <2>1, <2>2, <2>3, <1>0, <1>6, <1>7 DEF RightFor, AllFor, Quiet
  <2> QED
    BY <2>1, <2>4, <2>5, <2>6, <2>7, RightWith
<1>11. RightFor(u)'
  <2>0. RightFor(u) /\ page[u].view \in Seq(Nat)
    BY <1>t, PageIs DEF Right
  <2>1. page[u].load = "history" /\ ~page[u].shaken =>
          /\ page[u].sub # 0
          /\ \A m \in Within(msgs', page[u].sub) : ~Coming(u, m)' /\ ~Counting(m)'
    BY <2>0, <1>4, <1>6, <1>7 DEF RightFor, StillFor
  <2>2. CASE page[u].sub # msgs[n].conv
    <3>1. page'[u].view = page[u].view
      BY <1>2, <2>2
    <3>2. \A m : Seen(u, m)' <=> Seen(u, m)
      BY <3>1 DEF Seen
    <3>3. n \notin MessagesOf(page[u].sub)
      BY <2>2 DEF MessagesOf
    <3>4. page[u].sub # 0 /\ page[u].load = "none" /\ ~page[u].shaken =>
            \A i, k \in DOMAIN page[u].view : page[u].view[i] = page[u].view[k] => i = k
      BY <2>0 DEF RightFor, OnceFor, Quiet
    <3>5. page[u].sub # 0 /\ page[u].load = "none" /\ ~page[u].shaken =>
            \A m \in Nat : Seen(u, m)' => m \in Within(msgs', page[u].sub) /\ ~Coming(u, m)' /\ ~Counting(m)'
      BY <2>0, <3>2, <1>4, <1>6, <1>7 DEF RightFor, OnceFor, Quiet
    <3>6. page[u].sub # 0 /\ page[u].load = "none" /\ ~page[u].shaken /\ page[u].sub \notin mute' =>
            \A m \in Within(msgs', page[u].sub) : Seen(u, m)' \/ Coming(u, m)' \/ Counting(m)'
      BY <2>0, <3>2, <3>3, <1>0, <1>4, <1>6, <1>7 DEF RightFor, AllFor, Quiet
    <3> QED
      BY <1>2, <2>1, <3>1, <3>4, <3>5, <3>6, RightWith
  <2>3. CASE page[u].sub = msgs[n].conv
    <3> DEFINE view == page[u].view
               l == Len(view)
    <3>1. page'[u].view = Append(view, n)
      BY <1>2, <2>3
    <3>2. /\ l \in Nat /\ DOMAIN view = 1..l
          /\ Append(view, n) \in Seq(Nat) /\ Len(Append(view, n)) = l + 1
          /\ \A i \in 1..l : Append(view, n)[i] = view[i]
          /\ Append(view, n)[l + 1] = n
      BY <2>0, <1>2, LenProperties, AppendProperties
    <3>3. DOMAIN page'[u].view = DOMAIN view \union {l + 1} /\ l + 1 \notin DOMAIN view
      <4>1. DOMAIN Append(view, n) = 1..l + 1
        BY <3>2, LenProperties
      <4> QED
        BY <3>1, <3>2, <4>1
    <3>4. (\A i \in DOMAIN view : page'[u].view[i] = view[i]) /\ page'[u].view[l + 1] = n
      BY <3>1, <3>2
    <3> HIDE DEF l
    <3>5. \A m : Seen(u, m)' <=> Seen(u, m) \/ m = n
      BY <3>3, <3>4 DEF Seen
    <3> HIDE DEF view
    <3>6. n \in MessagesOf(page[u].sub)
      BY <1>1, <2>3 DEF MessagesOf
    <3>7. ~Counting(n)
      BY <1>1, <1>5 DEF Once
    <3>8. page[u].sub # 0 /\ page[u].load = "none" /\ ~page[u].shaken =>
            \A i, k \in DOMAIN page'[u].view : page'[u].view[i] = page'[u].view[k] => i = k
      <4> SUFFICES ASSUME page[u].sub # 0, page[u].load = "none", ~page[u].shaken
                   PROVE  \A i, k \in DOMAIN page'[u].view : page'[u].view[i] = page'[u].view[k] => i = k
        OBVIOUS
      <4>1. \A i, k \in DOMAIN view : view[i] = view[k] => i = k
        BY <2>0 DEF RightFor, OnceFor, Quiet, view
      <4>2. ~Seen(u, n)
        BY <2>0, <1>2, <1>5 DEF RightFor, OnceFor, Quiet
      <4>3. \A i \in DOMAIN view : view[i] # n
        BY <4>2 DEF Seen, view
      <4> QED
        BY <3>3, <3>4, <4>1, <4>3
    <3>9. page[u].sub # 0 /\ page[u].load = "none" /\ ~page[u].shaken =>
            \A m \in Nat : Seen(u, m)' => m \in Within(msgs', page[u].sub) /\ ~Coming(u, m)' /\ ~Counting(m)'
      BY <2>0, <3>5, <3>6, <3>7, <1>4, <1>6, <1>7 DEF RightFor, OnceFor, Quiet
    <3>10. page[u].sub # 0 /\ page[u].load = "none" /\ ~page[u].shaken /\ page[u].sub \notin mute' =>
            \A m \in Within(msgs', page[u].sub) : Seen(u, m)' \/ Coming(u, m)' \/ Counting(m)'
      BY <2>0, <3>5, <1>0, <1>4, <1>6, <1>7 DEF RightFor, AllFor, Quiet
    <3> QED
      BY <1>2, <2>1, <3>8, <3>9, <3>10, RightWith
  <2> QED
    BY <2>2, <2>3
<1> QED
  BY <1>8, <1>9, <1>10, <1>11 DEF Right

\* What a lost connection changes.
LEMMA DropKeeps ==
  ASSUME TypeOK, Steps, Counted, Once, Right, NEW u \in People, Drop(u)
  PROVE  Counted' /\ Once' /\ Right'
<1>t. page \in [People -> Pages] /\ net \in [People -> Seq(DOMAIN msgs)]
  BY Typed
<1>0. msgs' = msgs /\ mute' = mute /\ net' = [net EXCEPT ![u] = <<>>]
  BY DEF Drop
<1>1. \A k \in Places : hand'[k] = hand[k] \/ (hand'[k] = NoWork /\ hand[k].at = "sent")
  BY LosesIt
<1>2. SameCounts
  BY <1>1, NoWorkFields DEF SameCounts
<1>3. \A m : Counting(m)' <=> Counting(m)
  BY <1>2, LevelCounts
<1>4. \A v \in People : v # u => net'[v] = net[v]
  BY <1>0, <1>t
<1>5. net'[u] = <<>>
  BY <1>0, <1>t
<1>6. \A m : ~Coming(u, m)'
  BY <1>5 DEF Coming
<1>7. \A v \in People : v # u => \A m : Coming(v, m)' <=> Coming(v, m)
  BY <1>4 DEF Coming
<1>8. Counted'
  BY <1>0, <1>2 DEF SameCounts, Counted
<1>9. Once'
  <2> SUFFICES ASSUME NEW v \in People
               PROVE  /\ \A i, k \in DOMAIN net'[v] : net'[v][i] = net'[v][k] => i = k
                      /\ \A m \in DOMAIN msgs' : Coming(v, m)' => ~Counting(m)'
    BY DEF Once
  <2>1. CASE v = u
    BY <2>1, <1>5, <1>6
  <2>2. CASE v # u
    <3>1. \A i, k \in DOMAIN net'[v] : net'[v][i] = net'[v][k] => i = k
      BY <2>2, <1>4 DEF Once
    <3>2. \A m \in DOMAIN msgs' : Coming(v, m)' => ~Counting(m)'
      BY <2>2, <1>0, <1>3, <1>7 DEF Once
    <3> QED
      BY <3>1, <3>2
  <2> QED
    BY <2>1, <2>2
<1>10. RightFor(u)'
  BY <1>t, DropsPage, OutOf
<1>11. ASSUME NEW v \in People, v # u PROVE RightFor(v)'
  <2>1. page'[v] = page[v] /\ RightFor(v)
    BY <1>11, <1>t, DropsPage DEF OnlyPage, Right
  <2>2. \A m : Seen(v, m)' <=> Seen(v, m)
    BY <2>1 DEF Seen
  <2>3. \A m : Coming(v, m)' <=> Coming(v, m)
    BY <1>7, <1>11
  <2>c. \A c : Within(msgs', c) = MessagesOf(c)
    BY <1>0 DEF MessagesOf, Within
  <2>4. page[v].load = "history" /\ ~page[v].shaken =>
          /\ page[v].sub # 0
          /\ \A m \in Within(msgs', page[v].sub) : ~Coming(v, m)' /\ ~Counting(m)'
    BY <2>1, <2>3, <1>3, <2>c DEF RightFor, StillFor
  <2>5. page[v].sub # 0 /\ page[v].load = "none" /\ ~page[v].shaken =>
          \A i, k \in DOMAIN page[v].view : page[v].view[i] = page[v].view[k] => i = k
    BY <2>1 DEF RightFor, OnceFor, Quiet
  <2>6. page[v].sub # 0 /\ page[v].load = "none" /\ ~page[v].shaken =>
          \A m \in Nat : Seen(v, m)' => m \in Within(msgs', page[v].sub) /\ ~Coming(v, m)' /\ ~Counting(m)'
    BY <2>1, <2>2, <2>3, <1>3, <2>c DEF RightFor, OnceFor, Quiet
  <2>7. page[v].sub # 0 /\ page[v].load = "none" /\ ~page[v].shaken /\ page[v].sub \notin mute' =>
          \A m \in Within(msgs', page[v].sub) : Seen(v, m)' \/ Coming(v, m)' \/ Counting(m)'
    BY <2>1, <2>2, <2>3, <1>0, <1>3, <2>c DEF RightFor, AllFor, Quiet
  <2> QED
    BY <2>1, <2>4, <2>5, <2>6, <2>7, RightWith
<1> QED
  BY <1>8, <1>9, <1>10, <1>11 DEF Right

\* The answer a page waited for is shown, and is right.
LEMMA LoadedKeeps ==
  ASSUME TypeOK, Steps, Waits, Counted, Once, Answered, Right, NEW j \in Places, Loaded(j)
  PROVE  Counted' /\ Once' /\ Right'
<1>t. /\ page \in [People -> Pages]
      /\ \A d : MessagesOf(d) \in SUBSET Nat /\ IsFiniteSet(MessagesOf(d))
  BY Typed
<1>p. PICK u \in People, c \in {hand[j].conv} : u = hand[j].user
  BY <1>t, LoadsPage
<1>1. /\ hand[j].kind = "history" /\ hand[j].at = "answer"
      /\ u \in People /\ OnlyPage(u)
      /\ ~hand[j].live => page' = page
      /\ page'[u].sub = page[u].sub /\ page'[u].shaken = page[u].shaken
      /\ hand[j].live => page'[u].load = "none" /\ page'[u].view = hand[j].got
  BY <1>t, <1>p, LoadsPage
<1>2. Level
  <2>1. Only(j) /\ hand'[j].at = "idle"
    BY EndIs DEF Loaded
  <2> QED
    BY <1>1, <2>1, OnlyLevel DEF Level, Loaded
<1>3. Counted' /\ Once'
  BY <1>2, LevelKeeps
<1>4. ASSUME NEW v \in People, page'[v] = page[v] PROVE RightFor(v)'
  BY <1>2, <1>4, LevelPage DEF Right
<1>5. CASE ~hand[j].live
  BY <1>1, <1>3, <1>4, <1>5 DEF Right
<1>6. CASE hand[j].live
  <2>1. \A v \in People : v # u => RightFor(v)'
    BY <1>1, <1>4 DEF OnlyPage
  <2>2. CASE page'[u].shaken
    BY <1>1, <1>3, <2>1, <2>2, OutOf DEF Right
  <2>3. CASE ~page'[u].shaken
    <3>1. page[u].load = "history" /\ page[u].sub = c /\ ~page[u].shaken
      BY <1>1, <1>p, <1>6, <2>3 DEF Waits
    <3>2. hand[j].got = InOrder(MessagesOf(c))
      BY <1>1, <1>p, <1>6, <3>1 DEF Answered
    <3> DEFINE S == MessagesOf(c)
               q == InOrder(S)
    <3>3. /\ q \in Seq(S)
          /\ \A i, k \in DOMAIN q : q[i] = q[k] => i = k
          /\ \A m \in S : \E i \in DOMAIN q : q[i] = m
      BY <1>t, InOrderIs
    <3>4. page'[u].view = q
      BY <1>1, <1>6, <3>2
    <3>5. \A m \in S : ~Coming(u, m) /\ ~Counting(m)
      BY <1>1, <3>1 DEF Right, RightFor, StillFor
    <3>6. Within(msgs', c) = S
      BY <1>2 DEF Level, Within, MessagesOf
    <3> HIDE DEF S, q
    <3>7. \A i \in DOMAIN q : q[i] \in S
      BY <3>3, LenProperties, ElementOfSeq
    <3>8. \A m : Seen(u, m)' <=> m \in S
      BY <3>3, <3>4, <3>7 DEF Seen
    <3>9. \A m : Counting(m)' <=> Counting(m)
      BY <1>2, LevelCounts DEF Level
    <3>10. \A m : Coming(u, m)' <=> Coming(u, m)
      BY <1>2 DEF Level, Coming
    <3>11. page'[u].sub = c /\ page'[u].load = "none"
      BY <1>1, <1>6, <3>1
    <3>12. \A i, k \in DOMAIN page'[u].view : page'[u].view[i] = page'[u].view[k] => i = k
      BY <3>3, <3>4
    <3>13. \A m \in Nat : Seen(u, m)' => m \in Within(msgs', page'[u].sub) /\ ~Coming(u, m)' /\ ~Counting(m)'
      BY <3>5, <3>6, <3>8, <3>9, <3>10, <3>11
    <3>14. \A m \in Within(msgs', page'[u].sub) : Seen(u, m)'
      BY <3>6, <3>8, <3>11
    <3>15. RightFor(u)'
      BY <1>1, <3>11, <3>12, <3>13, <3>14, RightWith
    <3> QED
      BY <1>1, <1>3, <2>1, <3>15 DEF Right
  <2> QED
    BY <2>2, <2>3
<1> QED
  BY <1>5, <1>6

\* The page hears its conversation from now on.
LEMMA OpenedKeeps ==
  ASSUME TypeOK, Steps, Placed, Counted, Once, Right, NEW j \in Places, Opened(j)
  PROVE  Counted' /\ Once' /\ Right'
<1>t. page \in [People -> Pages] /\ net \in [People -> Seq(DOMAIN msgs)] /\ \A v \in People : net[v] \in Seq(Nat)
  BY Typed
<1>p. PICK u \in People, c \in {hand[j].conv} : u = hand[j].user
  BY <1>t, OpensPage
<1>0. /\ Only(j) /\ hand[j].kind = "open" /\ hand[j].at = "answer"
      /\ hand[j].live => hand'[j].at = "select"
      /\ ~hand[j].live => hand'[j] = NoWork
  BY OpensIt
<1>1. /\ u \in People /\ OnlyPage(u)
      /\ ~hand[j].live => page' = page
      /\ hand[j].live =>
           /\ page'[u].sub = c /\ page'[u].load = "history"
           /\ ~page'[u].shaken => ~UnderWay(c, u)
  BY <1>t, <1>p, OpensPage
<1>2. Level
  <2>1. hand'[j].at # "count"
    BY <1>0, NoWorkFields
  <2> QED
    BY <1>0, <2>1, OnlyLevel DEF Level, Opened
<1>3. Counted' /\ Once'
  BY <1>2, LevelKeeps
<1>4. ASSUME NEW v \in People, page'[v] = page[v] PROVE RightFor(v)'
  BY <1>2, <1>4, LevelPage DEF Right
<1>5. CASE ~hand[j].live
  BY <1>1, <1>3, <1>4, <1>5 DEF Right
<1>6. CASE hand[j].live
  <2>1. \A v \in People : v # u => RightFor(v)'
    BY <1>1, <1>4 DEF OnlyPage
  <2>2. CASE page'[u].shaken
    BY <1>1, <1>3, <2>1, <2>2, OutOf DEF Right
  <2>3. CASE ~page'[u].shaken
    <3>1. ~UnderWay(c, u)
      BY <1>1, <1>6, <2>3
    <3>2. \A m \in MessagesOf(c) : ~Coming(u, m)
      BY <3>1 DEF UnderWay, Coming, MessagesOf
    <3>3. \A m \in MessagesOf(c) : ~Counting(m)
      BY <3>1 DEF UnderWay, Counting, MessagesOf, Counted
    <3>4. Within(msgs', c) = MessagesOf(c)
      BY <1>2 DEF Level, Within, MessagesOf
    <3>5. \A m : Counting(m)' <=> Counting(m)
      BY <1>2, LevelCounts DEF Level
    <3>6. \A m : Coming(u, m)' <=> Coming(u, m)
      BY <1>2 DEF Level, Coming
    <3>7. c # 0
      BY <1>0, <1>p DEF Placed
    <3>8. page'[u].sub = c /\ page'[u].load = "history"
      BY <1>1, <1>6
    <3>9. /\ page'[u].sub # 0
          /\ \A m \in Within(msgs', page'[u].sub) : ~Coming(u, m)' /\ ~Counting(m)'
      BY <3>2, <3>3, <3>4, <3>5, <3>6, <3>7, <3>8
    <3>10. RightFor(u)'
      BY <1>1, <3>8, <3>9, RightWith
    <3> QED
      BY <1>1, <1>3, <2>1, <3>10 DEF Right
  <2> QED
    BY <2>2, <2>3
<1> QED
  BY <1>5, <1>6

\* Every page stays right.
LEMMA RightKept ==
  TypeOK /\ Steps /\ Placed /\ Waits /\ Counted /\ Once /\ Answered /\ Right /\ [Next]_vars
    => Counted' /\ Once' /\ Right'
<1> SUFFICES ASSUME TypeOK, Steps, Placed, Waits, Counted, Once, Answered, Right, [Next]_vars
             PROVE  Counted' /\ Once' /\ Right'
  OBVIOUS
<1> DEFINE All == Counted' /\ Once' /\ Right'
<1>t. page \in [People -> Pages] /\ \A u \in People : net[u] \in Seq(Nat)
  BY Typed
<1>l. ASSUME Level, NEW u \in People, OnlyPage(u), page'[u] = page[u] \/ RightFor(u)' PROVE All
  <2>1. \A v \in People : page'[v] = page[v] => RightFor(v)'
    BY <1>l, LevelPage DEF Right
  <2>2. Right'
    BY <2>1, <1>l DEF OnlyPage, Right
  <2> QED
    BY <1>l, <2>2, LevelKeeps
<1>m. ASSUME Level, page' = page PROVE All
  <2>1. Right'
    BY <1>m, LevelPage DEF Right
  <2> QED
    BY <1>m, <2>1, LevelKeeps
<1>1. ASSUME NEW j \in Places,
             \/ LookUp(j) \/ CreateConversation(j) \/ SelectMessages(j)
             \/ \E u \in People : Send(u, j)
             \/ SendFails(j) /\ hand[j].at # "count"
             \/ GrokApologises(j) /\ hand[j].at # "count"
      PROVE  All
  BY <1>1, <1>m, LevelSteps
<1>2. ASSUME NEW j \in Places, InsertMessage(j) PROVE All
  BY <1>2, InsertKeeps
<1>3. ASSUME NEW j \in Places, HandleSend(j) \/ ProcessGrokResponse(j) PROVE All
  <2>1. Publish(j) /\ Done(j)
    BY <1>3 DEF HandleSend, ProcessGrokResponse
  <2>2. Only(j) /\ hand'[j].at = "idle"
    BY <2>1, EndIs
  <2> QED
    BY <2>1, <2>2, PublishKeeps
<1>4. ASSUME NEW j \in Places, HandleGrokMessage(j) PROVE All
  <2>1. Publish(j)
    BY <1>4 DEF HandleGrokMessage
  <2>2. Only(j) /\ hand'[j].at = "insert"
    BY <1>4, GrokTakesIt
  <2> QED
    BY <2>1, <2>2, PublishKeeps
<1>5. ASSUME NEW j \in Places, SendFails(j), hand[j].at = "count" PROVE All
  <2>1. Fails(j) /\ page' = page
    BY <1>5 DEF SendFails
  <2>2. Only(j) /\ hand'[j].at = "idle"
    BY <1>5, EndIs DEF SendFails
  <2> QED
    BY <1>5, <2>1, <2>2, MuteKeeps
<1>6. ASSUME NEW j \in Places, GrokApologises(j), hand[j].at = "count" PROVE All
  <2>1. Fails(j) /\ page' = page
    BY <1>6 DEF GrokApologises
  <2>2. Only(j) /\ hand'[j].at = "insert"
    BY <1>6, ApologisesIt
  <2> QED
    BY <1>6, <2>1, <2>2, MuteKeeps
<1>7. ASSUME NEW j \in Places, Opened(j) PROVE All
  BY <1>7, OpenedKeeps
<1>8. ASSUME NEW j \in Places, Loaded(j) PROVE All
  BY <1>8, LoadedKeeps
<1>9. ASSUME NEW j \in Places, LoadFails(j) PROVE All
  <2>p. PICK u \in People : u = hand[j].user
    BY <1>9, <1>t, FailsPage
  <2>1. /\ hand[j].at # "count"
        /\ OnlyPage(u)
        /\ ~hand[j].live => page' = page
        /\ hand[j].live => page'[u].shaken
    BY <1>9, <1>t, <2>p, FailsPage
  <2>2. Only(j) /\ hand'[j].at = "idle"
    BY <1>9, EndIs DEF LoadFails
  <2>3. Level
    <3>1. mute' = mute /\ msgs' = msgs /\ net' = net
      BY <1>9, <2>1 DEF LoadFails, Fails
    <3> QED
      BY <2>1, <2>2, <3>1, OnlyLevel DEF Level
  <2>4. page'[u] = page[u] \/ RightFor(u)'
    BY <2>1, OutOf
  <2> QED
    BY <2>1, <2>3, <2>4, <1>l
<1>10. ASSUME NEW j \in Places, NEW u \in People, NEW v \in Users, LoadConversation(u, v, j) PROVE All
  <2>1. /\ hand'[j].at = "look" /\ hand[j] = NoWork
        /\ \A k \in Places \ {j} :
              hand'[k].conv = hand[k].conv /\ hand'[k].at = hand[k].at /\ hand'[k].got = hand[k].got
    BY <1>10, Turns
  <2>2. SameCounts
    BY <2>1, NoWorkFields DEF SameCounts
  <2>3. Level
    BY <1>10, <2>2 DEF Level, LoadConversation
  <2>4. OnlyPage(u) /\ page'[u].load = "open"
    BY <1>10, <1>t, TurnsPage
  <2>5. RightFor(u)'
    BY <2>4, OutOf
  <2> QED
    BY <2>3, <2>4, <2>5, <1>l
<1>11. ASSUME NEW u \in People, Leave(u) PROVE All
  <2>1. \A k \in Places : hand'[k].conv = hand[k].conv /\ hand'[k].at = hand[k].at /\ hand'[k].got = hand[k].got
    BY <1>11, UnheardIs DEF Leave
  <2>3. Level
    BY <1>11, <2>1 DEF Level, SameCounts, Leave
  <2>4. OnlyPage(u) /\ page'[u].load = "none" /\ page'[u].sub = 0
    BY <1>11, <1>t, LeavesPage
  <2>5. RightFor(u)'
    BY <2>4, OutOf
  <2> QED
    BY <2>3, <2>4, <2>5, <1>l
<1>12. ASSUME NEW u \in People, Hear(u) PROVE All
  BY <1>12, HearKeeps
<1>13. ASSUME NEW u \in People, Drop(u) PROVE All
  BY <1>13, DropKeeps
<1>14. ASSUME NEW u \in People, Reconnect(u) PROVE All
  BY <1>14, <1>m DEF Reconnect, Level, SameCounts
<1>15. ASSUME UNCHANGED vars PROVE All
  BY <1>15, <1>m DEF vars, Level, SameCounts
<1> HIDE DEF All
<1>16. All
  BY <1>1, <1>2, <1>3, <1>4, <1>5, <1>6, <1>7, <1>8, <1>9, <1>10, <1>11, <1>12, <1>13, <1>14, <1>15
  DEF Next, Server, Enter, TurnTo, OpenConversation
<1> QED
  BY <1>16 DEF All

\* The answers that pages wait for are right.
LEMMA AnsweredKept ==
  TypeOK /\ Steps /\ Placed /\ OneLoader /\ Waits /\ Answered /\ [Next]_vars => Answered'
<1> SUFFICES ASSUME TypeOK, Steps, Placed, OneLoader, Waits, Answered, [Next]_vars PROVE Answered'
  OBVIOUS
<1> DEFINE Waiting(k) == hand'[k].kind = "history" /\ hand'[k].at = "answer" /\ hand'[k].live
           Got(k) == Waiting(k) /\ ~page'[hand'[k].user].shaken
                       => hand'[k].got = InOrder(Within(msgs', hand'[k].conv))
           Same(k) == /\ hand[k].kind = "history" /\ hand[k].at = "answer" /\ hand[k].live
                      /\ hand'[k].user = hand[k].user /\ hand'[k].conv = hand[k].conv /\ hand'[k].got = hand[k].got
<1>t. /\ page \in [People -> Pages] /\ online \in [People -> BOOLEAN] /\ \A v \in People : net[v] \in Seq(Nat)
      /\ convs \in Seq(SUBSET Users) /\ Len(convs) \in Nat /\ Len(msgs) \in Nat /\ DOMAIN msgs = 1..Len(msgs)
      /\ \A c : MessagesOf(c) \in SUBSET Nat /\ IsFiniteSet(MessagesOf(c))
  BY Typed
<1>0. (\A k \in Places : Got(k)) => Answered'
  BY DEF Answered, MessagesOf, Within
<1>w. ASSUME msgs' = msgs, NEW c PROVE Within(msgs', c) = MessagesOf(c)
  BY <1>w DEF Within, MessagesOf
<1>u. \A k \in Places : hand[k].kind = "history" => hand[k].user \in People
  BY JobsAre
\* An answer is still right.
<1>s. ASSUME NEW k \in Places, Waiting(k) => Same(k), hand[k].user \in People /\ Same(k) =>
               (~page'[hand[k].user].shaken =>
                  ~page[hand[k].user].shaken /\ Within(msgs', hand[k].conv) = MessagesOf(hand[k].conv))
      PROVE  Got(k)
  <2> SUFFICES ASSUME Waiting(k), ~page'[hand'[k].user].shaken
               PROVE  hand'[k].got = InOrder(Within(msgs', hand'[k].conv))
    OBVIOUS
  <2>1. Same(k) /\ hand[k].user \in People
    BY <1>s, <1>u
  <2>2. ~page[hand[k].user].shaken /\ Within(msgs', hand[k].conv) = MessagesOf(hand[k].conv)
    BY <1>s, <2>1
  <2>3. hand[k].got = InOrder(MessagesOf(hand[k].conv))
    BY <2>1, <2>2 DEF Answered
  <2> QED
    BY <2>1, <2>2, <2>3
<1> DEFINE Keeps == \A v \in People : page[v].shaken => page'[v].shaken
<1>o. ASSUME msgs' = msgs, Keeps, NEW j \in Places, Only(j), hand'[j].kind # "history" PROVE Answered'
  <2>1. \A k \in Places : Waiting(k) => Same(k)
    BY <1>o DEF Only
  <2>2. \A k \in Places : Got(k)
    BY <1>o, <1>s, <1>w, <2>1
  <2> QED
    BY <2>2, <1>0
<1>d. ASSUME msgs' = msgs, Keeps, NEW j \in Places, Done(j) PROVE Answered'
  <2>1. Only(j) /\ hand'[j].kind = "none"
    BY <1>d, EndIs
  <2> QED
    BY <1>d, <2>1, <1>o
<1>1. ASSUME NEW j \in Places,
             LookUp(j) \/ CreateConversation(j) \/ (\E u \in People : Send(u, j)) \/ GrokApologises(j)
      PROVE  Answered'
  <2>1. msgs' = msgs /\ Keeps
    BY <1>1 DEF LookUp, CreateConversation, Send, GrokApologises, Fails
  <2>2. ASSUME LookUp(j) PROVE Only(j) /\ hand'[j].kind # "history"
    <3>1. Only(j) /\ hand'[j].kind = hand[j].kind /\ hand[j].kind \in {"open", "send"}
      BY <2>2, <1>t, LooksIt
    <3> QED
      BY <3>1
  <2>3. ASSUME CreateConversation(j) PROVE Only(j) /\ hand'[j].kind # "history"
    <3>1. Only(j) /\ hand'[j].kind = hand[j].kind /\ hand[j].kind \in {"open", "send"}
      BY <2>3, <1>t, CreatesIt
    <3> QED
      BY <3>1
  <2>4. ASSUME NEW u \in People, Send(u, j) PROVE Only(j) /\ hand'[j].kind # "history"
    <3>0. page[u] \in Pages
      BY <1>t
    <3>1. Only(j) /\ hand'[j].kind = "send"
      BY <2>4, <3>0, SendsIt
    <3> QED
      BY <3>1
  <2>5. ASSUME GrokApologises(j) PROVE Only(j) /\ hand'[j].kind # "history"
    <3>1. Only(j) /\ hand'[j].kind = "reply"
      BY <2>5, ApologisesIt
    <3> QED
      BY <3>1
  <2>6. Only(j) /\ hand'[j].kind # "history"
    BY <1>1, <2>2, <2>3, <2>4, <2>5
  <2> QED
    BY <2>1, <2>6, <1>o
<1>2. ASSUME NEW j \in Places, SelectMessages(j) PROVE Answered'
  <2>1. /\ Only(j) /\ hand'[j].conv = hand[j].conv
        /\ hand'[j].got = InOrder(MessagesOf(hand[j].conv))
    BY <1>2, <1>t, SelectsIt
  <2>2. msgs' = msgs /\ page' = page
    BY <1>2 DEF SelectMessages
  <2>3. Within(msgs', hand[j].conv) = MessagesOf(hand[j].conv)
    BY <2>2, <1>w
  <2>4. Got(j)
    BY <2>1, <2>3
  <2>5. ASSUME NEW k \in Places, k # j PROVE Got(k)
    <3>1. Waiting(k) => Same(k)
      BY <2>1, <2>5 DEF Only
    <3> QED
      BY <3>1, <2>2, <1>w, <1>s
  <2> QED
    BY <2>4, <2>5, <1>0
<1>3. ASSUME NEW j \in Places, InsertMessage(j) PROVE Answered'
  <2>1. Only(j) /\ hand'[j].at = "count"
    BY <1>3, <1>t, InsertsIt
  <2>2. /\ Shakes
        /\ \A u \in People : page[u].load = "history" /\ page[u].sub = hand[j].conv => page'[u].shaken
    BY <1>3, <1>t, InsertsPage
  <2>3. /\ DOMAIN msgs' = 1..Len(msgs) + 1
        /\ \A k \in DOMAIN msgs : msgs'[k] = msgs[k]
        /\ msgs'[Len(msgs) + 1].conv = hand[j].conv
    BY <1>3, InsertsMsg
  <2>4. ASSUME NEW c, c # hand[j].conv PROVE Within(msgs', c) = MessagesOf(c)
    <3>1. DOMAIN msgs' = DOMAIN msgs \union {Len(msgs) + 1}
      BY <2>3, <1>t
    <3> QED
      BY <2>3, <2>4, <3>1 DEF Within, MessagesOf
  <2>5. ASSUME NEW k \in Places PROVE Got(k)
    <3>1. Waiting(k) => Same(k)
      BY <2>1 DEF Only
    <3>2. hand[k].user \in People /\ Same(k) =>
               (~page'[hand[k].user].shaken =>
                  ~page[hand[k].user].shaken /\ Within(msgs', hand[k].conv) = MessagesOf(hand[k].conv))
      <4> SUFFICES ASSUME hand[k].user \in People, Same(k), ~page'[hand[k].user].shaken
                   PROVE ~page[hand[k].user].shaken /\ Within(msgs', hand[k].conv) = MessagesOf(hand[k].conv)
        OBVIOUS
      <4>1. page[hand[k].user].load = "history" /\ page[hand[k].user].sub = hand[k].conv
        BY DEF Waits
      <4>2. hand[k].conv # hand[j].conv /\ ~page[hand[k].user].shaken
        BY <4>1, <2>2 DEF Shakes
      <4> QED
        BY <4>2, <2>4
    <3> QED
      BY <3>1, <3>2, <1>s
  <2> QED
    BY <2>5, <1>0
<1>4. ASSUME NEW j \in Places, HandleSend(j) \/ ProcessGrokResponse(j) \/ HandleGrokMessage(j) PROVE Answered'
  <2>1. Publish(j)
    BY <1>4 DEF HandleSend, ProcessGrokResponse, HandleGrokMessage
  <2>2. Keeps /\ msgs' = msgs
    <3>1. Shakes /\ msgs' = msgs
      BY <2>1, <1>t, PublishesPage DEF Publish
    <3> QED
      BY <3>1 DEF Shakes
  <2>3. CASE HandleSend(j) \/ ProcessGrokResponse(j)
    BY <2>2, <2>3, <1>d DEF HandleSend, ProcessGrokResponse
  <2>4. CASE HandleGrokMessage(j)
    <3>1. Only(j) /\ hand'[j].kind = "reply"
      BY <2>4, GrokTakesIt
    <3> QED
      BY <2>2, <3>1, <1>o
  <2> QED
    BY <1>4, <2>3, <2>4
<1>5. ASSUME NEW j \in Places, SendFails(j) PROVE Answered'
  <2>1. Done(j) /\ msgs' = msgs /\ Keeps
    BY <1>5 DEF SendFails, Fails
  <2> QED
    BY <2>1, <1>d
<1>6. ASSUME NEW j \in Places, Loaded(j) PROVE Answered'
  <2>1. Done(j) /\ msgs' = msgs
    BY <1>6 DEF Loaded
  <2>2. /\ OnlyPage(hand[j].user) /\ hand[j].user \in People
        /\ page'[hand[j].user].shaken = page[hand[j].user].shaken
    BY <1>6, <1>t, LoadsPage
  <2>3. Keeps
    BY <2>2 DEF OnlyPage
  <2> QED
    BY <2>1, <2>3, <1>d
<1>7. ASSUME NEW j \in Places, LoadFails(j) PROVE Answered'
  <2>1. Done(j) /\ msgs' = msgs
    BY <1>7 DEF LoadFails, Fails
  <2>2. /\ OnlyPage(hand[j].user) /\ hand[j].user \in People
        /\ ~hand[j].live => page' = page
        /\ hand[j].live => page'[hand[j].user].shaken
    BY <1>7, <1>t, FailsPage
  <2>3. Keeps
    BY <2>2 DEF OnlyPage
  <2> QED
    BY <2>1, <2>3, <1>d
<1>8. ASSUME NEW j \in Places, Opened(j) PROVE Answered'
  <2>1. /\ Only(j) /\ hand[j].kind = "open" /\ hand[j].at = "answer"
        /\ hand[j].live => hand'[j].at = "select"
        /\ ~hand[j].live => hand'[j] = NoWork
    BY <1>8, OpensIt
  <2>2. /\ hand[j].user \in People /\ OnlyPage(hand[j].user)
        /\ ~hand[j].live => page' = page
    BY <1>8, <1>t, OpensPage
  <2>3. msgs' = msgs
    BY <1>8 DEF Opened
  <2>4. ~Waiting(j)
    BY <2>1, NoWorkFields
  <2>5. ASSUME NEW k \in Places, k # j PROVE Got(k)
    <3>1. hand'[k] = hand[k]
      BY <2>1, <2>5 DEF Only
    <3>2. Waiting(k) => Same(k)
      BY <3>1
    <3>3. Same(k) => ~hand[j].live \/ hand[k].user # hand[j].user
      BY <2>1, <2>2, <2>5 DEF OneLoader, Loads
    <3>4. hand[k].user \in People /\ Same(k) => page'[hand[k].user] = page[hand[k].user]
      BY <2>2, <3>3 DEF OnlyPage
    <3> QED
      BY <3>2, <3>4, <2>3, <1>w, <1>s
  <2> QED
    BY <2>4, <2>5, <1>0
<1>9. ASSUME NEW j \in Places, NEW u \in People, NEW v \in Users, LoadConversation(u, v, j) PROVE Answered'
  <2>1. /\ hand'[j].kind = "open"
        /\ \A k \in Places \ {j} :
              /\ hand'[k].kind = hand[k].kind /\ hand'[k].user = hand[k].user
              /\ hand'[k].conv = hand[k].conv /\ hand'[k].at = hand[k].at /\ hand'[k].got = hand[k].got
              /\ hand'[k].live => hand[k].live
              /\ ~(hand'[k].kind \in {"open", "history"} /\ hand'[k].user = u /\ hand'[k].live)
    BY <1>9, Turns
  <2>2. OnlyPage(u) /\ msgs' = msgs
    BY <1>9, <1>t, TurnsPage DEF LoadConversation
  <2>3. ASSUME NEW k \in Places PROVE Got(k)
    <3>1. Waiting(k) => k # j /\ Same(k) /\ hand[k].user # u
      BY <2>1
    <3>2. Waiting(k) => page'[hand[k].user] = page[hand[k].user]
      BY <3>1, <1>u, <2>2 DEF OnlyPage
    <3>3. CASE Waiting(k)
      BY <3>1, <3>2, <3>3, <2>2, <1>w, <1>s
    <3>4. CASE ~Waiting(k)
      BY <3>4
    <3> QED
      BY <3>3, <3>4
  <2> QED
    BY <2>3, <1>0
<1>10. ASSUME NEW u \in People, Leave(u) PROVE Answered'
  <2>1. \A k \in Places :
              /\ hand'[k].kind = hand[k].kind /\ hand'[k].user = hand[k].user
              /\ hand'[k].conv = hand[k].conv /\ hand'[k].at = hand[k].at /\ hand'[k].got = hand[k].got
              /\ hand'[k].live => hand[k].live
              /\ ~(hand'[k].kind \in {"open", "history"} /\ hand'[k].user = u /\ hand'[k].live)
    BY <1>10, UnheardIs DEF Leave
  <2>2. OnlyPage(u) /\ msgs' = msgs
    BY <1>10, <1>t, LeavesPage DEF Leave
  <2>3. ASSUME NEW k \in Places PROVE Got(k)
    <3>1. Waiting(k) => Same(k) /\ hand[k].user # u
      BY <2>1
    <3>2. Waiting(k) => page'[hand[k].user] = page[hand[k].user]
      BY <3>1, <1>u, <2>2 DEF OnlyPage
    <3>3. CASE Waiting(k)
      BY <3>1, <3>2, <3>3, <2>2, <1>w, <1>s
    <3>4. CASE ~Waiting(k)
      BY <3>4
    <3> QED
      BY <3>3, <3>4
  <2> QED
    BY <2>3, <1>0
<1>11. ASSUME msgs' = msgs, Keeps, \A k \in Places : hand'[k] = hand[k] \/ hand'[k] = NoWork PROVE Answered'
  <2>1. \A k \in Places : Waiting(k) => Same(k)
    BY <1>11, NoWorkFields
  <2>2. \A k \in Places : Got(k)
    BY <1>11, <1>s, <1>w, <2>1
  <2> QED
    BY <2>2, <1>0
<1>12. ASSUME NEW u \in People, Hear(u) PROVE Answered'
  <2>1. OnlyPage(u) /\ page'[u].shaken = page[u].shaken
    BY <1>12, <1>t, HearsPage
  <2>2. Keeps
    BY <2>1 DEF OnlyPage
  <2>3. msgs' = msgs /\ hand' = hand
    BY <1>12 DEF Hear
  <2> QED
    BY <2>2, <2>3, <1>11
<1>13. ASSUME NEW u \in People, Drop(u) PROVE Answered'
  <2>1. Shakes
    BY <1>13, <1>t, DropsPage
  <2>2. Keeps
    BY <2>1 DEF Shakes
  <2>3. msgs' = msgs /\ \A k \in Places : hand'[k] = hand[k] \/ hand'[k] = NoWork
    BY <1>13, LosesIt DEF Drop
  <2> QED
    BY <2>2, <2>3, <1>11
<1>14. ASSUME NEW u \in People, Reconnect(u) PROVE Answered'
  BY <1>14, <1>11 DEF Reconnect
<1>15. ASSUME UNCHANGED vars PROVE Answered'
  BY <1>15, <1>11 DEF vars
<1> QED
  BY <1>1, <1>2, <1>3, <1>4, <1>5, <1>6, <1>7, <1>8, <1>9, <1>10, <1>12, <1>13, <1>14, <1>15
  DEF Next, Server, Enter, TurnTo, OpenConversation

-----------------------------------------------------------------------------
\* It holds in every state of every behaviour.
LEMMA Invariant == Spec => []Inv
<1>1. Init => Inv
  <2> SUFFICES ASSUME Init PROVE Inv
    OBVIOUS
  <2>1. /\ convs = <<>> /\ msgs = <<>> /\ twice = {} /\ mute = {}
        /\ hand = [k \in Places |-> NoWork]
        /\ page = [v \in People |-> NoPage] /\ net = [v \in People |-> <<>>]
        /\ online = [v \in People |-> TRUE] /\ opens = 0 /\ sends = 0 /\ drops = 0
    BY DEF Init
  <2>2. /\ <<>> \in Seq(SUBSET Users) /\ <<>> \in Seq(Messages) /\ <<>> \in Seq(Nat) /\ <<>> \in Seq(DOMAIN msgs)
        /\ DOMAIN convs = {} /\ DOMAIN msgs = {} /\ Len(convs) = 0 /\ MaxOpens \in Nat
    BY <2>1, EmptySeq, LenProperties DEF MaxOpens
  <2>3. /\ NoPage \in Pages /\ NoPage.with = Nobody /\ NoPage.conv = 0 /\ NoPage.sub = 0
        /\ NoPage.load = "none"
    BY <2>2 DEF NoPage, Pages
  <2>4. \A k \in Places : hand[k] = NoWork
    BY <2>1
  <2>5. \A u \in People : page[u] = NoPage /\ net[u] = <<>>
    BY <2>1
  <2>6. TypeOK
    BY <2>1, <2>2, <2>3 DEF TypeOK
  <2>7. Steps
    BY <2>1, <2>4 DEF Steps, JobOK
  <2>8. OfTwo /\ Placed
    BY <2>2, <2>3, <2>4, <2>5, NoWorkFields DEF OfTwo, Placed
  <2>9. OneConversation
    BY <2>2, <2>4, NoWorkFields DEF OneConversation, OneCreate, Uncreated, CalmOneConversation
  <2>10. Addressed
    BY <2>2, <2>3, <2>4, <2>5, NoWorkFields
    DEF Addressed, OneLoader, Waits, Turned, Meant, CalmAddressed, Loads
  <2>11. Counted /\ Answered
    BY <2>4, NoWorkFields DEF Counted, Answered
  <2>12. Once
    BY <2>2, <2>5 DEF Once
  <2>13. Right
    BY <2>3, <2>5 DEF Right, RightFor, StillFor, OnceFor, AllFor, Quiet
  <2> QED
    BY <2>6, <2>7, <2>8, <2>9, <2>10, <2>11, <2>12, <2>13 DEF Inv
<1>2. Inv /\ [Next]_vars => Inv'
  <2> SUFFICES ASSUME Inv, [Next]_vars PROVE Inv'
    OBVIOUS
  <2>1. TypeOK /\ Steps /\ OfTwo /\ Placed /\ OneConversation /\ Addressed /\ Counted /\ Once /\ Answered /\ Right
    BY DEF Inv
  <2>2. OneLoader /\ Waits
    BY <2>1 DEF Addressed
  <2>3. TypeOK' /\ Steps' /\ OfTwo' /\ Placed'
    BY <2>1, TypesKept, StepsKept, OfTwoKept, PlacedKept
  <2>4. OneConversation' /\ Addressed'
    BY <2>1, OneConversationKept, AddressedKept
  <2>5. Counted' /\ Once' /\ Right'
    BY <2>1, <2>2, RightKept
  <2>6. Answered'
    BY <2>1, <2>2, AnsweredKept
  <2> QED
    BY <2>3, <2>4, <2>5, <2>6 DEF Inv
<1> QED
  BY <1>1, <1>2, PTL DEF Spec

\* What the conversations, the pages and the requests are.
THEOREM ChatTypeCorrect == Spec => []TypeOK
<1>1. Inv => TypeOK
  BY DEF Inv
<1> QED
  BY <1>1, Invariant, PTL

\* getOrCreateConversation gives two users one conversation, unless two requests
\* of theirs were both past the query that found none.
THEOREM OneConversationEach == Spec => []CalmOneConversation
<1>1. Inv => CalmOneConversation
  BY DEF Inv, OneConversation
<1> QED
  BY <1>1, Invariant, PTL

\* chat:send stores a message in the conversation with the user its sender sees,
\* unless the page still had the id of the conversation before.
THEOREM MessagesAddressed == Spec => []CalmAddressed
<1>1. Inv => CalmAddressed
  BY DEF Inv, Addressed
<1> QED
  BY <1>1, Invariant, PTL

\* The ChatComponent that has heard every event shows the messages of its
\* conversation, each once, unless one was on its way while the page loaded, the
\* connection was lost, or a message was stored and never published.
THEOREM ViewsExact == Spec => []CalmViewExact
<1>1. Inv => CalmViewExact
  <2> SUFFICES ASSUME Inv, NEW u \in People,
                      page[u].sub # 0, page[u].load = "none", ~page[u].shaken, page[u].sub \notin mute,
                      ~UnderWay(page[u].sub, u)
               PROVE  /\ Len(page[u].view) = Cardinality(MessagesOf(page[u].sub))
                      /\ ToSet(page[u].view) = MessagesOf(page[u].sub)
    BY DEF CalmViewExact
  <2>1. TypeOK /\ Counted /\ RightFor(u)
    BY DEF Inv, Right
  <2>2. page[u] \in Pages
    BY <2>1, Typed
  <2>3. page[u].view \in Seq(Nat)
    BY <2>2, PageIs
  <2> DEFINE view == page[u].view
             S == MessagesOf(page[u].sub)
  <2>4. \A i, k \in DOMAIN view : view[i] = view[k] => i = k
    BY <2>1 DEF RightFor, OnceFor, Quiet
  <2>5. ASSUME NEW i \in DOMAIN view PROVE view[i] \in S
    <3>1. view[i] \in Nat /\ Seen(u, view[i])
      BY <2>3, LenProperties, ElementOfSeq DEF Seen
    <3> QED
      BY <2>1, <3>1 DEF RightFor, OnceFor, Quiet
  <2>6. ASSUME NEW m \in S PROVE \E i \in DOMAIN view : view[i] = m
    <3>1. ~Coming(u, m)
      BY DEF UnderWay, Coming, MessagesOf
    <3>2. ~Counting(m)
      BY <2>1 DEF UnderWay, Counting, MessagesOf, Counted
    <3>3. Seen(u, m)
      BY <2>1, <3>1, <3>2 DEF RightFor, AllFor, Quiet
    <3> QED
      BY <3>3 DEF Seen
  <2> HIDE DEF view, S
  <2>7. view \in Seq(Nat)
    BY <2>3 DEF view
  <2>8. Len(view) = Cardinality(S) /\ ToSet(view) = S
    BY <2>4, <2>5, <2>6, <2>7, ListsOnce
  <2> QED
    BY <2>8 DEF view, S
<1> QED
  BY <1>1, Invariant, PTL
=============================================================================
