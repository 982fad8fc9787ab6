--------------------------- MODULE LineageProofs ---------------------------
(***************************************************************************)
(* Proofs about Lineage: the history stays one that Validate accepts, the   *)
(* live binary is the one it calls active, an upgrade stays reversible, a   *)
(* prune deletes exactly what no policy retains, and the history implements *)
(* UndoStack.  The recursive function Lines is shown to satisfy its equation *)
(* with the least element of a set of numbers in place of induction.        *)
(***************************************************************************)
EXTENDS Lineage, SequenceTheorems, WellFoundedInduction, TLAPS

Record == [op : Operations, tag : Tag \union {Original}, sha : Sha, parent : Nat]

-----------------------------------------------------------------------------
(* The lineage of an event *)

\* Every set of numbers that is not empty has a least one.
LEMMA Least ==
  ASSUME NEW S, S \subseteq Nat, S # {}
  PROVE  \E n \in S : \A m \in S : n <= m
PROOF
<1>1. PICK n \in S : \A m \in S : ~ (<<m, n>> \in OpToRel(<, Nat))
  BY NatLessThanWellFounded, WFMin
<1>2. \A m \in S : ~ (m < n)
  BY <1>1, Zenon DEF OpToRel
<1> QED BY <1>2

\* A history in which no event has a forward parent.
Rooted(h) == h \in Seq(Record) /\ \A i \in 1..Len(h) : h[i].parent \in 0..(i - 1)

\* g gives the lineages of the first n events of h.
Traces(g, h, n) ==
  g = [i \in 0..n |-> IF i = 0 THEN <<>> ELSE <<i>> \o g[h[i].parent]]

LEMMA TraceExists ==
  ASSUME NEW h, Rooted(h)
  PROVE  \E g : Traces(g, h, Len(h))
PROOF
<1> DEFINE Bad == {n \in 0..Len(h) : ~ \E g : Traces(g, h, n)}
<1>0. Len(h) \in Nat
  BY DEF Rooted
<1>1. SUFFICES Bad = {}
  BY <1>0
<1>2. SUFFICES ASSUME Bad # {} PROVE FALSE
  OBVIOUS
<1>3. PICK n \in Bad : \A m \in Bad : n <= m
  <2>1. Bad \subseteq Nat
    BY <1>0
  <2> HIDE DEF Bad
  <2> QED BY <1>2, <2>1, Least
<1>4. n \in 0..Len(h) /\ ~ \E g : Traces(g, h, n)
  BY <1>3
<1>5. CASE n = 0
  <2>1. Traces([i \in 0..n |-> <<>>], h, n)
    BY <1>5 DEF Traces
  <2> QED BY <1>4, <2>1
<1>6. CASE n # 0
  <2>1. n - 1 \in 0..Len(h) /\ n - 1 \notin Bad
    BY <1>0, <1>3, <1>4, <1>6
  <2>2. PICK g : Traces(g, h, n - 1)
    BY <2>1
  <2> DEFINE f == [i \in 0..n |-> IF i = n THEN <<n>> \o g[h[n].parent] ELSE g[i]]
  <2>3. \A i \in 1..n : h[i].parent \in 0..(i - 1)
    BY <1>0, <1>4 DEF Rooted
  <2>4. \A i \in 1..n : f[h[i].parent] = g[h[i].parent]
    BY <1>4, <2>3
  <2>5. \A i \in 0..(n - 1) : f[i] = IF i = 0 THEN <<>> ELSE <<i>> \o g[h[i].parent]
    <3>1. \A i \in 0..(n - 1) : f[i] = g[i]
      BY <1>4
    <3>2. \A i \in 0..(n - 1) : g[i] = IF i = 0 THEN <<>> ELSE <<i>> \o g[h[i].parent]
      <4> HIDE DEF f
      <4> QED BY <2>2 DEF Traces
    <3> HIDE DEF f
    <3> QED BY <3>1, <3>2
  <2>6. f[n] = <<n>> \o g[h[n].parent]
    BY <1>4
  <2>7. \A i \in 0..n : f[i] = IF i = 0 THEN <<>> ELSE <<i>> \o f[h[i].parent]
    <3> SUFFICES ASSUME NEW i \in 0..n
                 PROVE  f[i] = IF i = 0 THEN <<>> ELSE <<i>> \o f[h[i].parent]
      OBVIOUS
    <3> HIDE DEF f
    <3>1. CASE i = n
      BY <1>4, <1>6, <2>4, <2>6, <3>1
    <3>2. CASE i # n
      BY <1>4, <2>4, <2>5, <3>2
    <3> QED BY <3>1, <3>2
  <2>8. Traces(f, h, n)
    <3> f = [i \in 0..n |-> f[i]]
      OBVIOUS
    <3> HIDE DEF f
    <3> QED BY <2>7 DEF Traces
  <2> QED BY <1>4, <2>8
<1> QED BY <1>5, <1>6

\* Lines satisfies its equation.
LEMMA LinesDefined ==
  ASSUME NEW h, Rooted(h)
  PROVE  Traces(Lines(h), h, Len(h))
PROOF
<1>1. \E g : Traces(g, h, Len(h))
  BY TraceExists
<1>2. Lines(h) = CHOOSE g : Traces(g, h, Len(h))
  BY DEF Lines, Traces
<1> QED BY <1>1, <1>2

LEMMA LinesEquation ==
  ASSUME NEW h, Rooted(h)
  PROVE  /\ Lines(h)[0] = <<>>
         /\ \A i \in 1..Len(h) : Lines(h)[i] = <<i>> \o Lines(h)[h[i].parent]
PROOF
<1>0. Len(h) \in Nat
  BY DEF Rooted
<1> QED BY <1>0, LinesDefined DEF Traces

\* The lineage of an event consists of it and earlier ones.
LEMMA LinesTyped ==
  ASSUME NEW h, Rooted(h)
  PROVE  \A i \in 0..Len(h) : Lines(h)[i] \in Seq(1..i)
PROOF
<1> DEFINE Bad == {i \in 0..Len(h) : Lines(h)[i] \notin Seq(1..i)}
<1>0. Len(h) \in Nat
  BY DEF Rooted
<1>1. SUFFICES ASSUME Bad # {} PROVE FALSE
  OBVIOUS
<1>2. PICK i \in Bad : \A m \in Bad : i <= m
  <2>1. Bad \subseteq Nat
    BY <1>0
  <2> HIDE DEF Bad
  <2> QED BY <1>1, <2>1, Least
<1>3. i # 0
  BY LinesEquation, EmptySeq
<1>4. i \in 1..Len(h) /\ h[i].parent \in 0..(i - 1)
  BY <1>0, <1>2, <1>3 DEF Rooted
<1>5. Lines(h)[h[i].parent] \in Seq(1..h[i].parent)
  <2>1. h[i].parent \in 0..Len(h) /\ ~(i <= h[i].parent)
    BY <1>0, <1>4
  <2>2. h[i].parent \notin Bad
    BY <1>2, <2>1
  <2> QED BY <2>1, <2>2
<1>6. Lines(h)[h[i].parent] \in Seq(1..i)
  <2>1. 1..h[i].parent \subseteq 1..i
    BY <1>4
  <2> QED BY <1>5, <2>1, SeqMonotonic
<1>7. <<i>> \in Seq(1..i)
  BY <1>4
<1>8. <<i>> \o Lines(h)[h[i].parent] \in Seq(1..i)
  BY <1>6, <1>7, ConcatProperties
<1> QED BY <1>2, <1>4, <1>8, LinesEquation

\* The lineage of an event starts with it and goes on with its parent's.
LEMMA Line ==
  ASSUME NEW h, Rooted(h), NEW i \in 1..Len(h)
  PROVE  LET L == Lines(h)[i]
             P == Lines(h)[h[i].parent]
         IN  /\ h[i].parent \in 0..(i - 1)
             /\ P \in Seq(1..i) /\ L \in Seq(1..i)
             /\ Len(L) = Len(P) + 1 /\ L[1] = i
             /\ \A k \in 1..Len(P) : L[k + 1] = P[k]
             /\ Tail(L) = P
PROOF
<1> DEFINE L == Lines(h)[i]
           P == Lines(h)[h[i].parent]
<1>0. Len(h) \in Nat /\ h[i].parent \in 0..(i - 1)
  BY DEF Rooted
<1>1. P \in Seq(1..i)
  <2>1. h[i].parent \in 0..Len(h)
    BY <1>0
  <2>2. P \in Seq(1..h[i].parent)
    BY <2>1, LinesTyped
  <2>3. 1..h[i].parent \subseteq 1..i
    BY <1>0
  <2> QED BY <2>2, <2>3, SeqMonotonic
<1>2. L = <<i>> \o P
  BY LinesEquation
<1>3. <<i>> \in Seq(1..i) /\ Len(<<i>>) = 1 /\ <<i>>[1] = i
  BY <1>0
<1> HIDE DEF L, P
<1>4. L \in Seq(1..i) /\ Len(L) = Len(P) + 1 /\ Len(P) \in Nat
  BY <1>1, <1>2, <1>3, ConcatProperties
<1>5. L[1] = i /\ \A k \in 1..Len(P) : L[k + 1] = P[k]
  BY <1>1, <1>2, <1>3, ConcatProperties
<1>6. Tail(L) = P
  <2>1. L # <<>>
    BY <1>4
  <2>2. /\ Tail(L) \in Seq(1..i) /\ Len(Tail(L)) = Len(L) - 1
        /\ \A k \in 1..Len(Tail(L)) : Tail(L)[k] = L[k + 1]
    BY <1>4, <2>1, HeadTailProperties
  <2> QED BY <1>1, <1>4, <1>5, <2>2, SeqEqual
<1> QED BY <1>0, <1>1, <1>4, <1>5, <1>6 DEF L, P

\* The end of a sequence that only adds an element in front of another.
LEMMA Shifted ==
  ASSUME NEW S, NEW L \in Seq(S), NEW P \in Seq(S),
         Len(L) = Len(P) + 1, \A k \in 1..Len(P) : L[k + 1] = P[k],
         NEW k \in 2..Len(L)
  PROVE  L[k] = P[k - 1] /\ SubSeq(L, k, Len(L)) = SubSeq(P, k - 1, Len(P))
PROOF
<1>1. Len(P) \in Nat /\ k \in Nat /\ k - 1 \in 1..Len(P) /\ k = (k - 1) + 1
  OBVIOUS
<1>2. L[k] = P[k - 1]
  BY <1>1
<1>3. (\A j \in k..Len(L) : L[j] \in S) /\ (\A j \in (k - 1)..Len(P) : P[j] \in S)
  BY <1>1
<1>4. /\ SubSeq(L, k, Len(L)) \in Seq(S)
      /\ Len(SubSeq(L, k, Len(L))) = Len(L) - k + 1
      /\ \A j \in 1..(Len(L) - k + 1) : SubSeq(L, k, Len(L))[j] = L[k + j - 1]
  BY <1>1, <1>3, SubSeqProperties
<1>5. /\ SubSeq(P, k - 1, Len(P)) \in Seq(S)
      /\ Len(SubSeq(P, k - 1, Len(P))) = Len(P) - (k - 1) + 1
      /\ \A j \in 1..(Len(P) - (k - 1) + 1) : SubSeq(P, k - 1, Len(P))[j] = P[(k - 1) + j - 1]
  BY <1>1, <1>3, SubSeqProperties
<1>6. \A j \in 1..(Len(L) - k + 1) : L[k + j - 1] = P[(k - 1) + j - 1]
  <2> TAKE j \in 1..(Len(L) - k + 1)
  <2>1. (k - 1) + j - 1 \in 1..Len(P) /\ k + j - 1 = ((k - 1) + j - 1) + 1
    BY <1>1
  <2> QED BY <2>1
<1>7. Len(L) - k + 1 = Len(P) - (k - 1) + 1
  BY <1>1
<1>8. SubSeq(L, k, Len(L)) = SubSeq(P, k - 1, Len(P))
  BY <1>4, <1>5, <1>6, <1>7, SeqEqual
<1> QED BY <1>2, <1>8

\* Each event on a lineage continues with its own lineage.
LEMMA Suffixes ==
  ASSUME NEW h, Rooted(h)
  PROVE  \A i \in 0..Len(h) : \A k \in 1..Len(Lines(h)[i]) :
           SubSeq(Lines(h)[i], k, Len(Lines(h)[i])) = Lines(h)[Lines(h)[i][k]]
PROOF
<1> DEFINE Good(i) == \A k \in 1..Len(Lines(h)[i]) :
             SubSeq(Lines(h)[i], k, Len(Lines(h)[i])) = Lines(h)[Lines(h)[i][k]]
<1> DEFINE Bad == {i \in 0..Len(h) : ~Good(i)}
<1>0. Len(h) \in Nat
  BY DEF Rooted
<1>1. SUFFICES ASSUME Bad # {} PROVE FALSE
  OBVIOUS
<1>2. PICK i \in Bad : \A m \in Bad : i <= m
  <2>1. Bad \subseteq Nat
    BY <1>0
  <2> HIDE DEF Bad
  <2> QED BY <1>1, <2>1, Least
<1>3. i # 0
  BY LinesEquation, <1>2
<1>4. i \in 1..Len(h)
  BY <1>0, <1>2, <1>3
<1> DEFINE L == Lines(h)[i]
           P == Lines(h)[h[i].parent]
<1>5. /\ h[i].parent \in 0..(i - 1)
      /\ P \in Seq(1..i) /\ L \in Seq(1..i)
      /\ Len(L) = Len(P) + 1 /\ L[1] = i
      /\ \A k \in 1..Len(P) : L[k + 1] = P[k]
  BY <1>4, Line
<1>6. Good(h[i].parent)
  <2>1. h[i].parent \in 0..Len(h) /\ ~(i <= h[i].parent)
    BY <1>0, <1>4, <1>5
  <2>2. h[i].parent \notin Bad
    BY <1>2, <2>1
  <2> HIDE DEF Good
  <2> QED BY <2>1, <2>2
<1>7. \A k \in 1..Len(P) : SubSeq(P, k, Len(P)) = Lines(h)[P[k]]
  BY <1>6
<1>8. ASSUME NEW k \in 1..Len(L) PROVE SubSeq(L, k, Len(L)) = Lines(h)[L[k]]
  <2> HIDE DEF L, P, Good, Bad
  <2>1. CASE k = 1
    <3>1. SubSeq(L, 1, Len(L)) = L
      BY <1>5
    <3> QED BY <1>5, <2>1, <3>1 DEF L
  <2>2. CASE k # 1
    <3>1. k \in 2..Len(L) /\ k - 1 \in 1..Len(P)
      BY <1>5, <2>2
    <3>2. L[k] = P[k - 1] /\ SubSeq(L, k, Len(L)) = SubSeq(P, k - 1, Len(P))
      BY <1>5, <3>1, Shifted
    <3> QED BY <1>7, <3>1, <3>2
  <2> QED BY <2>1, <2>2
<1>9. Good(i)
  BY <1>8
<1> QED BY <1>2, <1>9

\* Recording an event leaves the lineages of the earlier ones alone.
LEMMA LinesKept ==
  ASSUME NEW h, NEW e, Rooted(h), Rooted(Append(h, e))
  PROVE  \A i \in 0..Len(h) : Lines(Append(h, e))[i] = Lines(h)[i]
PROOF
<1> DEFINE Bad == {i \in 0..Len(h) : Lines(Append(h, e))[i] # Lines(h)[i]}
<1>0. /\ Len(h) \in Nat /\ Len(Append(h, e)) = Len(h) + 1
      /\ \A i \in 1..Len(h) : Append(h, e)[i] = h[i]
  BY DEF Rooted
<1>1. SUFFICES ASSUME Bad # {} PROVE FALSE
  OBVIOUS
<1>2. PICK i \in Bad : \A m \in Bad : i <= m
  <2>1. Bad \subseteq Nat
    BY <1>0
  <2> HIDE DEF Bad
  <2> QED BY <1>1, <2>1, Least
<1>3. i # 0
  BY LinesEquation, <1>2
<1>4. i \in 1..Len(h) /\ i \in 1..Len(Append(h, e)) /\ h[i].parent \in 0..(i - 1)
  BY <1>0, <1>2, <1>3 DEF Rooted
<1>5. Lines(Append(h, e))[h[i].parent] = Lines(h)[h[i].parent]
  <2>1. h[i].parent \in 0..Len(h) /\ ~(i <= h[i].parent)
    BY <1>0, <1>4
  <2>2. h[i].parent \notin Bad
    BY <1>2, <2>1
  <2> QED BY <2>1, <2>2
<1>6. Lines(Append(h, e))[i] = <<i>> \o Lines(Append(h, e))[Append(h, e)[i].parent]
  BY <1>4, LinesEquation
<1>7. Lines(h)[i] = <<i>> \o Lines(h)[h[i].parent]
  BY <1>4, LinesEquation
<1> QED BY <1>0, <1>2, <1>4, <1>5, <1>6, <1>7

-----------------------------------------------------------------------------
(* What holds of the history and of the live binary *)

\* Validate accepts the history whenever there is one.
Parents == \A i \in DOMAIN events : events[i].parent < i
Bound == \A i \in DOMAIN events : Binds(events[i].tag, events[i].sha)

\* The backup is made by the transaction that starts the history.
Backed == Adopted => original \in Sha

\* The release an upgrade installs differs from the active one, and from the
\* end of PutNew on its bytes are in the store.
InProgress ==
  /\ pc \in {"put", "recheck", "keep", "activate"} =>
       Adopted /\ goal \in Tag /\ goal # Active.tag
  /\ pc \in {"recheck", "keep", "activate"} => Full(goal)

IInv ==
  /\ TypeOK /\ Parents /\ Bound /\ Backed /\ InProgress
  /\ RollbackMoves /\ LiveIsActive

-----------------------------------------------------------------------------
(* The history *)

\* What every recorded event has to satisfy for the history to stay valid.
LEMMA Appended ==
  ASSUME IInv,
         NEW e \in Record,
         events' = Append(events, e),
         Binds(e.tag, e.sha),
         e.parent < Len(events) + 1,
         e.parent # 0 => events[e.parent].tag # e.tag
  PROVE  /\ events' \in Seq(Record)
         /\ Len(events') = Len(events) + 1 /\ Adopted' /\ Active' = e
         /\ Parents' /\ Bound' /\ RollbackMoves'
PROOF
<1>1. events \in Seq(Record)
  BY DEF IInv, TypeOK, Record
<1>2. /\ events' \in Seq(Record)
      /\ Len(events') = Len(events) + 1
      /\ events'[Len(events) + 1] = e
      /\ \A i \in DOMAIN events : events'[i] = events[i]
      /\ DOMAIN events' = 1..(Len(events) + 1)
      /\ DOMAIN events = 1..Len(events)
      /\ Len(events) \in Nat
  BY <1>1
<1>3. Adopted' /\ Active' = e
  BY <1>2 DEF Adopted, Active
<1>4. Parents'
  BY <1>2 DEF IInv, Parents
<1>5. Bound'
  BY <1>2 DEF IInv, Bound, Binds
<1>6. RollbackMoves'
  <2> SUFFICES ASSUME NEW i \in DOMAIN events', events'[i].parent # 0
               PROVE  events'[events'[i].parent].tag # events'[i].tag
    BY DEF RollbackMoves
  <2>1. CASE i \in DOMAIN events
    <3>1. events[i] \in Record /\ events[i].parent < i
      BY <1>1, <1>2, <2>1 DEF IInv, Parents
    <3>2. events[i].parent \in DOMAIN events
      BY <1>2, <2>1, <3>1 DEF Record
    <3> QED BY <1>2, <2>1, <3>2 DEF IInv, RollbackMoves
  <2>2. CASE i = Len(events) + 1
    BY <1>2, <2>2 DEF Record
  <2>3. i \in 1..(Len(events) + 1) /\ DOMAIN events = 1..Len(events) /\ Len(events) \in Nat
    BY <1>2
  <2>4. i \in DOMAIN events \/ i = Len(events) + 1
    BY <2>3
  <2> QED BY <2>1, <2>2, <2>4
<1> QED BY <1>2, <1>3, <1>4, <1>5, <1>6

\* An untouched history keeps what is said of it alone.
LEMMA Untouched ==
  ASSUME IInv, UNCHANGED <<events, original>>
  PROVE  /\ events' \in Seq(Record) /\ (original \in Sha \union {None})'
         /\ Parents' /\ Bound' /\ Backed' /\ RollbackMoves'
         /\ Adopted' = Adopted /\ Active' = Active
PROOF
  BY DEF IInv, TypeOK, Record, Parents, Bound, Binds, Backed, RollbackMoves, Adopted, Active

\* The active event is a record of the history.
LEMMA ActiveEvent ==
  ASSUME IInv, Adopted
  PROVE  Active \in Record /\ Len(events) \in DOMAIN events /\ Len(events) \in Nat
PROOF
<1>1. events \in Seq(Record) /\ events # <<>>
  BY DEF IInv, TypeOK, Record, Adopted
<1> QED BY <1>1 DEF Active
-----------------------------------------------------------------------------
(* The commands *)

\* A step of the store or of the command: history and live binary stay.
LEMMA StoreStep ==
  ASSUME IInv, UNCHANGED entry, UNCHANGED <<released, policy, counters>>,
         slot' \in [Tag -> Sha \union {Empty, None}],
         pc' \in {"idle", "put", "recheck", "keep", "activate", "prune", "delete"},
         goal' \in Tag \union {None}, staged' \in Sha \union {None}, plan' \subseteq Tag,
         InProgress'
  PROVE  IInv'
PROOF
<1>1. /\ events' \in Seq(Record) /\ (original \in Sha \union {None})'
      /\ Parents' /\ Bound' /\ Backed' /\ RollbackMoves'
      /\ Adopted' = Adopted /\ Active' = Active
  BY Untouched DEF entry
<1>2. TypeOK'
  BY <1>1 DEF IInv, TypeOK, entry, policy, counters, Record
<1>3. LiveIsActive'
  BY <1>1 DEF IInv, LiveIsActive, entry, counters
<1> QED BY <1>1, <1>2, <1>3 DEF IInv

\* A step that only ends the command.
LEMMA StopStep ==
  ASSUME IInv, Stop, UNCHANGED <<entry, slot, released, policy, counters>>
  PROVE  IInv'
PROOF
<1>1. InProgress'
  BY DEF Stop, InProgress
<1> QED BY <1>1, StoreStep DEF IInv, TypeOK, Stop

\* Put stores nothing but digests, and leaves the version full when it goes on.
LEMMA PutStep ==
  ASSUME IInv, NEW t \in Tag, NEW sha \in Sha, NEW next \in {"recheck", "activate"},
         Put(t, sha, next),
         UNCHANGED <<entry, released, policy, counters>>,
         pc \in {"put", "keep"},
         next = "recheck" => t = goal,
         next = "activate" => t # goal /\ Full(goal)
  PROVE  IInv'
PROOF
<1> USE LineageAssumption
<1>1. Adopted' = Adopted /\ Active' = Active
  BY DEF entry, Adopted, Active
<1>2. Adopted /\ goal \in Tag /\ goal # Active.tag /\ (pc = "keep" => Full(goal))
  BY DEF IInv, InProgress
<1>3. slot \in [Tag -> Sha \union {Empty, None}] /\ staged \in Sha \union {None} /\ plan \subseteq Tag
  BY DEF IInv, TypeOK
<1>4. CASE staged = None /\ slot[t] = sha /\ Goto(next) /\ UNCHANGED slot
  <2>1. InProgress'
    BY <1>1, <1>2, <1>3, <1>4 DEF InProgress, Goto, Full
  <2> QED BY <1>2, <1>3, <1>4, <2>1, StoreStep DEF Goto
<1>5. CASE Stop /\ UNCHANGED slot
  BY <1>5, StopStep
<1>6. CASE staged' = sha /\ UNCHANGED <<pc, goal, plan, slot>>
  <2>1. InProgress'
    BY <1>1, <1>2, <1>6 DEF IInv, InProgress, Full
  <2> QED BY <1>2, <1>3, <1>6, <2>1, StoreStep
<1>7. CASE slot[t] = None /\ slot' = [slot EXCEPT ![t] = Empty] /\ UNCHANGED command
  <2>1. InProgress'
    BY <1>1, <1>2, <1>3, <1>7 DEF IInv, InProgress, Full, command
  <2> QED BY <1>2, <1>3, <1>7, <2>1, StoreStep DEF command
<1>8. CASE staged # None /\ slot' = [slot EXCEPT ![t] = staged] /\ Goto(next)
  <2>1. InProgress'
    BY <1>1, <1>2, <1>3, <1>8 DEF InProgress, Goto, Full
  <2>2. slot' \in [Tag -> Sha \union {Empty, None}]
    BY <1>3, <1>8
  <2> QED BY <1>2, <1>3, <1>8, <2>1, <2>2, StoreStep DEF Goto
<1> QED BY <1>4, <1>5, <1>6, <1>7, <1>8 DEF Put

\* A transaction that records e and makes its bytes live.
LEMMA Activation ==
  ASSUME IInv, NEW e \in Record,
         events' = Append(events, e), live' = e.sha,
         Binds(e.tag, e.sha),
         e.parent < Len(events) + 1,
         e.parent # 0 => events[e.parent].tag # e.tag,
         Adopted,
         UNCHANGED <<original, slot, released, policy, counters>>,
         goal' \in Tag \union {None}, staged' \in Sha \union {None}, plan' \subseteq Tag,
         pc' \in {"idle", "prune"}
  PROVE  IInv'
PROOF
<1>1. /\ events' \in Seq(Record)
      /\ Adopted' /\ Active' = e
      /\ Parents' /\ Bound' /\ RollbackMoves'
  BY Appended
<1>2. TypeOK'
  BY <1>1 DEF IInv, TypeOK, policy, counters, Record
<1>3. Backed' /\ InProgress' /\ LiveIsActive'
  BY <1>1 DEF IInv, Backed, InProgress, LiveIsActive
<1> QED BY <1>1, <1>2, <1>3 DEF IInv

\* A rollback's event repeats the version and the parent of its target.
LEMMA RollbackStep ==
  ASSUME IInv, NEW target \in DOMAIN events, pc = "idle", Activable, RollbackTo(target),
         UNCHANGED <<original, slot, released, policy, command, counters>>
  PROVE  IInv'
PROOF
<1> DEFINE e == Event("rollback", events[target].tag, events[target].sha, events[target].parent)
<1>1. events \in Seq(Record) /\ Adopted
  BY DEF IInv, TypeOK, Record, Activable
<1>2. events[target] \in Record /\ target <= Len(events) /\ target \in Nat /\ Len(events) \in Nat
  BY <1>1
<1>3. e \in Record /\ e.tag = events[target].tag /\ e.sha = events[target].sha /\ e.parent = events[target].parent
  BY <1>2 DEF Event, Record, Operations
<1>4. events' = Append(events, e) /\ live' = e.sha
  BY <1>3 DEF RollbackTo, RecordRollback
<1>5. Binds(e.tag, e.sha)
  BY <1>3 DEF IInv, Bound
<1>6. e.parent < Len(events) + 1
  BY <1>2, <1>3 DEF IInv, Parents, Record
<1>7. e.parent # 0 => events[e.parent].tag # e.tag
  BY <1>3 DEF IInv, RollbackMoves
<1>8. goal' \in Tag \union {None} /\ staged' \in Sha \union {None} /\ plan' \subseteq Tag /\ pc' = "idle"
  BY DEF IInv, TypeOK, command
<1> HIDE DEF e
<1> QED BY <1>1, <1>3, <1>4, <1>5, <1>6, <1>7, <1>8, Activation
-----------------------------------------------------------------------------
(* The invariant *)

LEMMA Initially == Init => IInv
PROOF
<1> SUFFICES ASSUME Init PROVE IInv
  OBVIOUS
<1> USE LineageAssumption
<1>1. events = <<>> /\ DOMAIN events = {} /\ ~Adopted
  BY DEF Init, Adopted
<1>2. events \in Seq(Record)
  BY <1>1
<1>3. TypeOK
  BY <1>2 DEF Init, TypeOK, Record
<1>4. Parents /\ Bound /\ RollbackMoves
  BY <1>1 DEF Parents, Bound, RollbackMoves
<1>5. Backed /\ InProgress /\ LiveIsActive
  BY <1>1 DEF Init, Backed, InProgress, LiveIsActive
<1> QED BY <1>3, <1>4, <1>5 DEF IInv

\* The adoption starts a history of one event.
LEMMA AdoptStep == ASSUME IInv, NEW t \in Tag, Adopt(t) PROVE IInv'
PROOF
<1> DEFINE e == Event("adopt", t, live, 0)
<1>1. e \in Record /\ e.sha = live /\ e.parent = 0
  BY DEF IInv, TypeOK, Event, Record, Operations
<1>2. events' = <<e>> /\ original' = live /\ live' = live /\ pc' = "idle"
  BY DEF Adopt, command
<1> HIDE DEF e
<1>3. events' \in Seq(Record) /\ DOMAIN events' = {1} /\ events'[1] = e /\ Len(events') = 1
  BY <1>1, <1>2
<1>4. TypeOK'
  BY <1>2, <1>3 DEF IInv, TypeOK, Adopt, policy, command, counters, Record
<1>5. Parents' /\ Bound' /\ RollbackMoves'
  BY <1>1, <1>3 DEF Parents, Bound, Binds, RollbackMoves
<1>6. Adopted' /\ Active' = e
  BY <1>3 DEF Adopted, Active
<1>7. Backed' /\ InProgress' /\ LiveIsActive'
  BY <1>1, <1>2, <1>6 DEF IInv, TypeOK, Backed, InProgress, LiveIsActive
<1> QED BY <1>4, <1>5, <1>7 DEF IInv

\* rollback --to original.
LEMMA RestoreStep == ASSUME IInv, RestoreOriginal PROVE IInv'
PROOF
<1> DEFINE e == Event("rollback", Original, original, 0)
<1>1. Adopted /\ original \in Sha
  BY DEF IInv, Backed, RestoreOriginal, Activable
<1>2. e \in Record /\ e.tag = Original /\ e.sha = original /\ e.parent = 0
  BY <1>1 DEF Event, Record, Operations
<1>3. events' = Append(events, e) /\ Binds(e.tag, e.sha) /\ live' = e.sha
  BY <1>2 DEF RestoreOriginal, RecordRestoreOriginal
<1>4. Len(events) \in Nat
  BY DEF IInv, TypeOK
<1>5. /\ goal' \in Tag \union {None} /\ staged' \in Sha \union {None} /\ plan' \subseteq Tag
      /\ pc' = "idle" /\ UNCHANGED <<original, slot, released, policy, counters>>
  BY DEF IInv, TypeOK, RestoreOriginal, command
<1> HIDE DEF e
<1> QED BY <1>1, <1>2, <1>3, <1>4, <1>5, Activation

\* The transaction of an upgrade takes effect or does not.
LEMMA ActivateStep == ASSUME IInv, Activate PROVE IInv'
PROOF
<1> DEFINE e == Event("upgrade", goal, slot[goal], Len(events))
<1>1. Adopted /\ goal \in Tag /\ goal # Active.tag /\ slot[goal] \in Sha
  BY DEF IInv, InProgress, Activate, Full
<1>2. Len(events) \in Nat
  BY DEF IInv, TypeOK
<1>3. e \in Record /\ e.tag = goal /\ e.sha = slot[goal] /\ e.parent = Len(events)
  BY <1>1, <1>2 DEF Event, Record, Operations
<1>4. CASE RecordUpgrade(goal, slot[goal]) /\ live' = slot[goal] /\ (Goto("prune") \/ Stop)
  <2>1. events' = Append(events, e) /\ Binds(e.tag, e.sha) /\ live' = e.sha
    BY <1>3, <1>4 DEF RecordUpgrade
  <2>2. e.parent # 0 => events[e.parent].tag # e.tag
    BY <1>1, <1>3 DEF Active
  <2>3. /\ goal' \in Tag \union {None} /\ staged' \in Sha \union {None} /\ plan' \subseteq Tag
        /\ pc' \in {"idle", "prune"}
    BY <1>4 DEF IInv, TypeOK, Goto, Stop
  <2>4. UNCHANGED <<original, slot, released, policy, counters>>
    BY DEF Activate
  <2> HIDE DEF e
  <2> QED BY <1>1, <1>2, <1>3, <2>1, <2>2, <2>3, <2>4, Activation
<1>5. CASE UNCHANGED <<events, live>> /\ Stop
  BY <1>5, StopStep DEF Activate, entry
<1> QED BY <1>4, <1>5 DEF Activate

\* The environment changes nothing the history depends on.
LEMMA EnvironmentStep ==
  ASSUME IInv,
         \/ Fault
         \/ \E s \in Sha : ForeignWrite(s)
         \/ \E t \in Tag, s \in Sha : Retag(t, s)
         \/ UNCHANGED vars
  PROVE  IInv'
PROOF
<1> USE LineageAssumption
<1>0. UNCHANGED <<events, original>>
  BY DEF Fault, ForeignWrite, Retag, vars, entry
<1>1. /\ events' \in Seq(Record) /\ (original \in Sha \union {None})'
      /\ Parents' /\ Bound' /\ Backed' /\ RollbackMoves'
      /\ Adopted' = Adopted /\ Active' = Active
  BY <1>0, Untouched
<1>2. CASE Fault
  <2>1. TypeOK' /\ InProgress' /\ LiveIsActive'
    BY <1>1, <1>2 DEF IInv, TypeOK, Fault, Stop, entry, policy, Record, InProgress, LiveIsActive
  <2> QED BY <1>1, <2>1 DEF IInv
<1>3. CASE \E s \in Sha : ForeignWrite(s)
  <2>1. TypeOK' /\ InProgress' /\ LiveIsActive'
    BY <1>1, <1>3 DEF IInv, TypeOK, ForeignWrite, command, policy, Record, InProgress, LiveIsActive, Full
  <2> QED BY <1>1, <2>1 DEF IInv
<1>4. CASE \E t \in Tag, s \in Sha : Retag(t, s)
  <2>1. TypeOK' /\ InProgress' /\ LiveIsActive'
    BY <1>1, <1>4 DEF IInv, TypeOK, Retag, entry, command, policy, Record, InProgress, LiveIsActive, Full
  <2> QED BY <1>1, <2>1 DEF IInv
<1>5. CASE UNCHANGED vars
  <2>1. TypeOK' /\ InProgress' /\ LiveIsActive'
    BY <1>1, <1>5 DEF IInv, TypeOK, vars, entry, command, policy, counters, Record, InProgress, LiveIsActive, Full
  <2> QED BY <1>1, <2>1 DEF IInv
<1> QED BY <1>2, <1>3, <1>4, <1>5

\* The steps of an upgrade outside its transaction.
LEMMA UpgradeStep ==
  ASSUME IInv,
         \/ \E t \in Tag : Upgrade(t) \/ Delete(t)
         \/ PutNew \/ Recheck \/ KeepCurrent \/ Prune \/ PruneSkipped \/ Done
  PROVE  IInv'
PROOF
<1> USE LineageAssumption
<1>1. /\ slot \in [Tag -> Sha \union {Empty, None}] /\ staged \in Sha \union {None}
      /\ plan \subseteq Tag /\ goal \in Tag \union {None} /\ live \in Sha
      /\ released \in [Tag -> Sha]
  BY DEF IInv, TypeOK
<1>2. UNCHANGED entry => Adopted' = Adopted /\ Active' = Active
  BY DEF entry, Adopted, Active
<1>3. ASSUME NEW t \in Tag, Upgrade(t) PROVE IInv'
  <2>1. InProgress'
    BY <1>2, <1>3 DEF InProgress, Upgrade, Activable
  <2> QED BY <1>1, <1>3, <2>1, StoreStep DEF Upgrade
<1>4. ASSUME NEW t \in Tag, Delete(t) PROVE IInv'
  <2>1. InProgress'
    BY <1>4 DEF InProgress, Delete
  <2>2. slot' \in [Tag -> Sha \union {Empty, None}] /\ plan' \subseteq Tag
    BY <1>1, <1>4 DEF Delete
  <2> QED BY <1>1, <1>4, <2>1, <2>2, StoreStep DEF Delete
<1>5. CASE PutNew
  <2>1. goal \in Tag /\ released[goal] \in Sha
    BY <1>1, <1>5 DEF IInv, InProgress, PutNew
  <2> QED BY <1>5, <2>1, PutStep DEF PutNew
<1>6. CASE Recheck
  <2>1. CASE live = Active.sha
    <3>1. InProgress'
      BY <1>2, <1>6, <2>1 DEF IInv, InProgress, Recheck, Goto, Full
    <3> QED BY <1>1, <1>6, <2>1, <3>1, StoreStep DEF Recheck, Goto
  <2>2. CASE live # Active.sha
    BY <1>6, <2>2, StopStep DEF Recheck
  <2> QED BY <2>1, <2>2
<1>7. CASE KeepCurrent
  <2>1. Adopted /\ goal # Active.tag /\ Full(goal)
    BY <1>7 DEF IInv, InProgress, KeepCurrent
  <2>2. CASE Active.tag = Original
    <3>1. InProgress'
      BY <1>2, <1>7, <2>1, <2>2 DEF IInv, InProgress, KeepCurrent, Goto, Full
    <3> QED BY <1>1, <1>7, <2>2, <3>1, StoreStep DEF KeepCurrent, Goto
  <2>3. CASE Active.tag # Original
    <3>1. Active.tag \in Tag
      BY <2>1, <2>3, ActiveEvent DEF Record
    <3> QED BY <1>1, <1>7, <2>1, <2>3, <3>1, PutStep DEF KeepCurrent
  <2> QED BY <2>2, <2>3
<1>8. CASE Prune
  <2>1. CASE Plannable
    <3>1. InProgress'
      BY <1>8, <2>1 DEF InProgress, Prune
    <3> QED BY <1>1, <1>8, <2>1, <3>1, StoreStep DEF Prune
  <2>2. CASE ~Plannable
    BY <1>8, <2>2, StopStep DEF Prune
  <2> QED BY <2>1, <2>2
<1>9. CASE PruneSkipped
  BY <1>9, StopStep DEF PruneSkipped
<1>10. CASE Done
  BY <1>10, StopStep DEF Done
<1> QED BY <1>3, <1>4, <1>5, <1>6, <1>7, <1>8, <1>9, <1>10

\* Every step preserves the invariant.
LEMMA Preserved == IInv /\ [Next]_vars => IInv'
PROOF
<1> SUFFICES ASSUME IInv, [Next]_vars PROVE IInv'
  OBVIOUS
<1>1. CASE \E t \in Tag : Adopt(t)
  BY <1>1, AdoptStep
<1>2. CASE \E t \in Tag : RollbackToTag(t)
  BY <1>2, RollbackStep DEF RollbackToTag
<1>3. CASE Rollback
  <2>1. events \in Seq(Record) /\ Active \in Record /\ Len(events) \in DOMAIN events
    BY <1>3, ActiveEvent DEF IInv, TypeOK, Record, Rollback, Activable
  <2>2. Previous \in Nat /\ Previous < Len(events) /\ Previous # 0
    BY <1>3, <2>1 DEF IInv, Parents, Rollback, RollbackTo, Previous, Active, Record
  <2>3. Previous \in DOMAIN events
    BY <2>1, <2>2
  <2> QED BY <1>3, <2>3, RollbackStep DEF Rollback
<1>4. CASE RestoreOriginal
  BY <1>4, RestoreStep
<1>5. CASE PolicySet
  <2>1. /\ events' \in Seq(Record) /\ (original \in Sha \union {None})'
        /\ Parents' /\ Bound' /\ Backed' /\ RollbackMoves'
        /\ Adopted' = Adopted /\ Active' = Active
    BY <1>5, Untouched DEF PolicySet, entry
  <2>2. TypeOK' /\ InProgress' /\ LiveIsActive'
    BY <1>5, <2>1 DEF IInv, TypeOK, PolicySet, entry, command, counters, Record, InProgress, LiveIsActive, Full
  <2> QED BY <2>1, <2>2 DEF IInv
<1>6. CASE \/ \E t \in Tag : Upgrade(t) \/ Delete(t)
           \/ PutNew \/ Recheck \/ KeepCurrent \/ Prune \/ PruneSkipped \/ Done
  BY <1>6, UpgradeStep
<1>7. CASE Activate
  BY <1>7, ActivateStep
<1>8. CASE \/ Fault
           \/ \E s \in Sha : ForeignWrite(s)
           \/ \E t \in Tag, s \in Sha : Retag(t, s)
           \/ UNCHANGED vars
  BY <1>8, EnvironmentStep
<1> QED BY <1>1, <1>2, <1>3, <1>4, <1>5, <1>6, <1>7, <1>8 DEF Next

\* The invariant holds in every reachable state.
THEOREM Inductive == Spec => []IInv
PROOF
<1>1. Init => IInv
  BY Initially
<1>2. IInv /\ [Next]_vars => IInv'
  BY Preserved
<1> QED BY <1>1, <1>2, PTL DEF Spec

\* Every variable keeps its type; in particular no event or live binary comes
\* from a version directory without its binary.
THEOREM LineageTypeCorrect == Spec => []TypeOK
PROOF
<1>1. IInv => TypeOK
  BY DEF IInv
<1> QED BY <1>1, Inductive, PTL

\* No sequence of commands, faults, foreign writes and retags produces a
\* history that Validate refuses.
THEOREM HistoryStaysValid == Spec => []HistoryNeverWedges
PROOF
<1>1. IInv => HistoryNeverWedges
  BY DEF IInv, HistoryNeverWedges, Valid, Parents, Bound
<1> QED BY <1>1, Inductive, PTL

\* A default rollback always changes the version.
THEOREM RollbackAlwaysMoves == Spec => []RollbackMoves
PROOF
<1>1. IInv => RollbackMoves
  BY DEF IInv
<1> QED BY <1>1, Inductive, PTL

\* hukou never installs bytes other than those its history records.
THEOREM LiveMatchesHistory == Spec => []LiveIsActive
PROOF
<1>1. IInv => LiveIsActive
  BY DEF IInv
<1> QED BY <1>1, Inductive, PTL

-----------------------------------------------------------------------------
(* What holds of the store *)

\* An event that names the backup records its bytes.
Originals == \A i \in DOMAIN events : events[i].tag = Original => events[i].sha = original

\* Between the recheck and the transaction, the version that is about to be
\* replaced is copied and then stored.
Kept ==
  foreign = 0 =>
    /\ pc = "keep" /\ staged # None => staged = Active.sha
    /\ pc = "activate" => Source(Active.tag) = Active.sha

\* While a prune deletes, what it retains is whole and outside its plan, and
\* nothing else is outside its plan.
Deleting ==
  /\ pc \in {"prune", "delete"} => Adopted
  /\ pc = "delete" =>
       /\ \A e \in Retained : Source(e.tag) = e.sha
       /\ plan \cap Protected = {} /\ pin \notin plan
       /\ {t \in Tag : slot[t] # None} = (Protected \ {Original}) \union plan

StoreInv == IInv /\ Originals /\ Kept /\ Deleting /\ UpgradeReversible

LEMMA HistoryRooted == IInv => Rooted(events)
PROOF
<1> SUFFICES ASSUME IInv PROVE Rooted(events)
  OBVIOUS
<1>1. events \in Seq(Record)
  BY DEF IInv, TypeOK, Record
<1>2. ASSUME NEW i \in 1..Len(events) PROVE events[i].parent \in 0..(i - 1)
  <2>1. events[i] \in Record /\ i \in DOMAIN events
    BY <1>1
  <2>2. events[i].parent \in Nat /\ events[i].parent < i
    BY <2>1 DEF IInv, Parents, Record
  <2> QED BY <2>2
<1> QED BY <1>1, <1>2 DEF Rooted

LEMMA PreviousKnown ==
  ASSUME IInv, Adopted, Previous # 0
  PROVE  Previous \in 1..Len(events) /\ events[Previous] \in Record
PROOF
<1>1. Rooted(events) /\ Len(events) \in 1..Len(events)
  BY HistoryRooted, ActiveEvent
<1>2. Previous \in 1..Len(events)
  BY <1>1 DEF Rooted, Previous, Active
<1> QED BY <1>1, <1>2, ElementOfSeq DEF Rooted

\* The ancestors of the active event are events of the history, its parent
\* first.
LEMMA AncestorsKnown ==
  ASSUME IInv, Adopted
  PROVE  /\ Chain \in Seq(DOMAIN events) /\ Ancestors \in Seq(DOMAIN events)
         /\ Chain[1] = Len(events) /\ Len(Chain) = Len(Ancestors) + 1
         /\ \A k \in DOMAIN Ancestors : Ancestors[k] = Chain[k + 1]
         /\ Ancestors = Lines(events)[Previous]
         /\ Previous \in Nat
         /\ Previous # 0 => Len(Ancestors) > 0 /\ Ancestors[1] = Previous
PROOF
<1>1. Rooted(events) /\ Len(events) \in 1..Len(events) /\ DOMAIN events = 1..Len(events)
  BY HistoryRooted, ActiveEvent DEF IInv, TypeOK
<1>2. Previous = events[Len(events)].parent
  BY DEF Previous, Active
<1>3. /\ Previous \in 0..(Len(events) - 1)
      /\ Lines(events)[Previous] \in Seq(DOMAIN events) /\ Chain \in Seq(DOMAIN events)
      /\ Len(Chain) = Len(Lines(events)[Previous]) + 1 /\ Chain[1] = Len(events)
      /\ \A k \in 1..Len(Lines(events)[Previous]) : Chain[k + 1] = Lines(events)[Previous][k]
      /\ Ancestors = Lines(events)[Previous]
  <2> DEFINE n == Len(events)
             P == Lines(events)[events[n].parent]
  <2>1. /\ events[n].parent \in 0..(n - 1)
        /\ P \in Seq(1..n) /\ Chain \in Seq(1..n)
        /\ Len(Chain) = Len(P) + 1 /\ Chain[1] = n
        /\ \A k \in 1..Len(P) : Chain[k + 1] = P[k]
        /\ Tail(Chain) = P
    BY <1>1, Line DEF Chain
  <2> QED BY <1>1, <1>2, <2>1 DEF Ancestors
<1>4. ASSUME Previous # 0
      PROVE  Len(Ancestors) > 0 /\ Ancestors[1] = Previous
  <2>1. Previous \in 1..Len(events)
    BY <1>1, <1>3, <1>4
  <2>2. /\ Lines(events)[Previous][1] = Previous
        /\ Len(Lines(events)[Previous]) = Len(Lines(events)[events[Previous].parent]) + 1
        /\ Lines(events)[events[Previous].parent] \in Seq(1..Previous)
    BY <1>1, <2>1, Line
  <2> QED BY <1>3, <2>2
<1>5. Ancestors \in Seq(DOMAIN events) /\ DOMAIN Ancestors = 1..Len(Ancestors)
  BY <1>3
<1>6. Previous \in Nat
  BY <1>1, <1>3
<1> QED BY <1>3, <1>4, <1>5, <1>6

\* What a prune retains are events of the history, and where the depth is not
\* 0 the previous version is one of them.
LEMMA RetainedKnown ==
  ASSUME IInv, Adopted
  PROVE  /\ Retained \subseteq Record
         /\ Active \in Retained
         /\ Previous # 0 /\ depth # 0 => events[Previous] \in Retained
PROOF
<1>1. events \in Seq(Record) /\ depth \in Nat
  BY LineageAssumption DEF IInv, TypeOK, Record
<1>2. Active \in Record
  BY ActiveEvent
<1>3. Ancestors \in Seq(DOMAIN events) /\ DOMAIN Ancestors = 1..Len(Ancestors)
  BY AncestorsKnown
<1>4. Nearest(depth) \subseteq Record
  BY <1>1, <1>3 DEF Nearest
<1>5. ASSUME Previous # 0, depth # 0 PROVE events[Previous] \in Nearest(depth)
  <2>1. Len(Ancestors) > 0 /\ Ancestors[1] = Previous
    BY <1>5, AncestorsKnown
  <2>2. 1 \in DOMAIN Ancestors /\ 1 <= depth
    BY <1>1, <1>3, <1>5, <2>1
  <2> QED BY <2>1, <2>2 DEF Nearest
<1> QED BY <1>2, <1>4, <1>5 DEF Retained

LEMMA SourceTyped ==
  ASSUME NEW t \in Tag, Source(t) \in Sha
  PROVE  Full(t) /\ Source(t) = slot[t]
PROOF
  BY LineageAssumption DEF Source

\* A version is found as long as its full directory is left alone.
LEMMA SourceKept ==
  ASSUME NEW t, NEW sha \in Sha, Source(t) = sha, original' = original,
         t # Original /\ Full(t) => slot'[t] = slot[t]
  PROVE  Source(t)' = sha
PROOF
<1>1. CASE t = Original
  BY <1>1 DEF Source
<1>2. CASE t # Original
  <2>1. Full(t) /\ slot[t] = sha
    BY <1>2, LineageAssumption DEF Source
  <2> QED BY <1>2, <2>1 DEF Source, Full
<1> QED BY <1>1, <1>2

\* The previous version stays within reach as long as the history and its
\* directory do.
LEMMA ReversibleKept ==
  ASSUME StoreInv, UNCHANGED <<events, original>>,
         foreign' = 0 => foreign = 0,
         Adopted /\ foreign = 0 /\ 0 \notin Depths /\ Previous # 0 =>
           LET t == events[Previous].tag IN t # Original /\ Full(t) => slot'[t] = slot[t]
  PROVE  UpgradeReversible'
PROOF
<1> SUFFICES ASSUME Adopted', Active'.op = "upgrade", foreign' = 0, 0 \notin Depths,
                    Previous' # 0
             PROVE  Reversible'
  BY DEF UpgradeReversible, Reversible
<1>1. Adopted /\ Active.op = "upgrade" /\ foreign = 0 /\ Previous = Previous' /\ Previous # 0
  BY DEF Adopted, Active, Previous
<1>2. PICK e \in Record : e = events[Previous]
  BY <1>1, PreviousKnown DEF StoreInv
<1>3. Source(e.tag) = e.sha
  BY <1>1, <1>2 DEF StoreInv, UpgradeReversible, Reversible
<1>4. e.sha \in Sha
  BY DEF Record
<1>5. Source(e.tag)' = e.sha
  BY <1>1, <1>2, <1>3, <1>4, SourceKept
<1>6. events'[Previous'] = e
  BY <1>1, <1>2
<1> QED BY <1>5, <1>6 DEF Reversible

\* A step of a command that leaves history and store alone and is not about
\* to activate or delete.
LEMMA QuietStep ==
  ASSUME StoreInv, IInv', UNCHANGED <<events, original, slot>>,
         foreign' = 0 => foreign = 0,
         pc' \notin {"activate", "prune", "delete"},
         pc' = "keep" => staged' = None
  PROVE  StoreInv'
PROOF
<1>1. Originals'
  BY DEF StoreInv, Originals
<1>2. Kept' /\ Deleting'
  BY DEF Kept, Deleting
<1>3. UpgradeReversible'
  BY ReversibleKept
<1> QED BY <1>1, <1>2, <1>3 DEF StoreInv

\* A step of another actor.
LEMMA OutsideStep ==
  ASSUME StoreInv, IInv', UNCHANGED <<events, original, slot, command, policy>>,
         foreign' = 0 => foreign = 0
  PROVE  StoreInv'
PROOF
<1>1. Originals'
  BY DEF StoreInv, Originals
<1>2. \A t : Source(t)' = Source(t)
  BY DEF Source, Full
<1>3. Adopted' = Adopted /\ Active' = Active
  BY DEF Adopted, Active
<1>4. Kept'
  BY <1>2, <1>3 DEF StoreInv, Kept, command
<1>5. Retained' = Retained /\ Protected' = Protected
  BY DEF Retained, Protected, Nearest, Ancestors, Chain, Active, Full, policy
<1>6. Deleting'
  BY <1>2, <1>3, <1>5 DEF StoreInv, Deleting, command, policy
<1>7. UpgradeReversible'
  BY ReversibleKept
<1> QED BY <1>1, <1>4, <1>6, <1>7 DEF StoreInv

\* Rolling back or adopting: what is recorded is no upgrade.
LEMMA RecordStep ==
  ASSUME StoreInv, IInv', pc' = "idle",
         NEW e, Active' = e, e.op # "upgrade",
         Originals'
  PROVE  StoreInv'
PROOF
<1>1. Kept' /\ Deleting'
  BY DEF Kept, Deleting
<1>2. UpgradeReversible'
  BY DEF UpgradeReversible
<1> QED BY <1>1, <1>2 DEF StoreInv

LEMMA HistoryAppend ==
  ASSUME IInv, NEW e \in Record, events' = Append(events, e)
  PROVE  Adopted' /\ \A i \in 1..Len(events) : events'[i] = events[i]
PROOF
  BY DEF IInv, TypeOK, Record, Adopted

LEMMA OriginalsAppend ==
  ASSUME StoreInv, NEW e \in Record, events' = Append(events, e), original' = original,
         e.tag = Original => e.sha = original
  PROVE  Originals' /\ Active' = e
PROOF
<1>1. /\ events \in Seq(Record) /\ Len(events) \in Nat
      /\ DOMAIN events = 1..Len(events) /\ DOMAIN events' = 1..(Len(events) + 1)
      /\ Len(events') = Len(events) + 1 /\ events'[Len(events) + 1] = e
      /\ \A i \in DOMAIN events : events'[i] = events[i]
  BY DEF StoreInv, IInv, TypeOK, Record
<1>2. Active' = e
  BY <1>1 DEF Active
<1>3. ASSUME NEW i \in DOMAIN events', events'[i].tag = Original
      PROVE  events'[i].sha = original
  <2>1. CASE i \in DOMAIN events
    BY <1>1, <1>3, <2>1 DEF StoreInv, Originals
  <2>2. CASE i \notin DOMAIN events
    <3>1. i = Len(events) + 1
      BY <1>1, <2>2
    <3> QED BY <1>1, <1>3, <3>1
  <2> QED BY <2>1, <2>2
<1> QED BY <1>2, <1>3 DEF Originals

LEMMA StoreRollback ==
  ASSUME StoreInv, IInv', NEW target \in DOMAIN events, pc = "idle", RollbackTo(target),
         UNCHANGED <<original, command>>
  PROVE  StoreInv'
PROOF
<1> DEFINE e == Event("rollback", events[target].tag, events[target].sha, events[target].parent)
<1>1. events[target] \in Record
  <2>1. events \in Seq(Record)
    BY DEF StoreInv, IInv, TypeOK, Record
  <2> QED BY <2>1
<1>2. e \in Record /\ e.tag = events[target].tag /\ e.sha = events[target].sha /\ e.op = "rollback"
  BY <1>1 DEF Event, Record, Operations
<1>3. events' = Append(events, e)
  BY DEF RollbackTo, RecordRollback
<1>4. e.tag = Original => e.sha = original
  BY <1>2 DEF StoreInv, Originals
<1>5. original' = original /\ pc' = "idle" /\ "rollback" # "upgrade"
  BY DEF command
<1> HIDE DEF e
<1>6. Originals' /\ Active' = e
  BY <1>2, <1>3, <1>4, <1>5, OriginalsAppend
<1> QED BY <1>2, <1>5, <1>6, RecordStep

LEMMA StoreRestore == ASSUME StoreInv, IInv', RestoreOriginal PROVE StoreInv'
PROOF
<1> DEFINE e == Event("rollback", Original, original, 0)
<1>1. original \in Sha
  BY DEF StoreInv, IInv, Backed, RestoreOriginal, Activable
<1>2. e \in Record /\ e.sha = original /\ e.op = "rollback"
  BY <1>1 DEF Event, Record, Operations
<1>3. events' = Append(events, e)
  BY DEF RestoreOriginal, RecordRestoreOriginal
<1>4. original' = original /\ pc' = "idle" /\ "rollback" # "upgrade"
  BY DEF RestoreOriginal, command
<1> HIDE DEF e
<1>5. Originals' /\ Active' = e
  BY <1>2, <1>3, <1>4, OriginalsAppend
<1> QED BY <1>2, <1>4, <1>5, RecordStep

LEMMA StoreAdopt == ASSUME StoreInv, IInv', NEW t \in Tag, Adopt(t) PROVE StoreInv'
PROOF
<1> DEFINE e == Event("adopt", t, live, 0)
<1>1. e.op = "adopt" /\ e.tag = t /\ t # Original /\ "adopt" # "upgrade"
  BY LineageAssumption DEF Event
<1>2. events' = <<e>> /\ pc' = "idle"
  BY DEF Adopt, command
<1> HIDE DEF e
<1>3. DOMAIN events' = {1} /\ events'[1] = e /\ Len(events') = 1
  BY <1>2
<1>4. Originals' /\ Active' = e
  BY <1>1, <1>3 DEF Originals, Active
<1> QED BY <1>1, <1>2, <1>4, RecordStep

\* The version that an upgrade replaces is in the store when it takes effect.
LEMMA StoreActivate == ASSUME StoreInv, IInv', Activate PROVE StoreInv'
PROOF
<1> DEFINE e == Event("upgrade", goal, slot[goal], Len(events))
           a == Active
<1>1. Adopted /\ goal \in Tag /\ slot[goal] \in Sha /\ Len(events) \in Nat /\ pc = "activate"
  BY DEF StoreInv, IInv, TypeOK, InProgress, Activate, Full
<1>2. e \in Record /\ e.tag = goal /\ e.parent = Len(events) /\ goal # Original
  BY <1>1, LineageAssumption DEF Event, Record, Operations
<1>3. CASE RecordUpgrade(goal, slot[goal]) /\ live' = slot[goal] /\ (Goto("prune") \/ Stop)
  <2>1. events' = Append(events, e) /\ original' = original /\ UNCHANGED <<slot, counters>>
    BY <1>3 DEF RecordUpgrade, Activate
  <2>2. pc' \in {"prune", "idle"} /\ foreign' = foreign
    BY <1>3, <2>1 DEF Goto, Stop, counters
  <2> HIDE DEF e
  <2>3. Originals' /\ Active' = e
    BY <1>2, <2>1, OriginalsAppend
  <2>4. Adopted' /\ \A i \in 1..Len(events) : events'[i] = events[i]
    BY <1>1, <1>2, <2>1, HistoryAppend DEF StoreInv
  <2>5. Kept' /\ Deleting'
    BY <2>2, <2>4 DEF Kept, Deleting
  <2>6. UpgradeReversible'
    <3> SUFFICES ASSUME foreign = 0 PROVE Reversible'
      BY <2>2 DEF UpgradeReversible
    <3>1. Previous' = Len(events) /\ Len(events) \in 1..Len(events)
      BY <1>1, <1>2, <2>3, ActiveEvent DEF Previous, StoreInv
    <3>2. PICK b \in Record : b = Active
      BY <1>1, ActiveEvent DEF StoreInv
    <3>3. events'[Previous'] = b
      BY <2>4, <3>1, <3>2 DEF Active
    <3>4. Source(b.tag) = b.sha /\ b.sha \in Sha
      BY <1>1, <3>2 DEF StoreInv, Kept, Record
    <3>5. Source(b.tag)' = b.sha
      BY <2>1, <3>4, SourceKept
    <3> QED BY <3>3, <3>5 DEF Reversible
  <2> QED BY <2>3, <2>5, <2>6 DEF StoreInv
<1>4. CASE UNCHANGED <<events, live>> /\ Stop
  BY <1>4, QuietStep DEF Activate, Stop, counters
<1> QED BY <1>3, <1>4 DEF Activate

\* Storing a version leaves every full directory as it is.
LEMMA StorePut ==
  ASSUME StoreInv, IInv', NEW t \in Tag, NEW sha \in Sha, NEW next \in {"recheck", "activate"},
         Put(t, sha, next),
         UNCHANGED <<entry, released, policy, counters>>,
         next = "recheck" <=> pc = "put",
         next = "activate" <=> pc = "keep",
         pc = "keep" => t = Active.tag /\ sha = live
  PROVE  StoreInv'
PROOF
<1> USE LineageAssumption
<1>0. /\ UNCHANGED <<events, original>> /\ foreign' = foreign /\ pc \in {"put", "keep"}
      /\ live \in Sha /\ slot \in [Tag -> Sha \union {Empty, None}]
      /\ staged \in Sha \union {None}
  BY DEF entry, counters, StoreInv, IInv, TypeOK
<1>1. Originals'
  BY <1>0 DEF StoreInv, Originals
<1>2. Active' = Active /\ Adopted
  BY <1>0 DEF Active, StoreInv, IInv, InProgress
<1>3. pc' \in {"put", "keep", "idle", next}
  BY <1>0 DEF Put, Goto, Stop, command
<1>4. Deleting'
  BY <1>3 DEF Deleting
<1>5. \A u \in Tag : Full(u) => slot'[u] = slot[u]
  BY <1>0 DEF Put, Full
<1>6. UpgradeReversible'
  <2>1. ASSUME Previous # 0 PROVE events[Previous].tag \in Tag \union {Original}
    BY <1>2, <2>1, PreviousKnown DEF StoreInv, Record
  <2> QED BY <1>0, <1>5, <2>1, ReversibleKept
<1>7. Kept'
  <2> SUFFICES ASSUME foreign = 0
               PROVE  /\ (pc = "keep" /\ staged # None => staged = Active.sha)'
                      /\ (pc = "activate" => Source(Active.tag) = Active.sha)'
    BY <1>0 DEF Kept
  <2>1. live = Active.sha
    BY <1>2 DEF StoreInv, IInv, LiveIsActive
  <2>2. CASE pc = "put"
    <3>1. pc' # "keep" /\ pc' # "activate"
      BY <1>0, <2>2 DEF Put, Goto, Stop, command
    <3> QED BY <3>1
  <2>3. CASE pc = "keep"
    <3>1. t = Active.tag /\ sha = Active.sha /\ Active.tag # Original
      BY <2>1, <2>3
    <3>2. staged # None => staged = Active.sha
      BY <2>3 DEF StoreInv, Kept
    <3>3. (pc = "keep" /\ staged # None => staged = Active.sha)'
      BY <1>2, <3>1, <3>2 DEF Put, Goto, Stop, command
    <3>4. ASSUME pc' = "activate" PROVE slot'[t] = Active.sha
      BY <1>0, <2>3, <3>1, <3>2, <3>4 DEF Put, Goto, Stop, command
    <3>5. (pc = "activate" => Source(Active.tag) = Active.sha)'
      BY <1>0, <1>2, <3>1, <3>4 DEF Source, Full
    <3> QED BY <3>3, <3>5
  <2> QED BY <1>0, <2>2, <2>3
<1> QED BY <1>1, <1>4, <1>6, <1>7 DEF StoreInv

LEMMA StoreKeep == ASSUME StoreInv, IInv', KeepCurrent PROVE StoreInv'
PROOF
<1>1. /\ pc = "keep" /\ Adopted /\ live \in Sha
      /\ UNCHANGED <<entry, released, policy, counters>>
  BY DEF KeepCurrent, StoreInv, IInv, TypeOK, InProgress
<1>2. CASE Active.tag # Original
  <2>1. Active.tag \in Tag
    BY <1>1, <1>2, ActiveEvent DEF StoreInv, Record
  <2>2. Put(Active.tag, live, "activate")
    BY <1>2 DEF KeepCurrent
  <2> QED BY <1>1, <2>1, <2>2, StorePut
<1>3. CASE Active.tag = Original
  <2>1. /\ Goto("activate") /\ UNCHANGED <<events, original, slot>> /\ foreign' = foreign
        /\ Active' = Active /\ pc' = "activate"
    BY <1>1, <1>3 DEF KeepCurrent, entry, counters, Active, Goto
  <2>2. Active.sha = original
    BY <1>1, <1>3, ActiveEvent DEF StoreInv, Originals, Active
  <2>3. Originals' /\ Deleting'
    BY <2>1 DEF StoreInv, Originals, Deleting
  <2>4. Kept'
    BY <1>3, <2>1, <2>2 DEF Kept, Source
  <2>5. UpgradeReversible'
    BY <2>1, ReversibleKept
  <2> QED BY <2>3, <2>4, <2>5 DEF StoreInv
<1> QED BY <1>2, <1>3

\* What a prune starts to delete is exactly what it does not retain.
LEMMA StorePrune == ASSUME StoreInv, IInv', Prune PROVE StoreInv'
PROOF
<1> USE LineageAssumption
<1>0. /\ UNCHANGED <<events, original, slot, policy>> /\ foreign' = foreign /\ pc = "prune"
      /\ Adopted /\ slot \in [Tag -> Sha \union {Empty, None}]
  BY DEF Prune, entry, counters, StoreInv, IInv, TypeOK, Deleting
<1>1. CASE ~Plannable
  BY <1>0, <1>1, QuietStep DEF Prune, Stop
<1>2. CASE Plannable
  <2>1. pc' = "delete" /\ plan' = {t \in Tag : Full(t)} \ Protected /\ UNCHANGED <<pin, depth>>
    BY <1>0, <1>2 DEF Prune, policy
  <2>2. Originals' /\ Kept'
    BY <1>0, <2>1 DEF StoreInv, Originals, Kept
  <2>3. UpgradeReversible'
    BY <1>0, ReversibleKept
  <2>4. (\A t : Source(t)' = Source(t)) /\ Adopted' = Adopted
    BY <1>0 DEF Source, Full, Adopted
  <2>5. Retained' = Retained /\ Protected' = Protected
    BY <1>0, <2>1 DEF Retained, Protected, Nearest, Ancestors, Chain, Active, Full
  <2>6. \A e \in Retained : Source(e.tag) = e.sha
    BY <1>2 DEF Plannable
  <2>7. plan' \cap Protected = {} /\ pin \notin plan'
    BY <2>1 DEF Protected
  <2>8. \A t \in Tag : slot[t] # None <=> Full(t)
    BY <1>0, <1>2 DEF Plannable, Full
  <2>9. ASSUME NEW t \in Protected \ {Original} PROVE t \in Tag /\ Full(t)
    <3>1. CASE \E e \in Retained : t = e.tag
      <4>1. PICK e \in Retained : t = e.tag
        BY <3>1
      <4>2. e \in Record
        BY <1>0, RetainedKnown DEF StoreInv
      <4>3. t \in Tag /\ Source(t) \in Sha
        BY <2>6, <2>9, <4>1, <4>2 DEF Record
      <4> QED BY <4>3, SourceTyped
    <3>2. CASE pin \in Tag /\ Full(pin) /\ t = pin
      BY <3>2
    <3> QED BY <2>9, <3>1, <3>2 DEF Protected
  <2>10. {t \in Tag : slot[t] # None} = (Protected \ {Original}) \union plan'
    BY <2>1, <2>8, <2>9
  <2>11. Deleting'
    BY <1>0, <2>1, <2>4, <2>5, <2>6, <2>7, <2>10 DEF Deleting
  <2> QED BY <2>2, <2>3, <2>11 DEF StoreInv
<1> QED BY <1>1, <1>2

\* A deletion touches no version that is retained.
LEMMA DeletedApart ==
  ASSUME StoreInv, NEW t \in Tag, Delete(t)
  PROVE  /\ Adopted /\ t \notin Protected /\ t # pin
         /\ \A u \in Tag \ {t} : slot'[u] = slot[u]
         /\ \A e \in Retained : e.tag # t
         /\ \A e \in Retained : Source(e.tag) = e.sha /\ Source(e.tag)' = e.sha
PROOF
<1>1. /\ pc = "delete" /\ t \in plan /\ Adopted
      /\ t \notin Protected /\ t # pin /\ original' = original
      /\ slot \in [Tag -> Sha \union {Empty, None}]
      /\ \A e \in Retained : Source(e.tag) = e.sha
  BY DEF StoreInv, IInv, TypeOK, Deleting, Delete, entry
<1>2. \A u \in Tag \ {t} : slot'[u] = slot[u]
  BY <1>1 DEF Delete
<1>3. \A e \in Retained : e.tag # t
  BY <1>1 DEF Protected
<1>4. ASSUME NEW e \in Retained PROVE Source(e.tag)' = e.sha
  <2>1. e \in Record
    BY <1>1, RetainedKnown DEF StoreInv
  <2>2. e.tag \in Tag \union {Original} /\ e.sha \in Sha
    BY <2>1 DEF Record
  <2> QED BY <1>1, <1>2, <1>3, <2>2, SourceKept
<1> QED BY <1>1, <1>2, <1>3, <1>4

LEMMA StoreDelete == ASSUME StoreInv, IInv', NEW t \in Tag, Delete(t) PROVE StoreInv'
PROOF
<1> USE LineageAssumption
<1>1. /\ Adopted /\ t \notin Protected /\ t # pin
      /\ \A u \in Tag \ {t} : slot'[u] = slot[u]
      /\ \A e \in Retained : e.tag # t
      /\ \A e \in Retained : Source(e.tag)' = e.sha
  BY DeletedApart
<1>2. /\ UNCHANGED <<events, original, pin, depth>> /\ foreign' = foreign /\ t \in plan
      /\ pc = "delete" /\ pc' = "delete" /\ slot \in [Tag -> Sha \union {Empty, None}]
      /\ plan \subseteq Tag
  BY DEF Delete, entry, policy, counters, StoreInv, IInv, TypeOK
<1>3. Originals' /\ Kept'
  BY <1>2 DEF StoreInv, Originals, Kept
<1>4. Retained' = Retained /\ Adopted' = Adopted
  BY <1>2 DEF Retained, Nearest, Ancestors, Chain, Active, Adopted
<1>5. Protected' = Protected
  BY <1>1, <1>2, <1>4 DEF Protected, Full
<1>6. plan' \cap Protected = {} /\ pin \notin plan'
  BY <1>1 DEF StoreInv, Deleting, Delete
<1>7. {u \in Tag : slot'[u] # None} = (Protected \ {Original}) \union plan'
  <2>1. {u \in Tag : slot[u] # None} = (Protected \ {Original}) \union plan
    BY <1>2 DEF StoreInv, Deleting
  <2>2. CASE Full(t) /\ slot' = [slot EXCEPT ![t] = Empty] /\ UNCHANGED plan
    <3>1. slot'[t] # None /\ slot[t] # None
      BY <1>2, <2>2 DEF Full
    <3> QED BY <1>1, <2>1, <2>2, <3>1
  <2>3. CASE slot[t] = Empty /\ slot' = [slot EXCEPT ![t] = None] /\ plan' = plan \ {t}
    <3>1. slot'[t] = None
      BY <1>2, <2>3
    <3> QED BY <1>1, <2>1, <2>3, <3>1
  <2> QED BY <2>2, <2>3 DEF Delete
<1>8. Deleting'
  BY <1>1, <1>2, <1>4, <1>5, <1>6, <1>7 DEF Deleting
<1>9. UpgradeReversible'
  <2>1. ASSUME Previous # 0, 0 \notin Depths PROVE events[Previous].tag # t
    <3>1. depth # 0
      BY <2>1 DEF StoreInv, IInv, TypeOK
    <3> QED BY <1>1, <2>1, <3>1, RetainedKnown DEF StoreInv
  <2>2. ASSUME Previous # 0 PROVE events[Previous].tag \in Tag \union {Original}
    BY <1>1, <2>2, PreviousKnown DEF StoreInv, Record
  <2> QED BY <1>1, <1>2, <2>1, <2>2, ReversibleKept
<1> QED BY <1>3, <1>8, <1>9 DEF StoreInv

LEMMA StoreInitially == Init => StoreInv
PROOF
<1> SUFFICES ASSUME Init PROVE StoreInv
  OBVIOUS
<1>1. events = <<>> /\ DOMAIN events = {} /\ ~Adopted /\ pc = "idle"
  BY DEF Init, Adopted
<1> QED BY <1>1, Initially DEF StoreInv, Originals, Kept, Deleting, UpgradeReversible

\* Every step preserves what holds of the store.
LEMMA StorePreserved == StoreInv /\ IInv' /\ [Next]_vars => StoreInv'
PROOF
<1> SUFFICES ASSUME StoreInv, IInv', [Next]_vars PROVE StoreInv'
  OBVIOUS
<1>0. foreign \in Nat
  BY LineageAssumption DEF StoreInv, IInv, TypeOK
<1>1. CASE \E t \in Tag : Adopt(t)
  BY <1>1, StoreAdopt
<1>2. CASE \E t \in Tag : RollbackToTag(t)
  BY <1>2, StoreRollback DEF RollbackToTag
<1>3. CASE Rollback
  <2>1. Previous \in 1..Len(events) /\ DOMAIN events = 1..Len(events)
    BY <1>3, PreviousKnown DEF Rollback, RollbackTo, Activable, StoreInv, IInv, TypeOK
  <2> QED BY <1>3, <2>1, StoreRollback DEF Rollback
<1>4. CASE RestoreOriginal
  BY <1>4, StoreRestore
<1>5. CASE PolicySet \/ \E t \in Tag : Upgrade(t)
  BY <1>5, QuietStep DEF PolicySet, Upgrade, entry, command, counters
<1>6. CASE \E t \in Tag : Delete(t)
  BY <1>6, StoreDelete
<1>7. CASE PutNew
  <2>1. /\ goal \in Tag /\ released[goal] \in Sha /\ pc = "put"
        /\ Put(goal, released[goal], "recheck")
        /\ UNCHANGED <<entry, released, policy, counters>>
    BY <1>7 DEF PutNew, StoreInv, IInv, TypeOK, InProgress
  <2> QED BY <2>1, StorePut
<1>8. CASE KeepCurrent
  BY <1>8, StoreKeep
<1>9. CASE Activate
  BY <1>9, StoreActivate
<1>10. CASE Prune
  BY <1>10, StorePrune
<1>11. CASE Recheck \/ PruneSkipped \/ Done \/ Fault
  <2>1. UNCHANGED <<events, original, slot>> /\ foreign' = foreign
    BY <1>11 DEF Recheck, PruneSkipped, Done, Fault, entry, counters
  <2>2. pc' = "idle" \/ (pc' = "keep" /\ staged' = None)
    BY <1>11 DEF Recheck, PruneSkipped, Done, Fault, Goto, Stop
  <2> QED BY <2>1, <2>2, QuietStep
<1>12. CASE \E s \in Sha : ForeignWrite(s)
  BY <1>0, <1>12, OutsideStep DEF ForeignWrite
<1>13. CASE (\E t \in Tag, s \in Sha : Retag(t, s)) \/ UNCHANGED vars
  BY <1>13, OutsideStep DEF Retag, vars, entry, command, policy, counters
<1> QED BY <1>1, <1>2, <1>3, <1>4, <1>5, <1>6, <1>7, <1>8, <1>9, <1>10, <1>11, <1>12, <1>13 DEF Next

THEOREM StoreInductive == Spec => []StoreInv
PROOF
<1>1. Init => StoreInv
  BY StoreInitially
<1>2. StoreInv /\ IInv' /\ [Next]_vars => StoreInv'
  BY StorePreserved
<1> QED BY <1>1, <1>2, Inductive, PTL DEF Spec

\* However crashes, failures, prunes, policy changes and retags interleave, the
\* version an upgrade replaced can be reactivated.
THEOREM UpgradeStaysReversible == Spec => []UpgradeReversible
PROOF
<1>1. StoreInv => UpgradeReversible
  BY DEF StoreInv
<1> QED BY <1>1, StoreInductive, PTL

\* A prune that ends has deleted neither less nor more than its policy says.
THEOREM PruneIsExact == Spec => []PruneExact
PROOF
<1>1. StoreInv => PruneExact
  BY DEF StoreInv, Deleting, PruneExact
<1> QED BY <1>1, StoreInductive, PTL

\* Only a prune deletes, and only while everything it retains is whole.
THEOREM PruneDeletesNothingRetained == Spec => PruneFailsClosed
PROOF
<1>1. StoreInv /\ [Next]_vars =>
        [pc = "delete" /\ slot' # slot =>
           \A e \in Retained : Source(e.tag) = e.sha /\ Source(e.tag)' = e.sha]_vars
  <2> SUFFICES ASSUME StoreInv, Next, pc = "delete", slot' # slot, NEW e \in Retained
               PROVE  Source(e.tag) = e.sha /\ Source(e.tag)' = e.sha
    BY DEF vars
  <2>1. PICK t \in Tag : Delete(t)
    BY DEF Next, Adopt, RollbackToTag, Upgrade, Rollback, RestoreOriginal, PolicySet, PutNew,
           Recheck, KeepCurrent, Activate, Prune, PruneSkipped, Done, Fault, ForeignWrite, Retag
  <2> QED BY <2>1, DeletedApart
<1> QED BY <1>1, StoreInductive, PTL DEF Spec, PruneFailsClosed

-----------------------------------------------------------------------------
(* The history is an undo stack *)

Version == [tag : Tag \union {Original}, sha : Sha]
VersionOf(e) == [tag |-> e.tag, sha |-> e.sha]
Home == [tag |-> Original, sha |-> original]

LEMMA VersionsKnown ==
  ASSUME IInv
  PROVE  /\ Chain \in Seq(DOMAIN events) /\ Versions \in Seq(Version)
         /\ Len(Versions) = Len(Chain)
         /\ \A k \in 1..Len(Chain) : Versions[k] = VersionOf(events[Chain[k]])
         /\ Versions # <<>> <=> Adopted
         /\ Adopted => Len(Chain) \in Nat \ {0} /\ Chain[1] = Len(events)
PROOF
<1>1. events \in Seq(Record) /\ Rooted(events)
  BY HistoryRooted DEF IInv, TypeOK, Record
<1>2. CASE ~Adopted
  <2>1. events = <<>>
    BY <1>2 DEF Adopted
  <2>2. Chain = <<>>
    BY <1>1, <2>1, LinesEquation DEF Chain
  <2>3. Versions = <<>>
    BY <2>2 DEF Versions
  <2> QED BY <1>2, <2>2, <2>3
<1>3. CASE Adopted
  <2>1. Chain \in Seq(DOMAIN events) /\ Chain[1] = Len(events) /\ Len(Chain) \in Nat \ {0}
    BY <1>3, AncestorsKnown
  <2>2. Versions = [k \in 1..Len(Chain) |-> VersionOf(events[Chain[k]])]
    BY <2>1 DEF Versions, VersionOf
  <2>3. \A k \in 1..Len(Chain) : VersionOf(events[Chain[k]]) \in Version
    <3> TAKE k \in 1..Len(Chain)
    <3>1. Chain[k] \in DOMAIN events
      BY <2>1
    <3>2. events[Chain[k]] \in Record
      BY <1>1, <3>1
    <3> QED BY <3>2 DEF VersionOf, Version, Record
  <2>4. Versions \in Seq(Version) /\ Len(Versions) = Len(Chain)
    BY <2>1, <2>2, <2>3
  <2> QED BY <1>3, <2>1, <2>2, <2>4
<1> QED BY <1>2, <1>3

\* The stack after an event: its version on top of its parent's lineage.
LEMMA VersionsAfter ==
  ASSUME IInv, IInv', Adopted, NEW e \in Record, events' = Append(events, e)
  PROVE  LET P == Lines(events)[e.parent]
         IN  /\ e.parent \in 0..Len(events)
             /\ P \in Seq(DOMAIN events)
             /\ Versions' \in Seq(Version) /\ Len(Versions') = Len(P) + 1
             /\ Versions'[1] = VersionOf(e)
             /\ \A k \in 1..Len(P) : Versions'[k + 1] = VersionOf(events[P[k]])
PROOF
<1> DEFINE n == Len(events)
           P == Lines(events)[e.parent]
<1>1. /\ Rooted(events) /\ Rooted(events')
      /\ n \in Nat /\ DOMAIN events = 1..n /\ Len(events') = n + 1 /\ events'[n + 1] = e
      /\ \A i \in 1..n : events'[i] = events[i]
  <2>1. events \in Seq(Record) /\ events' \in Seq(Record)
    BY DEF IInv, TypeOK, Record
  <2>2. Rooted(events)
    BY HistoryRooted
  <2>3. Rooted(events')
    <3>1. Rooted(events)'
      BY HistoryRooted, PTL
    <3> QED BY <3>1 DEF Rooted, Record
  <2> QED BY <2>1, <2>2, <2>3
<1>2. e.parent \in 0..n
  BY <1>1 DEF Rooted
<1>3. P \in Seq(DOMAIN events)
  <2>1. P \in Seq(1..e.parent)
    BY <1>1, <1>2, LinesTyped
  <2>2. 1..e.parent \subseteq DOMAIN events
    BY <1>1, <1>2
  <2> QED BY <2>1, <2>2, SeqMonotonic
<1>4. Lines(events')[e.parent] = P
  BY <1>1, <1>2, LinesKept
<1>5. /\ Len(Chain') = Len(P) + 1 /\ Chain'[1] = n + 1
      /\ \A k \in 1..Len(P) : Chain'[k + 1] = P[k]
  <2>1. n + 1 \in 1..Len(events') /\ events'[n + 1].parent = e.parent
    BY <1>1
  <2>2. PICK h : h = events'
    OBVIOUS
  <2>3. /\ Len(Lines(h)[n + 1]) = Len(Lines(h)[h[n + 1].parent]) + 1
        /\ Lines(h)[n + 1][1] = n + 1
        /\ \A k \in 1..Len(Lines(h)[h[n + 1].parent]) :
             Lines(h)[n + 1][k + 1] = Lines(h)[h[n + 1].parent][k]
    <3>1. Rooted(h) /\ n + 1 \in 1..Len(h)
      BY <1>1, <2>1, <2>2
    <3> HIDE DEF n
    <3> QED BY <3>1, Line
  <2>4. /\ Len(Lines(events')[n + 1]) = Len(Lines(events')[e.parent]) + 1
        /\ Lines(events')[n + 1][1] = n + 1
        /\ \A k \in 1..Len(Lines(events')[e.parent]) :
             Lines(events')[n + 1][k + 1] = Lines(events')[e.parent][k]
    BY <2>1, <2>2, <2>3
  <2> QED BY <1>1, <1>4, <2>4 DEF Chain
<1>6. /\ Versions' \in Seq(Version) /\ Len(Versions') = Len(Chain')
      /\ \A k \in 1..Len(Chain') : Versions'[k] = VersionOf(events'[Chain'[k]])
  <2>1. (/\ Versions \in Seq(Version) /\ Len(Versions) = Len(Chain)
         /\ \A k \in 1..Len(Chain) : Versions[k] = VersionOf(events[Chain[k]]))'
    BY VersionsKnown, PTL
  <2> QED BY <2>1 DEF VersionOf
<1>7. Len(P) \in Nat
  BY <1>3
<1>8. Versions'[1] = VersionOf(e)
  <2>1. 1 \in 1..Len(Chain')
    BY <1>5, <1>7
  <2> QED BY <1>1, <1>5, <1>6, <2>1
<1>9. ASSUME NEW k \in 1..Len(P) PROVE Versions'[k + 1] = VersionOf(events[P[k]])
  <2>1. k + 1 \in 1..Len(Chain')
    BY <1>5, <1>7
  <2>2. Versions'[k + 1] = VersionOf(events'[Chain'[k + 1]])
    BY <1>6, <2>1
  <2>3. P[k] \in 1..n
    <3> HIDE DEF P
    <3> QED BY <1>1, <1>3
  <2> QED BY <1>1, <1>5, <2>2, <2>3
<1> QED BY <1>2, <1>3, <1>5, <1>6, <1>8, <1>9

LEMMA UndoAdopts ==
  ASSUME IInv, IInv', NEW t \in Tag, Adopt(t)
  PROVE  Undo!Adopt
PROOF
<1> DEFINE e == Event("adopt", t, live, 0)
<1>1. events' = <<e>> /\ original' = live /\ live \in Sha /\ ~Adopted
  BY DEF Adopt, IInv, TypeOK
<1>2. e.tag = t /\ e.sha = live /\ e.parent = 0
  BY DEF Event
<1> HIDE DEF e
<1>3. Versions = <<>>
  BY <1>1, VersionsKnown
<1>4. /\ Rooted(events') /\ Len(events') = 1 /\ events'[1] = e
  <2>1. Rooted(events)'
    BY HistoryRooted, PTL
  <2> QED BY <1>1, <2>1 DEF Rooted, Record
<1>5. Len(Chain') = 1 /\ Chain'[1] = 1
  <2>1. PICK h : h = events'
    OBVIOUS
  <2>2. Rooted(h) /\ Len(h) = 1 /\ h[1].parent = 0 /\ 1 \in 1..Len(h)
    BY <1>2, <1>4, <2>1
  <2>3. Lines(h)[0] = <<>>
    BY <2>2, LinesEquation
  <2>4. Len(Lines(h)[1]) = Len(Lines(h)[h[1].parent]) + 1 /\ Lines(h)[1][1] = 1
    BY <2>2, Line
  <2> QED BY <2>1, <2>2, <2>3, <2>4 DEF Chain
<1>6. Versions' \in Seq(Version) /\ Len(Versions') = 1 /\ Versions'[1] = VersionOf(e)
  <2>1. (/\ Versions \in Seq(Version) /\ Len(Versions) = Len(Chain)
         /\ \A k \in 1..Len(Chain) : Versions[k] = VersionOf(events[Chain[k]]))'
    BY VersionsKnown, PTL
  <2> QED BY <1>4, <1>5, <2>1 DEF VersionOf
<1>7. Versions' = <<VersionOf(e)>> /\ VersionOf(e) \in Version
  BY <1>1, <1>2, <1>6 DEF VersionOf, Version
<1>8. Home' = [tag |-> Original, sha |-> live] /\ Home' \in Version
  BY <1>1 DEF Home, Version
<1> QED BY <1>3, <1>7, <1>8 DEF Undo!Adopt, Version, Home

LEMMA UndoPushes ==
  ASSUME IInv, IInv', Activate, events' # events
  PROVE  Undo!Push
PROOF
<1> DEFINE e == Event("upgrade", goal, slot[goal], Len(events))
<1>1. Adopted /\ goal \in Tag /\ goal # Active.tag /\ slot[goal] \in Sha /\ Len(events) \in Nat
  BY DEF IInv, TypeOK, InProgress, Activate, Full
<1>2. e \in Record /\ e.tag = goal /\ e.parent = Len(events)
  BY <1>1 DEF Event, Record, Operations
<1>3. events' = Append(events, e) /\ original' = original
  BY DEF Activate, RecordUpgrade
<1> HIDE DEF e
<1>4. /\ Versions \in Seq(Version) /\ Len(Versions) = Len(Chain) /\ Versions # <<>>
      /\ Len(Chain) \in Nat \ {0} /\ Chain[1] = Len(events)
      /\ \A k \in 1..Len(Chain) : Versions[k] = VersionOf(events[Chain[k]])
  BY <1>1, VersionsKnown
<1>5. /\ Versions' \in Seq(Version) /\ Len(Versions') = Len(Versions) + 1
      /\ Versions'[1] = VersionOf(e)
      /\ \A k \in 1..Len(Versions) : Versions'[k + 1] = Versions[k]
  BY <1>1, <1>2, <1>3, <1>4, VersionsAfter DEF Chain
<1>6. Versions' # <<>> /\ Tail(Versions') = Versions
  <2>1. Versions' # <<>>
    BY <1>4, <1>5
  <2>2. /\ Tail(Versions') \in Seq(Version) /\ Len(Tail(Versions')) = Len(Versions') - 1
        /\ \A k \in 1..Len(Tail(Versions')) : Tail(Versions')[k] = Versions'[k + 1]
    BY <1>5, <2>1, HeadTailProperties
  <2> QED BY <1>4, <1>5, <2>1, <2>2, SeqEqual
<1>7. Head(Versions') \in Version /\ Head(Versions') # Head(Versions)
  <2>1. Head(Versions') = VersionOf(e) /\ Head(Versions) = Versions[1]
    BY <1>4, <1>5, <1>6
  <2>2. Versions[1] = VersionOf(Active)
    BY <1>4 DEF Active
  <2>3. VersionOf(e).tag = goal /\ VersionOf(Active).tag = Active.tag /\ VersionOf(e) \in Version
    BY <1>2 DEF VersionOf, Version, Record
  <2> QED BY <1>1, <2>1, <2>2, <2>3
<1> QED BY <1>3, <1>4, <1>6, <1>7 DEF Undo!Push, Version

LEMMA UndoPops ==
  ASSUME IInv, IInv', Activable, NEW target \in DOMAIN events, RollbackTo(target),
         original' = original
  PROVE  Undo!Pop
PROOF
<1> DEFINE e == Event("rollback", events[target].tag, events[target].sha, events[target].parent)
           C == Chain
           P == Lines(events)[events[target].parent]
<1>1. Adopted /\ events \in Seq(Record) /\ Rooted(events)
  BY HistoryRooted DEF IInv, TypeOK, Record, Activable
<1>2. events[target] \in Record /\ target \in 1..Len(events)
  BY <1>1
<1>3. e \in Record /\ e.tag = events[target].tag /\ e.sha = events[target].sha /\ e.parent = events[target].parent
  BY <1>2 DEF Event, Record, Operations
<1>4. events' = Append(events, e)
  BY DEF RollbackTo, RecordRollback
<1> HIDE DEF e
<1>5. /\ Ancestors \in Seq(DOMAIN events) /\ Len(C) = Len(Ancestors) + 1
      /\ \A k \in DOMAIN Ancestors : Ancestors[k] = C[k + 1]
  BY <1>1, AncestorsKnown
<1>6. PICK k \in 1..Len(Ancestors) : C[k + 1] = target
  <2>1. PICK k \in DOMAIN Ancestors : Ancestors[k] = target
    BY DEF RollbackTo, RecordRollback
  <2>2. k \in 1..Len(Ancestors) /\ C[k + 1] = target
    BY <1>5, <2>1
  <2> QED BY <2>2
<1>7. /\ Versions \in Seq(Version) /\ Len(Versions) = Len(C) /\ C \in Seq(DOMAIN events)
      /\ \A j \in 1..Len(C) : Versions[j] = VersionOf(events[C[j]])
  BY <1>1, VersionsKnown
<1>8. /\ P \in Seq(DOMAIN events) /\ Versions' \in Seq(Version) /\ Len(Versions') = Len(P) + 1
      /\ Versions'[1] = VersionOf(events[target])
      /\ \A j \in 1..Len(P) : Versions'[j + 1] = VersionOf(events[P[j]])
  <2>1. LET R == Lines(events)[e.parent]
        IN  /\ R \in Seq(DOMAIN events)
            /\ Versions' \in Seq(Version) /\ Len(Versions') = Len(R) + 1
            /\ Versions'[1] = VersionOf(e)
            /\ \A j \in 1..Len(R) : Versions'[j + 1] = VersionOf(events[R[j]])
    BY <1>1, <1>3, <1>4, VersionsAfter
  <2>2. VersionOf(e) = VersionOf(events[target]) /\ Lines(events)[e.parent] = P
    BY <1>3 DEF VersionOf
  <2> QED BY <2>1, <2>2
<1> DEFINE Q == SubSeq(C, k + 1, Len(C))
<1>9. k + 1 \in 1..Len(C) /\ Q = Lines(events)[target]
  <2>1. k + 1 \in 1..Len(C) /\ Len(events) \in 0..Len(events)
    BY <1>1, <1>5
  <2>2. \A j \in 1..Len(C) : SubSeq(C, j, Len(C)) = Lines(events)[C[j]]
    BY <1>1, <2>1, Suffixes DEF Chain
  <2> QED BY <1>6, <2>1, <2>2
<1>10. Len(Q) = Len(P) + 1 /\ Q[1] = target /\ \A j \in 1..Len(P) : Q[j + 1] = P[j]
  <2>1. LET L == Lines(events)[target]
        IN  Len(L) = Len(P) + 1 /\ L[1] = target /\ \A j \in 1..Len(P) : L[j + 1] = P[j]
    BY <1>1, <1>2, Line
  <2> HIDE DEF P, Q, C
  <2> QED BY <1>9, <2>1
<1>11. Len(Q) = Len(C) - k /\ \A j \in 1..(Len(C) - k) : Q[j] = C[k + j]
  <2>1. \A j \in (k + 1)..Len(C) : C[j] \in DOMAIN events
    BY <1>7, <1>9
  <2>2. /\ Len(Q) = Len(C) - (k + 1) + 1
        /\ \A j \in 1..(Len(C) - (k + 1) + 1) : Q[j] = C[(k + 1) + j - 1]
    BY <1>7, <1>9, <2>1, SubSeqProperties
  <2> HIDE DEF C, Q
  <2>3. Len(C) \in Nat
    BY <1>7
  <2> QED BY <2>2, <2>3
<1> HIDE DEF C, P, Q
<1>12. Len(P) \in Nat /\ Len(C) \in Nat /\ Len(Versions') = Len(C) - k
  BY <1>7, <1>8, <1>10, <1>11
<1>13. ASSUME NEW j \in 1..(Len(C) - k) PROVE Versions'[j] = Versions[k + j]
  <2>1. k + j \in 1..Len(C)
    BY <1>12
  <2>2. Versions[k + j] = VersionOf(events[Q[j]])
    BY <1>7, <1>11, <2>1
  <2>3. CASE j = 1
    BY <1>8, <1>10, <2>2, <2>3
  <2>4. CASE j # 1
    <3>1. j - 1 \in 1..Len(P) /\ (j - 1) + 1 = j
      BY <1>10, <1>11, <1>12, <2>4
    <3> QED BY <1>8, <1>10, <2>2, <3>1
  <2> QED BY <2>3, <2>4
<1>14. Len(Versions') \in 1..(Len(Versions) - 1)
  BY <1>5, <1>7, <1>8, <1>12
<1>15. Versions' = SubSeq(Versions, Len(Versions) - Len(Versions') + 1, Len(Versions))
  <2> DEFINE R == SubSeq(Versions, k + 1, Len(Versions))
  <2>1. Len(Versions) - Len(Versions') + 1 = k + 1
    BY <1>7, <1>12
  <2>2. \A j \in (k + 1)..Len(Versions) : Versions[j] \in Version
    BY <1>7, <1>12
  <2>3. /\ R \in Seq(Version) /\ Len(R) = Len(C) - k
        /\ \A j \in 1..(Len(C) - k) : R[j] = Versions[k + j]
    <3>1. /\ R \in Seq(Version) /\ Len(R) = Len(C) - (k + 1) + 1
          /\ \A j \in 1..(Len(C) - (k + 1) + 1) : R[j] = Versions[(k + 1) + j - 1]
      BY <1>7, <1>9, <1>12, <2>2, SubSeqProperties
    <3> HIDE DEF R
    <3> QED BY <1>12, <3>1
  <2> HIDE DEF R
  <2>4. Versions' = R
    BY <1>8, <1>12, <1>13, <2>3, SeqEqual
  <2> QED BY <2>1, <2>4 DEF R
<1> QED BY <1>14, <1>15 DEF Undo!Pop

LEMMA UndoGoesHome ==
  ASSUME IInv, IInv', RestoreOriginal
  PROVE  Undo!GoHome
PROOF
<1> DEFINE e == Event("rollback", Original, original, 0)
<1>1. Adopted /\ original \in Sha /\ events' = Append(events, e) /\ original' = original
  BY DEF IInv, Backed, RestoreOriginal, Activable, RecordRestoreOriginal
<1>2. e \in Record /\ e.parent = 0 /\ VersionOf(e) = Home
  BY <1>1 DEF Event, Record, Operations, VersionOf, Home
<1> HIDE DEF e
<1>3. Lines(events)[e.parent] = <<>>
  BY <1>2, HistoryRooted, LinesEquation
<1>4. Versions' \in Seq(Version) /\ Len(Versions') = 1 /\ Versions'[1] = Home
  <2>1. /\ Versions' \in Seq(Version)
        /\ Len(Versions') = Len(Lines(events)[e.parent]) + 1
        /\ Versions'[1] = VersionOf(e)
    BY <1>1, <1>2, VersionsAfter
  <2> QED BY <1>2, <1>3, <2>1
<1>5. Versions' = <<Home>> /\ Versions # <<>>
  BY <1>1, <1>4, VersionsKnown
<1> QED BY <1>1, <1>5 DEF Undo!GoHome, Home

LEMMA UndoStep ==
  ASSUME IInv, IInv', [Next]_vars
  PROVE  [Undo!Next]_<<Versions, Home>>
PROOF
<1>1. ASSUME UNCHANGED <<events, original>> PROVE UNCHANGED <<Versions, Home>>
  BY <1>1 DEF Versions, Chain, Home
<1>2. CASE \E t \in Tag : Adopt(t)
  BY <1>2, UndoAdopts DEF Undo!Next
<1>3. CASE \E t \in Tag : RollbackToTag(t)
  BY <1>3, UndoPops DEF RollbackToTag, Undo!Next
<1>4. CASE Rollback
  <2>1. Previous \in 1..Len(events) /\ DOMAIN events = 1..Len(events)
    BY <1>4, PreviousKnown DEF Rollback, RollbackTo, Activable, IInv, TypeOK
  <2> QED BY <1>4, <2>1, UndoPops DEF Rollback, Undo!Next
<1>5. CASE RestoreOriginal
  BY <1>5, UndoGoesHome DEF Undo!Next
<1>6. CASE Activate
  <2>1. CASE events' # events
    BY <1>6, <2>1, UndoPushes DEF Undo!Next
  <2>2. CASE events' = events
    BY <1>1, <1>6, <2>2 DEF Activate
  <2> QED BY <2>1, <2>2
<1>7. CASE \/ PolicySet \/ (\E t \in Tag : Upgrade(t) \/ Delete(t)) \/ PutNew \/ Recheck
           \/ KeepCurrent \/ Prune \/ PruneSkipped \/ Done \/ Fault
           \/ (\E s \in Sha : ForeignWrite(s))
           \/ (\E t \in Tag, s \in Sha : Retag(t, s)) \/ UNCHANGED vars
  <2>1. UNCHANGED <<events, original>>
    BY <1>7 DEF PolicySet, Upgrade, Delete, PutNew, Recheck, KeepCurrent, Prune, PruneSkipped,
                Done, Fault, ForeignWrite, Retag, vars, entry
  <2> QED BY <1>1, <2>1
<1> QED BY <1>2, <1>3, <1>4, <1>5, <1>6, <1>7 DEF Next

\* The history implements the undo stack: upgrades push what the live binary
\* becomes, rollbacks pop to what it was, and --to original starts over.
THEOREM HistoryIsUndoStack == Spec => UndoSpec
PROOF
<1>1. Init => Undo!Init
  <2> SUFFICES ASSUME Init PROVE Undo!Init
    OBVIOUS
  <2>1. Versions = <<>>
    BY Initially, VersionsKnown DEF Init, Adopted
  <2>2. Home \notin Version
    BY LineageAssumption DEF Init, Home, Version
  <2> QED BY <2>1, <2>2 DEF Undo!Init, Home, Version
<1>2. IInv /\ IInv' /\ [Next]_vars => [Undo!Next]_<<Versions, Home>>
  BY UndoStep
<1> QED BY <1>1, <1>2, Inductive, PTL DEF Spec, UndoSpec, Undo!Spec, Home
=============================================================================
