-------------------------- MODULE TurnInputProofs --------------------------
(***************************************************************************)
(* Proofs about the inputs of TurnLifecycle: what a client, a component or *)
(* another agent hands to the session is never in two places, it can only  *)
(* be lost with the turn state it is pending in, and where only the loop   *)
(* starts and aborts turns, and the last poll of an aborted task is over   *)
(* before the abort is, it is not lost at all.                             *)
(*                                                                         *)
(* All the places an input can be in are seen as one shelf.  An operation  *)
(* rearranges a few places of it: it puts an unsent input on the shelf,    *)
(* pours one place into another or empties some, and keeps the rest.  One  *)
(* lemma says what such a rearrangement may do; every action is shown to   *)
(* be one (UInv).  What is overwritten must have been empty (HInv), and a  *)
(* turn state with pending input has somebody who will take it (KInv).     *)
(***************************************************************************)
EXTENDS TurnAbortProofs

-----------------------------------------------------------------------------
(* The shelf *)

\* Every place there can be, and names for the places.
AllPlaces == ({"session"} \X {"history", "queued", "mailbox"})
             \union ({"hand"} \X Procs) \union ({"input"} \X Turns)
             \union ({"pending"} \X Nat)
Recorded == <<"session", "history">>
Queue == <<"session", "queued">>
Mailbox == <<"session", "mailbox">>
HandOf(d) == <<"hand", d>>
InputOf(t) == <<"input", t>>
PendingIn(i) == <<"pending", i>>

\* The pending input of every turn state, allocated or not.
PendingOf(ts) == [i \in Nat |-> IF i \in DOMAIN ts THEN ts[i].pending ELSE <<>>]

Arranged(hi, qu, ma, ha, in, pe) ==
    [p \in AllPlaces |->
        CASE p[1] = "hand" -> ha[p[2]]
          [] p[1] = "input" -> in[p[2]]
          [] p[1] = "pending" -> pe[p[2]]
          [] p = Recorded -> hi
          [] p = Queue -> qu
          [] p = Mailbox -> ma]
Shelf == Arranged(history, queued, mailbox, hand, input, PendingOf(turnState))

\* A place is one of the named ones,
LEMMA PlaceCases ==
    ASSUME NEW p \in AllPlaces
    PROVE  \/ p \in {Recorded, Queue, Mailbox}
           \/ \E d \in Procs : p = HandOf(d)
           \/ \E t \in Turns : p = InputOf(t)
           \/ \E i \in Nat : p = PendingIn(i)
BY DEF AllPlaces, Recorded, Queue, Mailbox, HandOf, InputOf, PendingIn

\* which are all different.
LEMMA PlacesDiffer ==
    /\ {Recorded, Queue, Mailbox} \subseteq AllPlaces
    /\ Recorded # Queue /\ Recorded # Mailbox /\ Queue # Mailbox
    /\ \A d \in Procs : HandOf(d) \in AllPlaces \ {Recorded, Queue, Mailbox}
    /\ \A t \in Turns : InputOf(t) \in AllPlaces \ {Recorded, Queue, Mailbox}
    /\ \A i \in Nat : PendingIn(i) \in AllPlaces \ {Recorded, Queue, Mailbox}
    /\ \A d, e : HandOf(d) = HandOf(e) => d = e
    /\ \A t, u : InputOf(t) = InputOf(u) => t = u
    /\ \A i, j : PendingIn(i) = PendingIn(j) => i = j
    /\ \A d, t : HandOf(d) # InputOf(t) /\ HandOf(d) # PendingIn(t)
                 /\ InputOf(d) # PendingIn(t)
BY DEF AllPlaces, Recorded, Queue, Mailbox, HandOf, InputOf, PendingIn

\* What is at a place.
LEMMA ArrangedAt ==
    ASSUME NEW hi, NEW qu, NEW ma, NEW ha, NEW in, NEW pe
    PROVE  /\ DOMAIN Arranged(hi, qu, ma, ha, in, pe) = AllPlaces
           /\ Arranged(hi, qu, ma, ha, in, pe)[Recorded] = hi
           /\ Arranged(hi, qu, ma, ha, in, pe)[Queue] = qu
           /\ Arranged(hi, qu, ma, ha, in, pe)[Mailbox] = ma
           /\ \A d \in Procs : Arranged(hi, qu, ma, ha, in, pe)[HandOf(d)] = ha[d]
           /\ \A t \in Turns : Arranged(hi, qu, ma, ha, in, pe)[InputOf(t)] = in[t]
           /\ \A i \in Nat : Arranged(hi, qu, ma, ha, in, pe)[PendingIn(i)] = pe[i]
<1>1. /\ {Recorded, Queue, Mailbox} \subseteq AllPlaces
      /\ Recorded # Queue /\ Recorded # Mailbox /\ Queue # Mailbox
      /\ \A d \in Procs : HandOf(d) \in AllPlaces
      /\ \A t \in Turns : InputOf(t) \in AllPlaces
      /\ \A i \in Nat : PendingIn(i) \in AllPlaces
  BY PlacesDiffer
<1>2. /\ Recorded[1] = "session" /\ Queue[1] = "session" /\ Mailbox[1] = "session"
      /\ \A d : HandOf(d)[1] = "hand" /\ HandOf(d)[2] = d
      /\ \A t : InputOf(t)[1] = "input" /\ InputOf(t)[2] = t
      /\ \A i : PendingIn(i)[1] = "pending" /\ PendingIn(i)[2] = i
  BY DEF Recorded, Queue, Mailbox, HandOf, InputOf, PendingIn
<1>3. "session" \notin {"hand", "input", "pending"}
  OBVIOUS
<1> QED BY <1>1, <1>2, <1>3 DEF Arranged

\* The same for the shelf of a state and of the next one.
LEMMA ShelfAt ==
    /\ DOMAIN Shelf = AllPlaces
    /\ Shelf[Recorded] = history
    /\ Shelf[Queue] = queued
    /\ Shelf[Mailbox] = mailbox
    /\ \A d \in Procs : Shelf[HandOf(d)] = hand[d]
    /\ \A t \in Turns : Shelf[InputOf(t)] = input[t]
    /\ \A i \in Nat : Shelf[PendingIn(i)] = PendingOf(turnState)[i]
BY ArrangedAt DEF Shelf

LEMMA NextShelfAt ==
    /\ DOMAIN Shelf' = AllPlaces
    /\ Shelf'[Recorded] = history'
    /\ Shelf'[Queue] = queued'
    /\ Shelf'[Mailbox] = mailbox'
    /\ \A d \in Procs : Shelf'[HandOf(d)] = hand'[d]
    /\ \A t \in Turns : Shelf'[InputOf(t)] = input'[t]
    /\ \A i \in Nat : Shelf'[PendingIn(i)] = PendingOf(turnState')[i]
BY ArrangedAt DEF Shelf

\* Every place holds inputs.
LEMMA PendingType ==
    ASSUME NEW ts \in Seq(TurnStates)
    PROVE  PendingOf(ts) \in [Nat -> Seq(Inputs)]
<1>1. \A i \in DOMAIN ts : ts[i] \in TurnStates
  OBVIOUS
<1>2. \A i \in DOMAIN ts : ts[i].pending \in Seq(Inputs)
  BY <1>1 DEF TurnStates
<1> QED BY <1>2, NoInput DEF PendingOf

LEMMA ArrangedType ==
    ASSUME NEW hi \in Seq(Inputs), NEW qu \in Seq(Inputs), NEW ma \in Seq(Inputs),
           NEW ha \in [Procs -> Seq(Inputs)], NEW in \in [Turns -> Seq(Inputs)],
           NEW pe \in [Nat -> Seq(Inputs)]
    PROVE  Arranged(hi, qu, ma, ha, in, pe) \in [AllPlaces -> Seq(Inputs)]
<1> DEFINE sh == Arranged(hi, qu, ma, ha, in, pe)
<1>1. \A p \in AllPlaces : sh[p] \in Seq(Inputs)
  <2> SUFFICES ASSUME NEW p \in AllPlaces PROVE sh[p] \in Seq(Inputs)
    OBVIOUS
  <2> HIDE DEF sh
  <2>1. CASE p \in {Recorded, Queue, Mailbox}
    <3>1. sh[Recorded] = hi /\ sh[Queue] = qu /\ sh[Mailbox] = ma
      BY ArrangedAt DEF sh
    <3> QED BY <2>1, <3>1
  <2>2. CASE \E d \in Procs : p = HandOf(d)
    BY <2>2, ArrangedAt DEF sh
  <2>3. CASE \E t \in Turns : p = InputOf(t)
    BY <2>3, ArrangedAt DEF sh
  <2>4. CASE \E i \in Nat : p = PendingIn(i)
    <3>1. \A i \in Nat : sh[PendingIn(i)] = pe[i]
      BY ArrangedAt, SMTT(60) DEF sh
    <3> QED BY <2>4, <3>1
  <2> QED BY <2>1, <2>2, <2>3, <2>4, PlaceCases
<1> QED BY <1>1 DEF Arranged

LEMMA ShelfType ==
    ASSUME TypeOK PROVE Shelf \in [AllPlaces -> Seq(Inputs)]
<1>1. mailbox \in Seq(Inputs)
  BY DEF TypeOK, Inputs
<1> QED BY <1>1, PendingType, ArrangedType DEF TypeOK, Shelf

LEMMA NextShelfType ==
    ASSUME TypeOK' PROVE Shelf' \in [AllPlaces -> Seq(Inputs)]
<1>1. mailbox' \in Seq(Inputs)
  BY DEF TypeOK, Inputs
<1> QED BY <1>1, PendingType, ArrangedType DEF TypeOK, Shelf

-----------------------------------------------------------------------------
(* Rearranging the shelf *)

\* A sequence without repetitions, and a shelf with no item in two positions.
Distinct(s) == \A j, k \in DOMAIN s : s[j] = s[k] => j = k
Unique(sh) ==
    /\ \A p \in AllPlaces : Distinct(sh[p])
    /\ \A p, q \in AllPlaces : \A x \in Range(sh[p]) \intersect Range(sh[q]) : p = q
\* What is on the shelf was sent.
Sent(sh, u) == \A p \in AllPlaces : \A x \in Range(sh[p]) : x \notin u
\* Every input is unsent, dropped or somewhere on the shelf.
Found(sh, u, dr) ==
    \A x \in Inputs : x \in u \/ x \in dr \/ \E p \in AllPlaces : x \in Range(sh[p])

\* Unless it is emptied on purpose, a place keeps what it holds or hands it to
\* another place; what is put on the shelf was not sent before.
Rearranges(A, f, g, u, v, dq) ==
    /\ \A p \in AllPlaces \ A : g[p] = f[p]
    /\ \A p \in A : Distinct(g[p])
    /\ \A p, q \in A : \A x \in Range(g[p]) \intersect Range(g[q]) : p = q
    /\ \A p \in A : \A x \in Range(g[p]) :
          x \in u \ v \/ \E q \in A : x \in Range(f[q])
    /\ \A p \in A : \A x \in Range(f[p]) :
          x \in dq \/ \E q \in A : x \in Range(g[q])
    /\ \A x \in u \ v : \E q \in A : x \in Range(g[q])

\* Such a step keeps the shelf in order.
LEMMA Rearranged ==
    ASSUME NEW f, NEW g, NEW u, NEW v, NEW dr, NEW dq, NEW A \in SUBSET AllPlaces,
           Unique(f), Sent(f, u), Found(f, u, dr), v \subseteq u, dr \subseteq dq,
           Rearranges(A, f, g, u, v, dq)
    PROVE  Unique(g) /\ Sent(g, v) /\ Found(g, v, dq)
<1> USE DEF Rearranges
<1>1. \A p \in AllPlaces : Distinct(g[p])
  BY DEF Unique
<1>2. ASSUME NEW p \in AllPlaces, NEW q \in AllPlaces,
             NEW x \in Range(g[p]) \intersect Range(g[q])
      PROVE  p = q
  <2>1. CASE p \in A /\ q \in A
    BY <1>2, <2>1
  <2>2. CASE p \notin A /\ q \notin A
    BY <1>2, <2>2 DEF Unique
  <2>3. ASSUME NEW a \in A, NEW b \in AllPlaces \ A, x \in Range(g[a]), x \in Range(g[b])
        PROVE  FALSE
    <3>1. x \in Range(f[b])
      BY <2>3
    <3>2. x \notin u
      BY <3>1 DEF Sent
    <3>3. PICK q1 \in A : x \in Range(f[q1])
      BY <2>3, <3>2
    <3> QED BY <3>1, <3>3 DEF Unique
  <2> QED BY <1>2, <2>1, <2>2, <2>3
<1>3. Sent(g, v)
  <2> SUFFICES ASSUME NEW p \in AllPlaces, NEW x \in Range(g[p]), x \in v PROVE FALSE
    BY DEF Sent
  <2>1. CASE p \in A
    BY <2>1 DEF Sent
  <2>2. CASE p \notin A
    BY <2>2 DEF Sent
  <2> QED BY <2>1, <2>2
<1>4. Found(g, v, dq)
  <2> SUFFICES ASSUME NEW x \in Inputs, x \notin v, x \notin dq
               PROVE  \E p \in AllPlaces : x \in Range(g[p])
    BY DEF Found
  <2>1. CASE x \in u
    BY <2>1
  <2>2. CASE x \notin u
    <3>1. PICK p \in AllPlaces : x \in Range(f[p])
      BY <2>2 DEF Found
    <3>2. CASE p \in A
      BY <3>1, <3>2
    <3>3. CASE p \notin A
      BY <3>1, <3>3
    <3> QED BY <3>2, <3>3
  <2> QED BY <2>1, <2>2
<1> QED BY <1>1, <1>2, <1>3, <1>4 DEF Unique

\* The elements of the sequences that the actions build.
LEMMA RangeEmpty == Range(<<>>) = {} /\ Distinct(<<>>)
BY DEF Range, Distinct

LEMMA RangeConcat ==
    ASSUME NEW s \in Seq(Inputs), NEW t \in Seq(Inputs)
    PROVE  /\ Range(s \o t) = Range(s) \union Range(t)
           /\ Distinct(s) /\ Distinct(t) /\ Range(s) \intersect Range(t) = {}
              => Distinct(s \o t)
<1> DEFINE c == s \o t
           n == Len(s)
<1>1. /\ c \in Seq(Inputs) /\ Len(c) = n + Len(t) /\ n \in Nat /\ Len(t) \in Nat
      /\ DOMAIN s = 1 .. n /\ DOMAIN t = 1 .. Len(t) /\ DOMAIN c = 1 .. n + Len(t)
  OBVIOUS
<1>2. \A k \in 1 .. n : c[k] = s[k]
  OBVIOUS
<1>3. \A k \in 1 .. Len(t) : c[n + k] = t[k]
  OBVIOUS
<1>4. \A k \in DOMAIN c : k \in 1 .. n \/ (k - n \in 1 .. Len(t) /\ c[k] = t[k - n])
  OBVIOUS
<1> HIDE DEF c, n
<1>5. Range(c) \subseteq Range(s) \union Range(t)
  BY <1>1, <1>2, <1>4 DEF Range
<1>6. Range(s) \subseteq Range(c)
  BY <1>1, <1>2 DEF Range
<1>7. Range(t) \subseteq Range(c)
  <2> SUFFICES ASSUME NEW k \in 1 .. Len(t) PROVE t[k] \in Range(c)
    BY <1>1 DEF Range
  <2>1. n + k \in DOMAIN c /\ c[n + k] = t[k]
    BY <1>1, <1>3
  <2> QED BY <2>1 DEF Range
<1>8. ASSUME Distinct(s), Distinct(t), Range(s) \intersect Range(t) = {},
             NEW j \in DOMAIN c, NEW k \in DOMAIN c, c[j] = c[k]
      PROVE  j = k
  <2>1. CASE j \in 1 .. n /\ k \in 1 .. n
    BY <1>1, <1>2, <1>8, <2>1 DEF Distinct
  <2>2. ASSUME NEW a \in 1 .. n, NEW b \in DOMAIN c \ (1 .. n), c[a] = c[b] PROVE FALSE
    <3>1. s[a] \in Range(s) /\ c[a] = s[a]
      BY <1>1, <1>2 DEF Range
    <3>2. t[b - n] \in Range(t) /\ c[b] = t[b - n]
      BY <1>1, <1>4 DEF Range
    <3> QED BY <1>8, <2>2, <3>1, <3>2
  <2>3. CASE j \notin 1 .. n /\ k \notin 1 .. n
    <3>1. /\ j - n \in DOMAIN t /\ k - n \in DOMAIN t
          /\ t[j - n] = t[k - n]
      BY <1>1, <1>4, <1>8, <2>3
    <3>2. j - n = k - n
      BY <1>8, <3>1 DEF Distinct
    <3> QED BY <1>1, <3>2
  <2> QED BY <1>8, <2>1, <2>2, <2>3
<1> QED BY <1>5, <1>6, <1>7, <1>8 DEF c, Distinct

LEMMA RangeAppend ==
    ASSUME NEW s \in Seq(Inputs), NEW x \in Inputs
    PROVE  /\ Range(Append(s, x)) = Range(s) \union {x}
           /\ Distinct(s) /\ x \notin Range(s) => Distinct(Append(s, x))
<1>1. <<x>> \in Seq(Inputs) /\ Append(s, x) = s \o <<x>>
  OBVIOUS
<1>2. Range(<<x>>) = {x} /\ Distinct(<<x>>)
  BY DEF Range, Distinct
<1> DEFINE t == <<x>>
<1>3. t \in Seq(Inputs) /\ Append(s, x) = s \o t /\ Range(t) = {x} /\ Distinct(t)
  BY <1>1, <1>2
<1> HIDE DEF t
<1>4. /\ Range(s \o t) = Range(s) \union Range(t)
      /\ Distinct(s) /\ Distinct(t) /\ Range(s) \intersect Range(t) = {} => Distinct(s \o t)
  BY <1>3, RangeConcat
<1>5. x \notin Range(s) => Range(s) \intersect Range(t) = {}
  BY <1>3
<1> QED BY <1>3, <1>4, <1>5

LEMMA RangeSub ==
    ASSUME NEW s \in Seq(Inputs), NEW m \in Nat \ {0}, NEW n \in Nat, n <= Len(s),
           Distinct(s)
    PROVE  /\ SubSeq(s, m, n) \in Seq(Inputs)
           /\ Range(SubSeq(s, m, n)) = {s[k] : k \in m .. n}
           /\ Distinct(SubSeq(s, m, n))
<1> DEFINE c == SubSeq(s, m, n)
<1>1. CASE m > n
  <2>1. c = <<>> /\ m .. n = {}
    BY <1>1
  <2> QED BY <2>1, RangeEmpty, NoInput
<1>2. CASE m <= n
  <2>1. /\ DOMAIN s = 1 .. Len(s) /\ Len(s) \in Nat
        /\ c \in Seq(Inputs)
        /\ DOMAIN c = 1 .. n - m + 1
        /\ \A k \in 1 .. n - m + 1 : c[k] = s[m + k - 1] /\ m + k - 1 \in m .. n
    BY <1>2
  <2>2. \A k \in m .. n : k - m + 1 \in 1 .. n - m + 1 /\ c[k - m + 1] = s[k]
    BY <1>2, <2>1
  <2> HIDE DEF c
  <2>3. Range(c) \subseteq {s[k] : k \in m .. n}
    BY <2>1 DEF Range
  <2>4. {s[k] : k \in m .. n} \subseteq Range(c)
    <3> SUFFICES ASSUME NEW k \in m .. n PROVE s[k] \in Range(c)
      OBVIOUS
    <3>1. k - m + 1 \in DOMAIN c /\ c[k - m + 1] = s[k]
      BY <2>1, <2>2
    <3> QED BY <3>1 DEF Range
  <2>5. Distinct(c)
    <3> SUFFICES ASSUME NEW j \in DOMAIN c, NEW k \in DOMAIN c, c[j] = c[k] PROVE j = k
      BY DEF Distinct
    <3>1. /\ s[m + j - 1] = s[m + k - 1]
          /\ m + j - 1 \in DOMAIN s /\ m + k - 1 \in DOMAIN s
      <4>1. j \in 1 .. n - m + 1 /\ k \in 1 .. n - m + 1
        BY <2>1
      <4>2. c[j] = s[m + j - 1] /\ c[k] = s[m + k - 1]
        BY <2>1, <4>1
      <4>3. m + j - 1 \in 1 .. Len(s) /\ m + k - 1 \in 1 .. Len(s)
        BY <1>2, <2>1, <4>1
      <4> QED BY <2>1, <4>2, <4>3
    <3>2. m + j - 1 = m + k - 1
      BY <3>1 DEF Distinct
    <3> QED BY <2>1, <3>2
  <2> QED BY <2>1, <2>3, <2>4, <2>5 DEF c
<1> QED BY <1>1, <1>2

\* The invariant of the shelf.
UInv == Unique(Shelf) /\ Sent(Shelf, unsent) /\ Found(Shelf, unsent, dropped)

\* The places outside A are kept when the variables they name are.
LEMMA ShelfFrame ==
    ASSUME NEW A \in SUBSET AllPlaces,
           Recorded \notin A => history' = history,
           Queue \notin A => queued' = queued,
           Mailbox \notin A => mailbox' = mailbox,
           \A d \in Procs : HandOf(d) \notin A => hand'[d] = hand[d],
           \A t \in Turns : InputOf(t) \notin A => input'[t] = input[t],
           \A i \in Nat : PendingIn(i) \notin A =>
               PendingOf(turnState')[i] = PendingOf(turnState)[i]
    PROVE  \A p \in AllPlaces \ A : Shelf'[p] = Shelf[p]
<1> SUFFICES ASSUME NEW p \in AllPlaces \ A PROVE Shelf'[p] = Shelf[p]
  OBVIOUS
<1>1. CASE p = Recorded
  BY <1>1, ShelfAt, NextShelfAt
<1>2. CASE p = Queue
  BY <1>2, ShelfAt, NextShelfAt
<1>3. CASE p = Mailbox
  BY <1>3, ShelfAt, NextShelfAt
<1>4. CASE \E d \in Procs : p = HandOf(d)
  BY <1>4, ShelfAt, NextShelfAt
<1>5. CASE \E t \in Turns : p = InputOf(t)
  BY <1>5, ShelfAt, NextShelfAt
<1>6. CASE \E i \in Nat : p = PendingIn(i)
  <2>1. PICK i \in Nat : p = PendingIn(i)
    BY <1>6
  <2>2. Shelf[p] = PendingOf(turnState)[i] /\ Shelf'[p] = PendingOf(turnState')[i]
    BY <2>1, ShelfAt, NextShelfAt
  <2> QED BY <2>1, <2>2
<1> QED BY <1>1, <1>2, <1>3, <1>4, <1>5, <1>6, PlaceCases

\* A step that moves no input.
LEMMA Kept ==
    ASSUME UInv, UNCHANGED <<history, queued, mailbox, hand, input, unsent, dropped>>,
           PendingOf(turnState') = PendingOf(turnState)
    PROVE  UInv'
<1>1. Shelf' = Shelf
  BY DEF Shelf
<1> QED BY <1>1 DEF UInv

\* An unsent input is put at the end of a place.
LEMMA Put ==
    ASSUME TypeOK, UInv, NEW a \in AllPlaces, NEW x \in unsent,
           Shelf'[a] = Append(Shelf[a], x),
           \A p \in AllPlaces \ {a} : Shelf'[p] = Shelf[p],
           unsent' = unsent \ {x}, dropped' = dropped
    PROVE  UInv'
<1>1. Shelf[a] \in Seq(Inputs) /\ x \in Inputs
  BY ShelfType DEF TypeOK
<1>2. x \notin Range(Shelf[a]) /\ Distinct(Shelf[a])
  BY DEF UInv, Sent, Unique
<1>3. Range(Shelf'[a]) = Range(Shelf[a]) \union {x} /\ Distinct(Shelf'[a])
  BY <1>1, <1>2, RangeAppend
<1> DEFINE g == Shelf'
           A == {a}
<1>4. Rearranges(A, Shelf, g, unsent, unsent', dropped')
  BY <1>3 DEF Rearranges
<1>5. unsent' \subseteq unsent /\ dropped \subseteq dropped' /\ A \in SUBSET AllPlaces
  OBVIOUS
<1> HIDE DEF A, g
<1>6. Unique(g) /\ Sent(g, unsent') /\ Found(g, unsent', dropped')
  BY <1>4, <1>5, Rearranged DEF UInv
<1> QED BY <1>6 DEF UInv, g

\* A place is poured into another, in front of what is there or behind it.
LEMMA Pour ==
    ASSUME TypeOK, UInv, NEW a \in AllPlaces, NEW b \in AllPlaces, a # b,
           Shelf'[a] = <<>>,
           Shelf'[b] \in {Shelf[b] \o Shelf[a], Shelf[a] \o Shelf[b]},
           \A p \in AllPlaces \ {a, b} : Shelf'[p] = Shelf[p],
           unsent' = unsent, dropped' = dropped
    PROVE  UInv'
<1>1. Shelf[a] \in Seq(Inputs) /\ Shelf[b] \in Seq(Inputs)
  BY ShelfType
<1>2. /\ Distinct(Shelf[a]) /\ Distinct(Shelf[b])
      /\ Range(Shelf[a]) \intersect Range(Shelf[b]) = {}
      /\ Range(Shelf[b]) \intersect Range(Shelf[a]) = {}
  BY DEF UInv, Unique
<1>3. Range(Shelf'[b]) = Range(Shelf[a]) \union Range(Shelf[b]) /\ Distinct(Shelf'[b])
  <2>1. CASE Shelf'[b] = Shelf[b] \o Shelf[a]
    BY <1>1, <1>2, <2>1, RangeConcat
  <2>2. CASE Shelf'[b] = Shelf[a] \o Shelf[b]
    BY <1>1, <1>2, <2>2, RangeConcat
  <2> QED BY <2>1, <2>2
<1>4. Range(Shelf'[a]) = {} /\ Distinct(Shelf'[a])
  BY RangeEmpty
<1> DEFINE g == Shelf'
           A == {a, b}
<1>5. Rearranges(A, Shelf, g, unsent, unsent', dropped')
  BY <1>3, <1>4 DEF Rearranges
<1>6. unsent' \subseteq unsent /\ dropped \subseteq dropped' /\ A \in SUBSET AllPlaces
  OBVIOUS
<1> HIDE DEF A, g
<1>7. Unique(g) /\ Sent(g, unsent') /\ Found(g, unsent', dropped')
  BY <1>5, <1>6, Rearranged DEF UInv
<1> QED BY <1>7 DEF UInv, g

\* Places are emptied, and what they held is dropped on purpose.
LEMMA Emptied ==
    ASSUME UInv, NEW A \in SUBSET AllPlaces,
           \A p \in A : Shelf'[p] = <<>> /\ Range(Shelf[p]) \subseteq dropped',
           \A p \in AllPlaces \ A : Shelf'[p] = Shelf[p],
           unsent' = unsent, dropped \subseteq dropped'
    PROVE  UInv'
<1> DEFINE g == Shelf'
<1>1. \A p \in A : Range(g[p]) = {} /\ Distinct(g[p])
  BY RangeEmpty
<1>2. Rearranges(A, Shelf, g, unsent, unsent', dropped') /\ unsent' \subseteq unsent
  BY <1>1 DEF Rearranges
<1> HIDE DEF g
<1>3. Unique(g) /\ Sent(g, unsent') /\ Found(g, unsent', dropped')
  BY <1>2, Rearranged DEF UInv
<1> QED BY <1>3 DEF UInv, g

\* What the actions do to the pending input of the turn states.
SetsPending(new, ts, i, p) == new = [ts EXCEPT ![i].pending = p]
SetsOther(new, ts, i, a) ==
    new = [ts EXCEPT ![i].approvals = a] \/ new = [ts EXCEPT ![i].phase = a]
LEMMA PendingSet ==
    ASSUME NEW ts \in Seq(TurnStates), NEW i \in DOMAIN ts, NEW p,
           NEW new, SetsPending(new, ts, i, p)
    PROVE  /\ i \in Nat
           /\ PendingOf(ts)[i] = ts[i].pending
           /\ PendingOf(new)[i] = p
           /\ \A j \in Nat \ {i} : PendingOf(new)[j] = PendingOf(ts)[j]
<1>1. i \in Nat /\ ts[i] \in TurnStates
  OBVIOUS
<1>2. DOMAIN new = DOMAIN ts
  BY DEF SetsPending
<1>3. new[i].pending = p /\ \A j \in DOMAIN ts \ {i} : new[j] = ts[j]
  BY <1>1 DEF TurnStates, SetsPending
<1> QED BY <1>1, <1>2, <1>3 DEF PendingOf

\* An allocated turn state is in its place.
LEMMA PendingAt ==
    ASSUME TypeOK, NEW i \in DOMAIN turnState
    PROVE  i \in Nat /\ PendingOf(turnState)[i] = turnState[i].pending
BY DEF PendingOf, TypeOK

LEMMA PendingKept ==
    ASSUME NEW ts \in Seq(TurnStates), NEW i \in DOMAIN ts, NEW a,
           NEW new, SetsOther(new, ts, i, a)
    PROVE  PendingOf(new) = PendingOf(ts)
<1>1. ts[i] \in TurnStates
  OBVIOUS
<1>2. DOMAIN new = DOMAIN ts /\ \A j \in DOMAIN ts : new[j].pending = ts[j].pending
  <2>1. CASE new = [ts EXCEPT ![i].approvals = a]
    BY <1>1, <2>1 DEF TurnStates
  <2>2. CASE new = [ts EXCEPT ![i].phase = a]
    BY <1>1, <2>2 DEF TurnStates
  <2> QED BY <2>1, <2>2 DEF SetsOther
<1> QED BY <1>2 DEF PendingOf

LEMMA PendingAllocated ==
    ASSUME TypeOK PROVE PendingOf(Allocated) = PendingOf(turnState)
<1>1. CASE active # NoTurn
  BY <1>1 DEF Allocated
<1>2. CASE active = NoTurn
  <2>1. turnState \in Seq(TurnStates)
    BY DEF TypeOK
  <2> DEFINE al == Append(turnState, Default)
             n == Len(turnState) + 1
  <2>2. /\ DOMAIN al = DOMAIN turnState \union {n}
        /\ \A i \in DOMAIN turnState : al[i] = turnState[i]
        /\ al[n] = Default /\ n \notin DOMAIN turnState
    BY <2>1
  <2>3. al[n].pending = <<>>
    BY <2>2 DEF Default
  <2>4. Allocated = al
    BY <1>2 DEF Allocated
  <2> HIDE DEF al, n
  <2>5. \A i \in Nat : PendingOf(al)[i] = PendingOf(turnState)[i]
    BY <2>2, <2>3 DEF PendingOf
  <2> QED BY <2>4, <2>5 DEF PendingOf
<1> QED BY <1>1, <1>2

-----------------------------------------------------------------------------
(* Places that are overwritten are empty *)

\* A process has inputs in hand only between taking and giving them.
HandsFree == \A d \in Procs : hand[d] # <<>> =>
    pc[d] \in {"queue", "pending", "mailbox", "attach", "push", "mail", "inspect",
               "complete"}
\* The loop sets out to start a turn at most once at a time,
LoopStarts == starting[Loop] # NoTurn => pc[Loop] \in AbortSteps \union StartSteps
\* and a turn that is not spawned has input only if the loop is about to start it.
InputStarts == \A t \in Turns :
    pc[t] = "none" /\ input[t] # <<>> => starting[Loop] = t

HInv == HandsFree /\ LoopStarts /\ InputStarts

-----------------------------------------------------------------------------
(* Every action rearranges the shelf *)

\* An input joins the pending input of a turn state.
LEMMA PutPending ==
    ASSUME TypeOK, UInv, NEW s \in DOMAIN turnState, NEW x \in unsent,
           PendingOf(turnState')[s] = Append(turnState[s].pending, x),
           \A j \in Nat \ {s} : PendingOf(turnState')[j] = PendingOf(turnState)[j],
           UNCHANGED <<history, queued, mailbox, hand, input, dropped>>,
           unsent' = unsent \ {x}
    PROVE  UInv'
<1> DEFINE a == PendingIn(s)
<1>1. s \in Nat /\ PendingOf(turnState)[s] = turnState[s].pending
  BY PendingAt
<1>2. a \in AllPlaces /\ \A i \in Nat : PendingIn(i) = a => i = s
  BY <1>1, PlacesDiffer
<1>3. Shelf'[a] = Append(Shelf[a], x)
  BY <1>1, ShelfAt, NextShelfAt
<1> HIDE DEF a
<1>4. \A p \in AllPlaces \ {a} : Shelf'[p] = Shelf[p]
  <2>1. {a} \in SUBSET AllPlaces
    BY <1>2
  <2>2. \A i \in Nat : PendingIn(i) \notin {a} =>
            PendingOf(turnState')[i] = PendingOf(turnState)[i]
    BY DEF a
  <2> QED BY <2>1, <2>2, ShelfFrame
<1> QED BY <1>2, <1>3, <1>4, Put

\* A steered prompt joins the pending input of the active turn, and of no other.
LEMMA SteeredPending ==
    ASSUME TInv, NEW p \in Prompts, Steered(p)
    PROVE  /\ active.state \in DOMAIN turnState
           /\ PendingOf(turnState')[active.state] = Append(turnState[active.state].pending, p)
           /\ \A j \in Nat \ {active.state} :
                  PendingOf(turnState')[j] = PendingOf(turnState)[j]
<1> DEFINE s == active.state
           new == Append(turnState[s].pending, p)
           ts == [turnState EXCEPT ![s].pending = new]
<1>1. /\ Tasks # <<>>
      /\ turnState' = [turnState EXCEPT ![s].pending = Append(@, p),
                                        ![s].phase = "CurrentTurn"]
  BY DEF Steered
<1>2. /\ s \in DOMAIN turnState /\ turnState \in Seq(TurnStates)
      /\ turnState[s].pending \in Seq(Inputs)
  BY <1>1, ActiveShape, StateShape DEF Tasks, TInv, TypeOK
<1>3. new \in Seq(Inputs)
  BY <1>2 DEF Inputs
<1>4. ts \in Seq(TurnStates) /\ DOMAIN ts = DOMAIN turnState
  BY <1>2, <1>3, SetPending
<1>5. SetsOther(turnState', ts, s, "CurrentTurn")
  <2>1. turnState' = [ts EXCEPT ![s].phase = "CurrentTurn"]
    BY <1>1, <1>2
  <2> QED BY <2>1 DEF SetsOther
<1>6. SetsPending(ts, turnState, s, new)
  BY DEF SetsPending
<1> HIDE DEF s, new, ts
<1>7. /\ PendingOf(ts)[s] = new
      /\ \A j \in Nat \ {s} : PendingOf(ts)[j] = PendingOf(turnState)[j]
  BY <1>2, <1>6, PendingSet
<1>8. PendingOf(turnState') = PendingOf(ts)
  BY <1>2, <1>4, <1>5, PendingKept
<1>9. /\ s \in DOMAIN turnState /\ PendingOf(turnState')[s] = new
      /\ \A j \in Nat \ {s} : PendingOf(turnState')[j] = PendingOf(turnState)[j]
  BY <1>2, <1>7, <1>8
<1> QED BY <1>9 DEF s, new

\* A steered prompt, from the loop or the app server.
LEMMA SteeredShelf ==
    ASSUME TInv, UInv, NEW p \in Prompts, UserInputSteers(p) \/ Steer(p)
    PROVE  UInv'
<1>1. /\ p \in unsent /\ Steered(p) /\ unsent' = unsent \ {p}
      /\ UNCHANGED <<history, queued, mailbox, hand, input, dropped>>
  BY DEF UserInputSteers, Steer, Steered, record, task, local
<1> QED BY <1>1, SteeredPending, PutPending DEF TInv

\* An injected item.
LEMMA InjectedShelf ==
    ASSUME TInv, UInv, NEW x \in unsent, Injected(x),
           UNCHANGED <<history, queued, mailbox, hand, input, dropped>>
    PROVE  UInv'
<1> DEFINE s == active.state
           new == Append(turnState[s].pending, x)
<1>1. /\ active # NoTurn /\ unsent' = unsent \ {x}
      /\ SetsPending(turnState', turnState, s, new)
  BY DEF Injected, SetsPending
<1>2. s \in DOMAIN turnState /\ turnState \in Seq(TurnStates)
  BY <1>1, ActiveShape DEF TInv, TypeOK
<1> HIDE DEF s, new
<1>3. /\ PendingOf(turnState')[s] = new
      /\ \A j \in Nat \ {s} : PendingOf(turnState')[j] = PendingOf(turnState)[j]
  BY <1>1, <1>2, PendingSet
<1> QED BY <1>1, <1>2, <1>3, PutPending DEF TInv, new

\* A prompt that starts a turn: the turn was unused, so it had no input.
LEMMA SpawnsShelf ==
    ASSUME TInv, HInv, UInv, NEW p \in Prompts, NEW t \in Turns, UserInputSpawns(p, t)
    PROVE  UInv'
<1>1. /\ pc[Loop] = "idle" /\ p \in unsent /\ t \in Unused
      /\ input' = [input EXCEPT ![t] = <<p>>]
      /\ unsent' = unsent \ {p}
      /\ UNCHANGED <<history, queued, mailbox, hand, turnState, dropped>>
  BY DEF UserInputSpawns, SpawnTask, LoopReady, session, record
<1>2. input[t] = <<>>
  BY <1>1 DEF HInv, InputStarts, Unused, Procs
<1>3. <<p>> = Append(<<>>, p)
  OBVIOUS
<1> DEFINE a == InputOf(t)
<1>4. a \in AllPlaces /\ \A u \in Turns : InputOf(u) = a => u = t
  BY PlacesDiffer
<1>5. input'[t] = <<p>> /\ \A u \in Turns \ {t} : input'[u] = input[u]
  BY <1>1 DEF TInv, TypeOK
<1>6. Shelf'[a] = Append(Shelf[a], p)
  BY <1>2, <1>3, <1>5, ShelfAt, NextShelfAt
<1> HIDE DEF a
<1>7. \A q \in AllPlaces \ {a} : Shelf'[q] = Shelf[q]
  <2>1. {a} \in SUBSET AllPlaces
    BY <1>4
  <2>2. \A u \in Turns : InputOf(u) \notin {a} => input'[u] = input[u]
    BY <1>5 DEF a
  <2> QED BY <1>1, <2>1, <2>2, ShelfFrame
<1> QED BY <1>1, <1>4, <1>6, <1>7, Put DEF TInv

\* A turn started without a prompt.
LEMMA SpawnOtherShelf ==
    ASSUME TInv, HInv, UInv, NEW t \in Turns, NEW k \in OtherKinds, SpawnOther(t, k)
    PROVE  UInv'
<1>1. /\ pc[Loop] = "idle" /\ t \in Unused
      /\ input' = [input EXCEPT ![t] = <<>>]
      /\ UNCHANGED <<history, queued, mailbox, hand, turnState, dropped, unsent>>
  BY DEF SpawnOther, SpawnTask, LoopReady, session, record
<1>2. input[t] = <<>>
  BY <1>1 DEF HInv, InputStarts, Unused, Procs
<1>3. input' = input
  BY <1>1, <1>2 DEF TInv, TypeOK
<1> QED BY <1>1, <1>3, Kept

\* Mail is put into the mailbox.
LEMMA InterAgentShelf ==
    ASSUME TInv, UInv, NEW m \in Mail, InterAgentCommunication(m)
    PROVE  UInv'
<1>1. /\ m \in unsent /\ mailbox' = Append(mailbox, m) /\ unsent' = unsent \ {m}
      /\ UNCHANGED <<history, queued, hand, input, turnState, dropped>>
  BY DEF InterAgentCommunication, record, task, local
<1>2. Mailbox \in AllPlaces /\ {Mailbox} \in SUBSET AllPlaces
  BY PlacesDiffer
<1>3. Shelf'[Mailbox] = Append(Shelf[Mailbox], m)
  BY <1>1, ShelfAt, NextShelfAt
<1>4. \A q \in AllPlaces \ {Mailbox} : Shelf'[q] = Shelf[q]
  BY <1>1, <1>2, ShelfFrame
<1> QED BY <1>1, <1>2, <1>3, <1>4, Put DEF TInv

\* An approved denial is injected, or taken in hand by the idle loop.
LEMMA ApproveDeniedShelf ==
    ASSUME TInv, HInv, UInv, NEW g \in Grants, ApproveDenied(g)
    PROVE  UInv'
<1>1. /\ pc[Loop] = "idle" /\ g \in unsent
      /\ UNCHANGED <<history, queued, mailbox, input, dropped>>
  BY DEF ApproveDenied, LoopReady, record, task
<1>2. CASE Injected(g) /\ UNCHANGED hand
  BY <1>1, <1>2, InjectedShelf
<1>3. CASE /\ hand' = [hand EXCEPT ![Loop] = <<g>>]
           /\ unsent' = unsent \ {g}
           /\ UNCHANGED turnState
  <2> DEFINE a == HandOf(Loop)
  <2>1. a \in AllPlaces /\ Loop \in Procs /\ \A e \in Procs : HandOf(e) = a => e = Loop
    BY PlacesDiffer DEF Procs
  <2>2. hand[Loop] = <<>>
    BY <1>1, <2>1 DEF HInv, HandsFree
  <2>3. hand'[Loop] = Append(<<>>, g) /\ \A e \in Procs \ {Loop} : hand'[e] = hand[e]
    BY <1>3, <2>1 DEF TInv, TypeOK
  <2>4. Shelf'[a] = Append(Shelf[a], g)
    BY <2>1, <2>2, <2>3, ShelfAt, NextShelfAt
  <2> HIDE DEF a
  <2>5. \A q \in AllPlaces \ {a} : Shelf'[q] = Shelf[q]
    <3>1. {a} \in SUBSET AllPlaces
      BY <2>1
    <3>2. \A e \in Procs : HandOf(e) \notin {a} => hand'[e] = hand[e]
      BY <2>3 DEF a
    <3> QED BY <1>1, <1>3, <3>1, <3>2, ShelfFrame
  <2> QED BY <1>1, <1>3, <2>1, <2>4, <2>5, Put DEF TInv
<1> QED BY <1>2, <1>3 DEF ApproveDenied

\* Inputs move between the hand of a process and a place b of the session.
LEMMA PourFromHand ==
    ASSUME TypeOK, UInv, NEW d \in Procs, NEW b \in AllPlaces \ {HandOf(d)},
           hand' = [hand EXCEPT ![d] = <<>>],
           Shelf'[b] \in {Shelf[b] \o hand[d], hand[d] \o Shelf[b]},
           \A p \in AllPlaces \ {HandOf(d), b} : Shelf'[p] = Shelf[p],
           unsent' = unsent, dropped' = dropped
    PROVE  UInv'
<1>1. HandOf(d) \in AllPlaces /\ Shelf[HandOf(d)] = hand[d]
  BY ShelfAt, PlacesDiffer
<1>2. hand'[d] = <<>>
  BY DEF TypeOK
<1>3. Shelf'[HandOf(d)] = <<>>
  BY <1>2, NextShelfAt
<1> QED BY <1>1, <1>3, Pour

LEMMA PourIntoHand ==
    ASSUME TypeOK, UInv, NEW d \in Procs, NEW a \in AllPlaces \ {HandOf(d)},
           hand' = [hand EXCEPT ![d] = hand[d] \o Shelf[a]],
           Shelf'[a] = <<>>,
           \A p \in AllPlaces \ {HandOf(d), a} : Shelf'[p] = Shelf[p],
           unsent' = unsent, dropped' = dropped
    PROVE  UInv'
<1>1. HandOf(d) \in AllPlaces /\ Shelf[HandOf(d)] = hand[d]
  BY ShelfAt, PlacesDiffer
<1>2. hand'[d] = hand[d] \o Shelf[a]
  BY DEF TypeOK
<1>3. Shelf'[HandOf(d)] = Shelf[HandOf(d)] \o Shelf[a]
  BY <1>1, <1>2, NextShelfAt
<1> QED BY <1>1, <1>3, Pour

\* What the other hands hold.
LEMMA OtherHands ==
    ASSUME TypeOK, NEW d \in Procs, NEW x, hand' = [hand EXCEPT ![d] = x]
    PROVE  /\ HandOf(d) \in AllPlaces
           /\ \A A \in SUBSET AllPlaces : HandOf(d) \in A =>
                 \A e \in Procs : HandOf(e) \notin A => hand'[e] = hand[e]
<1>1. \A e \in Procs \ {d} : hand'[e] = hand[e]
  BY DEF TypeOK
<1> QED BY <1>1, PlacesDiffer

LEMMA EmptyConcat == ASSUME NEW s \in Seq(Inputs) PROVE <<>> \o s = s
OBVIOUS

\* queue_response_items_for_next_turn and take_queued_response_items_for_next_turn.
LEMMA QueueShelf == ASSUME TInv, UInv, QueueForNextTurn PROVE UInv'
<1>1. /\ queued' = queued \o hand[Loop]
      /\ hand' = [hand EXCEPT ![Loop] = <<>>]
      /\ UNCHANGED <<history, mailbox, input, turnState, unsent, dropped>>
  BY DEF QueueForNextTurn, record, task
<1> DEFINE A == {HandOf(Loop), Queue}
<1>2. Loop \in Procs /\ Queue \in AllPlaces \ {HandOf(Loop)}
  BY PlacesDiffer DEF Procs
<1>3. Shelf'[Queue] = Shelf[Queue] \o hand[Loop]
  BY <1>1, ShelfAt, NextShelfAt
<1>4. /\ A \in SUBSET AllPlaces
      /\ \A e \in Procs : HandOf(e) \notin A => hand'[e] = hand[e]
  BY <1>1, <1>2, OtherHands DEF TInv
<1>5. Queue \in A
  OBVIOUS
<1> HIDE DEF A
<1>6. \A p \in AllPlaces \ A : Shelf'[p] = Shelf[p]
  BY <1>1, <1>4, <1>5, ShelfFrame
<1> QED BY <1>1, <1>2, <1>3, <1>6, PourFromHand DEF TInv, A

LEMMA TakeQueuedShelf ==
    ASSUME TInv, HInv, UInv, NEW d \in Procs, TakeQueued(d) PROVE UInv'
<1>1. /\ pc[d] = "queued" /\ hand' = [hand EXCEPT ![d] = queued] /\ queued' = <<>>
      /\ UNCHANGED <<history, mailbox, input, turnState, unsent, dropped>>
  BY DEF TakeQueued, record, task
<1> DEFINE A == {HandOf(d), Queue}
<1>2. Queue \in AllPlaces \ {HandOf(d)}
  BY PlacesDiffer
<1>3. /\ Shelf'[Queue] = <<>> /\ Shelf[Queue] = queued
      /\ hand[d] = <<>> /\ hand[d] \o queued = queued
  <2>1. Shelf'[Queue] = <<>> /\ Shelf[Queue] = queued
    BY <1>1, ShelfAt, NextShelfAt
  <2>2. hand[d] = <<>>
    BY <1>1 DEF HInv, HandsFree
  <2> QED BY <2>1, <2>2, EmptyConcat DEF TInv, TypeOK
<1>4. /\ A \in SUBSET AllPlaces
      /\ \A e \in Procs : HandOf(e) \notin A => hand'[e] = hand[e]
  BY <1>1, <1>2, OtherHands DEF TInv
<1>5. Queue \in A
  OBVIOUS
<1> HIDE DEF A
<1>6. \A p \in AllPlaces \ A : Shelf'[p] = Shelf[p]
  BY <1>1, <1>4, <1>5, ShelfFrame
<1> QED BY <1>1, <1>2, <1>3, <1>6, PourIntoHand DEF TInv, A

\* The two locks of get_pending_input.
LEMMA DrainShelf ==
    ASSUME TInv, UInv, NEW d \in Procs, NEW from, NEW next, DrainMailbox(d, from, next)
    PROVE  UInv'
<1>1. /\ hand' = [hand EXCEPT ![d] = hand[d] \o mailbox] /\ mailbox' = <<>>
      /\ UNCHANGED <<history, queued, input, turnState, unsent, dropped>>
  BY DEF DrainMailbox, record, task
<1> DEFINE A == {HandOf(d), Mailbox}
<1>2. Mailbox \in AllPlaces \ {HandOf(d)}
  BY PlacesDiffer
<1>3. Shelf'[Mailbox] = <<>> /\ Shelf[Mailbox] = mailbox
  BY <1>1, ShelfAt, NextShelfAt
<1>4. /\ A \in SUBSET AllPlaces
      /\ \A e \in Procs : HandOf(e) \notin A => hand'[e] = hand[e]
  BY <1>1, <1>2, OtherHands DEF TInv
<1>5. Mailbox \in A
  OBVIOUS
<1> HIDE DEF A
<1>6. \A p \in AllPlaces \ A : Shelf'[p] = Shelf[p]
  BY <1>1, <1>4, <1>5, ShelfFrame
<1> QED BY <1>1, <1>2, <1>3, <1>6, PourIntoHand DEF TInv, A

\* Pending input of turn state s is taken into the hand of d.
LEMMA PendingIntoHand ==
    ASSUME TypeOK, UInv, NEW d \in Procs, NEW s \in DOMAIN turnState,
           hand' = [hand EXCEPT ![d] = hand[d] \o turnState[s].pending],
           SetsPending(turnState', turnState, s, <<>>),
           UNCHANGED <<history, queued, mailbox, input, unsent, dropped>>
    PROVE  UInv'
<1> DEFINE A == {HandOf(d), PendingIn(s)}
<1>1. /\ s \in Nat /\ PendingOf(turnState)[s] = turnState[s].pending
      /\ PendingOf(turnState')[s] = <<>>
      /\ \A j \in Nat \ {s} : PendingOf(turnState')[j] = PendingOf(turnState)[j]
  BY PendingSet DEF TypeOK
<1>2. PendingIn(s) \in AllPlaces \ {HandOf(d)}
  BY <1>1, PlacesDiffer
<1>3. Shelf'[PendingIn(s)] = <<>> /\ Shelf[PendingIn(s)] = turnState[s].pending
  BY <1>1, ShelfAt, NextShelfAt
<1>4. /\ A \in SUBSET AllPlaces
      /\ \A e \in Procs : HandOf(e) \notin A => hand'[e] = hand[e]
  BY <1>2, OtherHands
<1>5. \A i \in Nat : PendingIn(i) \notin A =>
         PendingOf(turnState')[i] = PendingOf(turnState)[i]
  BY <1>1
<1> HIDE DEF A
<1>6. \A p \in AllPlaces \ A : Shelf'[p] = Shelf[p]
  BY <1>4, <1>5, ShelfFrame
<1> QED BY <1>2, <1>3, <1>6, PourIntoHand DEF A

LEMMA TakePendingShelf ==
    ASSUME TInv, UInv, NEW d \in Procs, NEW from, NEW mail, NEW next,
           TakePending(d, from, mail, next)
    PROVE  UInv'
<1>1. UNCHANGED <<history, queued, mailbox, input, unsent, dropped>>
  BY DEF TakePending, record, task
<1>2. CASE active = NoTurn
  <2>1. hand' = hand /\ turnState' = turnState
    BY <1>2 DEF TakePending
  <2> QED BY <1>1, <2>1, Kept
<1>3. CASE active # NoTurn
  <2> DEFINE s == active.state
  <2>1. /\ hand' = [hand EXCEPT ![d] = hand[d] \o turnState[s].pending]
        /\ SetsPending(turnState', turnState, s, <<>>)
    BY <1>3 DEF TakePending, SetsPending
  <2>2. s \in DOMAIN turnState
    BY <1>3, ActiveShape DEF TInv
  <2> HIDE DEF s
  <2> QED BY <1>1, <2>1, <2>2, PendingIntoHand DEF TInv
<1> QED BY <1>2, <1>3

\* on_task_finished takes what is left into an empty hand.
LEMMA CollectShelf ==
    ASSUME TInv, HInv, UInv, NEW t \in Turns, CollectPending(t) PROVE UInv'
<1> DEFINE s == ref[t]
<1>1. /\ t \in Procs /\ pc[t] = "collect"
      /\ hand' = [hand EXCEPT ![t] = turnState[s].pending]
      /\ SetsPending(turnState', turnState, s, <<>>)
      /\ UNCHANGED <<history, queued, mailbox, input, unsent, dropped>>
  BY DEF CollectPending, SetsPending, record, task, Procs
<1>2. s \in DOMAIN turnState
  BY <1>1 DEF TInv, TypeOK, HoldsRef
<1> HIDE DEF s
<1>3. hand[t] = <<>> /\ turnState[s].pending \in Seq(Inputs)
  BY <1>1, <1>2, StateShape DEF HInv, HandsFree, TInv
<1>4. hand[t] \o turnState[s].pending = turnState[s].pending
  BY <1>3, EmptyConcat
<1> QED BY <1>1, <1>2, <1>4, PendingIntoHand DEF TInv

\* What start_task took becomes pending input of the turn state it attached to.
LEMMA PushShelf ==
    ASSUME TInv, UInv, NEW d \in Procs, PushPending(d) PROVE UInv'
<1> DEFINE s == ref[d]
           new == turnState[s].pending \o hand[d]
           A == {HandOf(d), PendingIn(s)}
<1>1. /\ pc[d] = "push" /\ hand' = [hand EXCEPT ![d] = <<>>]
      /\ SetsPending(turnState', turnState, s, new)
      /\ UNCHANGED <<history, queued, mailbox, input, unsent, dropped>>
  BY DEF PushPending, SetsPending, record, task
<1>2. s \in DOMAIN turnState
  BY <1>1 DEF TInv, TypeOK, HoldsRef
<1> HIDE DEF s, new
<1>3. /\ s \in Nat /\ PendingOf(turnState)[s] = turnState[s].pending
      /\ PendingOf(turnState')[s] = new
      /\ \A j \in Nat \ {s} : PendingOf(turnState')[j] = PendingOf(turnState)[j]
  BY <1>1, <1>2, PendingSet DEF TInv, TypeOK
<1>4. PendingIn(s) \in AllPlaces \ {HandOf(d)}
  BY <1>3, PlacesDiffer
<1>5. Shelf'[PendingIn(s)] = Shelf[PendingIn(s)] \o hand[d]
  BY <1>3, ShelfAt, NextShelfAt DEF new
<1>6. /\ A \in SUBSET AllPlaces
      /\ \A e \in Procs : HandOf(e) \notin A => hand'[e] = hand[e]
  BY <1>1, <1>4, OtherHands DEF TInv
<1>7. \A i \in Nat : PendingIn(i) \notin A =>
         PendingOf(turnState')[i] = PendingOf(turnState)[i]
  BY <1>3
<1> HIDE DEF A
<1>8. \A p \in AllPlaces \ A : Shelf'[p] = Shelf[p]
  BY <1>1, <1>6, <1>7, ShelfFrame
<1> QED BY <1>1, <1>4, <1>5, <1>8, PourFromHand DEF TInv, A

\* What the hook lets pass is recorded.
LEMMA AcceptShelf ==
    ASSUME TInv, UInv, NEW t \in Turns, AcceptPending(t) PROVE UInv'
<1>1. /\ t \in Procs
      /\ history' = history \o hand[t]
      /\ hand' = [hand EXCEPT ![t] = <<>>]
      /\ UNCHANGED <<queued, mailbox, input, turnState, unsent, dropped>>
  BY DEF AcceptPending, session, task, Procs
<1> DEFINE A == {HandOf(t), Recorded}
<1>2. Recorded \in AllPlaces \ {HandOf(t)}
  BY <1>1, PlacesDiffer
<1>3. Shelf'[Recorded] = Shelf[Recorded] \o hand[t]
  BY <1>1, ShelfAt, NextShelfAt
<1>4. /\ A \in SUBSET AllPlaces
      /\ \A e \in Procs : HandOf(e) \notin A => hand'[e] = hand[e]
  BY <1>1, <1>2, OtherHands DEF TInv
<1>5. Recorded \in A
  OBVIOUS
<1> HIDE DEF A
<1>6. \A p \in AllPlaces \ A : Shelf'[p] = Shelf[p]
  BY <1>1, <1>4, <1>5, ShelfFrame
<1> QED BY <1>1, <1>2, <1>3, <1>6, PourFromHand DEF TInv, A

\* The input a task was started with is recorded, or dropped on purpose.
LEMMA InputUsedShelf ==
    ASSUME TInv, UInv, NEW t \in Turns, EnterTurn(t) \/ EnterFails(t) \/ FlushRollout(t)
    PROVE  UInv'
<1> DEFINE a == InputOf(t)
           A == {a, Recorded}
<1>1. /\ input' = [input EXCEPT ![t] = <<>>]
      /\ UNCHANGED <<queued, mailbox, hand, turnState, unsent>>
  BY DEF EnterTurn, EnterFails, FlushRollout, session, local
<1>2. input'[t] = <<>> /\ \A u \in Turns \ {t} : input'[u] = input[u]
  BY <1>1 DEF TInv, TypeOK
<1>3. a \in AllPlaces /\ Recorded \in AllPlaces /\ a # Recorded
  BY PlacesDiffer
<1>4. Shelf'[a] = <<>> /\ Shelf[a] = input[t]
  BY <1>2, ShelfAt, NextShelfAt
<1>5. \A u \in Turns : InputOf(u) # a => input'[u] = input[u]
  BY <1>2
<1> HIDE DEF a
<1>6. CASE EnterTurn(t)
  <2>1. history' = history \o input[t] /\ dropped' = dropped
    BY <1>6 DEF EnterTurn
  <2>2. Shelf'[Recorded] = Shelf[Recorded] \o Shelf[a]
    BY <1>4, <2>1, ShelfAt, NextShelfAt
  <2>3. /\ A \in SUBSET AllPlaces /\ Recorded \in A
        /\ \A u \in Turns : InputOf(u) \notin A => input'[u] = input[u]
    BY <1>3, <1>5
  <2> HIDE DEF A
  <2>4. \A p \in AllPlaces \ A : Shelf'[p] = Shelf[p]
    BY <1>1, <2>3, ShelfFrame
  <2> QED BY <1>1, <1>3, <1>4, <2>1, <2>2, <2>4, Pour DEF TInv, A
<1>7. CASE EnterFails(t) \/ FlushRollout(t)
  <2>1. history' = history /\ dropped' = dropped \union Range(input[t])
    BY <1>7 DEF EnterFails, FlushRollout, record
  <2> DEFINE B == {a}
  <2>2. /\ B \in SUBSET AllPlaces
        /\ \A u \in Turns : InputOf(u) \notin B => input'[u] = input[u]
        /\ \A p \in B : Shelf'[p] = <<>> /\ Range(Shelf[p]) \subseteq dropped'
    BY <1>3, <1>4, <1>5, <2>1
  <2> HIDE DEF B
  <2>3. \A p \in AllPlaces \ B : Shelf'[p] = Shelf[p]
    BY <1>1, <2>1, <2>2, ShelfFrame
  <2> QED BY <1>1, <2>1, <2>2, <2>3, Emptied
<1> QED BY <1>6, <1>7

\* An aborted task drops what it holds.
LEMMA DropTaskShelf ==
    ASSUME TInv, UInv, NEW t \in Turns, DropTask(t) PROVE UInv'
<1> DEFINE A == {HandOf(t), InputOf(t)}
<1>1. /\ dropped' = dropped \union Range(hand[t]) \union Range(input[t])
      /\ hand' = [hand EXCEPT ![t] = <<>>] /\ input' = [input EXCEPT ![t] = <<>>]
      /\ UNCHANGED <<history, queued, mailbox, turnState, unsent>>
  BY DEF DropTask, session, record
<1>2. t \in Procs
  BY DEF Procs
<1>3. /\ hand'[t] = <<>> /\ \A e \in Procs \ {t} : hand'[e] = hand[e]
      /\ input'[t] = <<>> /\ \A u \in Turns \ {t} : input'[u] = input[u]
  BY <1>1, <1>2 DEF TInv, TypeOK
<1>4. /\ HandOf(t) \in AllPlaces /\ InputOf(t) \in AllPlaces
      /\ Shelf'[HandOf(t)] = <<>> /\ Shelf[HandOf(t)] = hand[t]
      /\ Shelf'[InputOf(t)] = <<>> /\ Shelf[InputOf(t)] = input[t]
  BY <1>2, <1>3, ShelfAt, NextShelfAt, PlacesDiffer
<1>5. /\ A \in SUBSET AllPlaces
      /\ \A p \in A : Shelf'[p] = <<>> /\ Range(Shelf[p]) \subseteq dropped'
  BY <1>1, <1>4
<1>6. /\ \A e \in Procs : HandOf(e) \notin A => hand'[e] = hand[e]
      /\ \A u \in Turns : InputOf(u) \notin A => input'[u] = input[u]
  BY <1>3
<1> HIDE DEF A
<1>7. \A p \in AllPlaces \ A : Shelf'[p] = Shelf[p]
  BY <1>1, <1>5, <1>6, ShelfFrame
<1>8. dropped \subseteq dropped'
  BY <1>1
<1> QED BY <1>1, <1>5, <1>7, <1>8, Emptied

\* clear_pending empties one turn state,
LEMMA ClearedPending ==
    ASSUME TInv, NEW d \in Procs, ClearPending(d)
    PROVE  /\ ref[d] \in DOMAIN turnState /\ ref[d] \in Nat
           /\ PendingOf(turnState)[ref[d]] = turnState[ref[d]].pending
           /\ PendingOf(turnState')[ref[d]] = <<>>
           /\ \A j \in Nat \ {ref[d]} : PendingOf(turnState')[j] = PendingOf(turnState)[j]
<1> DEFINE s == ref[d]
           ts == [turnState EXCEPT ![s].pending = <<>>]
<1>1. /\ pc[d] = "clear"
      /\ turnState' = [turnState EXCEPT ![s].pending = <<>>, ![s].approvals = {}]
  BY DEF ClearPending
<1>2. s \in DOMAIN turnState /\ turnState \in Seq(TurnStates)
  BY <1>1 DEF TInv, TypeOK, HoldsRef
<1>3. ts \in Seq(TurnStates) /\ DOMAIN ts = DOMAIN turnState
  BY <1>2, NoInput, SetPending
<1>4. SetsOther(turnState', ts, s, {})
  <2>1. turnState' = [ts EXCEPT ![s].approvals = {}]
    BY <1>1, <1>2
  <2> QED BY <2>1 DEF SetsOther
<1>5. SetsPending(ts, turnState, s, <<>>)
  BY DEF SetsPending
<1> HIDE DEF s, ts
<1>6. PendingOf(turnState') = PendingOf(ts)
  BY <1>2, <1>3, <1>4, PendingKept
<1>7. /\ s \in DOMAIN turnState /\ s \in Nat
      /\ PendingOf(turnState)[s] = turnState[s].pending
      /\ PendingOf(turnState')[s] = <<>>
      /\ \A j \in Nat \ {s} : PendingOf(turnState')[j] = PendingOf(turnState)[j]
  BY <1>2, <1>5, <1>6, PendingSet
<1> QED BY <1>7 DEF s

\* and what was pending in it, in the aborted turn, is dropped.
LEMMA ClearPendingShelf ==
    ASSUME TInv, UInv, NEW d \in Procs, ClearPending(d) PROVE UInv'
<1> DEFINE s == ref[d]
           a == PendingIn(s)
           A == {a}
<1>1. /\ dropped' = dropped \union Range(turnState[s].pending)
      /\ UNCHANGED <<history, queued, mailbox, hand, input, unsent>>
  BY DEF ClearPending, record, task
<1>2. /\ s \in Nat /\ PendingOf(turnState)[s] = turnState[s].pending
      /\ PendingOf(turnState')[s] = <<>>
      /\ \A j \in Nat \ {s} : PendingOf(turnState')[j] = PendingOf(turnState)[j]
  BY ClearedPending
<1> HIDE DEF s
<1>3. a \in AllPlaces /\ Shelf'[a] = <<>> /\ Shelf[a] = turnState[s].pending
  BY <1>2, ShelfAt, NextShelfAt, PlacesDiffer
<1>4. /\ A \in SUBSET AllPlaces
      /\ \A p \in A : Shelf'[p] = <<>> /\ Range(Shelf[p]) \subseteq dropped'
      /\ dropped \subseteq dropped'
  BY <1>1, <1>3
<1>5. \A i \in Nat : PendingIn(i) \notin A =>
         PendingOf(turnState')[i] = PendingOf(turnState)[i]
  BY <1>2
<1> HIDE DEF A
<1>6. \A p \in AllPlaces \ A : Shelf'[p] = Shelf[p]
  BY <1>1, <1>4, <1>5, ShelfFrame
<1> QED BY <1>1, <1>4, <1>6, Emptied

\* What is in hand is split at the item the hook blocks.
Splits(h, i, b, a) == b = SubSeq(h, 1, i - 1) /\ a = SubSeq(h, i + 1, Len(h))
LEMMA SplitAt ==
    ASSUME NEW h \in Seq(Inputs), Distinct(h), NEW i \in DOMAIN h,
           NEW b, NEW a, Splits(h, i, b, a)
    PROVE  /\ b \in Seq(Inputs) /\ a \in Seq(Inputs) /\ Distinct(b) /\ Distinct(a)
           /\ Range(b) \intersect Range(a) = {} /\ h[i] \notin Range(a)
           /\ Range(b) \subseteq Range(h) /\ Range(a) \subseteq Range(h)
           /\ Range(h) \subseteq Range(b) \union {h[i]} \union Range(a)
<1>1. DOMAIN h = 1 .. Len(h) /\ Len(h) \in Nat /\ i \in 1 .. Len(h)
  OBVIOUS
<1>2. /\ 1 \in Nat \ {0} /\ i - 1 \in Nat /\ i - 1 <= Len(h)
      /\ i + 1 \in Nat \ {0} /\ Len(h) <= Len(h)
  BY <1>1
<1>3. b \in Seq(Inputs) /\ Distinct(b) /\ Range(b) = {h[k] : k \in 1 .. i - 1}
  BY <1>2, RangeSub DEF Splits
<1>4. a \in Seq(Inputs) /\ Distinct(a) /\ Range(a) = {h[k] : k \in i + 1 .. Len(h)}
  BY <1>1, <1>2, RangeSub DEF Splits
<1>5. Range(b) \intersect Range(a) = {}
  <2> SUFFICES ASSUME NEW j \in 1 .. i - 1, NEW k \in i + 1 .. Len(h), h[j] = h[k]
               PROVE  FALSE
    BY <1>3, <1>4
  <2>1. j \in DOMAIN h /\ k \in DOMAIN h /\ j # k
    BY <1>1
  <2> QED BY <2>1 DEF Distinct
<1>6. Range(b) \subseteq Range(h) /\ Range(a) \subseteq Range(h)
  <2>1. \A k \in DOMAIN h : h[k] \in Range(h)
    BY DEF Range
  <2>2. 1 .. i - 1 \subseteq DOMAIN h /\ i + 1 .. Len(h) \subseteq DOMAIN h
    BY <1>1
  <2> QED BY <1>3, <1>4, <2>1, <2>2
<1>7. Range(h) \subseteq Range(b) \union {h[i]} \union Range(a)
  <2> SUFFICES ASSUME NEW k \in DOMAIN h PROVE h[k] \in Range(b) \union {h[i]} \union Range(a)
    BY DEF Range
  <2>1. k \in 1 .. i - 1 \/ k = i \/ k \in i + 1 .. Len(h)
    BY <1>1
  <2> QED BY <1>3, <1>4, <2>1
<1>8. h[i] \notin Range(a)
  <2> SUFFICES ASSUME NEW k \in i + 1 .. Len(h), h[i] = h[k] PROVE FALSE
    BY <1>4
  <2>1. k \in DOMAIN h /\ i # k
    BY <1>1
  <2> QED BY <2>1 DEF Distinct
<1> QED BY <1>3, <1>4, <1>5, <1>6, <1>7, <1>8

\* The hook blocks item i: the rest is recorded, put back or dropped.
LEMMA BlockShelf ==
    ASSUME TInv, UInv, NEW t \in Turns, NEW i \in DOMAIN hand[t], BlockPending(t, i)
    PROVE  UInv'
<1> DEFINE h == hand[t]
           b == SubSeq(hand[t], 1, i - 1)
           a == SubSeq(hand[t], i + 1, Len(hand[t]))
           H == HandOf(t)
<1>1. /\ t \in Procs /\ history' = history \o b
      /\ hand' = [hand EXCEPT ![t] = <<>>]
      /\ UNCHANGED <<queued, mailbox, input, unsent>>
  BY DEF BlockPending, task, Procs
<1>2. /\ h \in Seq(Inputs) /\ history \in Seq(Inputs)
      /\ H \in AllPlaces /\ Recorded \in AllPlaces /\ H # Recorded
      /\ Shelf[H] = h /\ Shelf[Recorded] = history
  BY <1>1, ShelfAt, PlacesDiffer DEF TInv, TypeOK
<1>3. /\ hand'[t] = <<>> /\ \A e \in Procs \ {t} : hand'[e] = hand[e]
  BY <1>1 DEF TInv, TypeOK
<1>4. Shelf'[H] = <<>> /\ Shelf'[Recorded] = history \o b
  BY <1>1, <1>3, NextShelfAt
<1>5. /\ Distinct(h) /\ Distinct(history) /\ Range(history) \intersect Range(h) = {}
  BY <1>2 DEF UInv, Unique
<1>6. /\ b \in Seq(Inputs) /\ a \in Seq(Inputs) /\ Distinct(b) /\ Distinct(a)
      /\ Range(b) \intersect Range(a) = {}
      /\ Range(b) \subseteq Range(h) /\ Range(a) \subseteq Range(h)
      /\ Range(h) \subseteq Range(b) \union {h[i]} \union Range(a)
  <2>1. i \in DOMAIN h /\ Splits(h, i, b, a)
    BY DEF Splits
  <2> HIDE DEF h, b, a
  <2> QED BY <1>2, <1>5, <2>1, SplitAt
<1>7. \A e \in Procs : HandOf(e) # H => hand'[e] = hand[e]
  BY <1>3
<1>8. \/ active = NoTurn /\ turnState' = turnState
         /\ dropped' = dropped \union {h[i]} \union Range(a)
      \/ active # NoTurn /\ dropped' = dropped \union {h[i]}
         /\ SetsPending(turnState', turnState, active.state,
                        a \o turnState[active.state].pending)
  BY DEF BlockPending, SetsPending
<1> HIDE DEF h, b, a, H
<1>9. Range(history \o b) = Range(history) \union Range(b) /\ Distinct(history \o b)
  <2>1. Range(history) \intersect Range(b) = {}
    BY <1>5, <1>6
  <2> QED BY <1>2, <1>5, <1>6, <2>1, RangeConcat
<1>10. dropped \subseteq dropped' /\ unsent' \subseteq unsent
  BY <1>1, <1>8
<1>11. CASE turnState' = turnState /\ dropped' = dropped \union {h[i]} \union Range(a)
  <2> DEFINE A == {H, Recorded}
             g == Shelf'
  <2>1. /\ A \in SUBSET AllPlaces /\ Recorded \in A
        /\ \A e \in Procs : HandOf(e) \notin A => hand'[e] = hand[e]
    BY <1>2, <1>7
  <2> HIDE DEF A
  <2>2. \A p \in AllPlaces \ A : g[p] = Shelf[p]
    BY <1>1, <1>11, <2>1, ShelfFrame
  <2>3. Range(g[H]) = {} /\ Distinct(g[H])
    BY <1>4, RangeEmpty
  <2>4. Range(g[Recorded]) = Range(history) \union Range(b) /\ Distinct(g[Recorded])
    BY <1>4, <1>9
  <2> HIDE DEF g
  <2>5. Rearranges(A, Shelf, g, unsent, unsent', dropped')
    <3>1. \A p \in A : Distinct(g[p])
      BY <2>3, <2>4 DEF A
    <3>2. \A p, q \in A : \A x \in Range(g[p]) \intersect Range(g[q]) : p = q
      BY <2>3 DEF A
    <3>3. \A p \in A : \A x \in Range(g[p]) : \E q \in A : x \in Range(Shelf[q])
      BY <1>2, <1>6, <2>3, <2>4 DEF A
    <3>4. \A p \in A : \A x \in Range(Shelf[p]) :
             x \in dropped' \/ \E q \in A : x \in Range(g[q])
      BY <1>2, <1>6, <1>11, <2>4 DEF A
    <3> QED BY <1>1, <2>2, <3>1, <3>2, <3>3, <3>4 DEF Rearranges
  <2>6. Unique(g) /\ Sent(g, unsent') /\ Found(g, unsent', dropped')
    BY <1>10, <2>1, <2>5, Rearranged DEF UInv
  <2> QED BY <2>6 DEF UInv, g
<1>12. CASE /\ active # NoTurn /\ dropped' = dropped \union {h[i]}
            /\ SetsPending(turnState', turnState, active.state,
                           a \o turnState[active.state].pending)
  <2> DEFINE s == active.state
             Q == PendingIn(s)
             w == turnState[s].pending
             new == a \o w
             A == {H, Recorded, Q}
             g == Shelf'
  <2>1. /\ s \in DOMAIN turnState /\ turnState \in Seq(TurnStates)
        /\ w \in Seq(Inputs) /\ SetsPending(turnState', turnState, s, new)
    BY <1>12, ActiveShape, StateShape DEF TInv, TypeOK
  <2> HIDE DEF s, new
  <2>2. /\ s \in Nat /\ PendingOf(turnState)[s] = w
        /\ PendingOf(turnState')[s] = new
        /\ \A j \in Nat \ {s} : PendingOf(turnState')[j] = PendingOf(turnState)[j]
    BY <2>1, PendingSet
  <2> HIDE DEF w
  <2>3. /\ Q \in AllPlaces /\ Q # Recorded /\ Q # H
        /\ Shelf[Q] = w /\ Shelf'[Q] = new
    BY <1>1, <2>2, ShelfAt, NextShelfAt, PlacesDiffer DEF H
  <2>4. /\ A \in SUBSET AllPlaces /\ Recorded \in A
        /\ \A e \in Procs : HandOf(e) \notin A => hand'[e] = hand[e]
        /\ \A j \in Nat : PendingIn(j) \notin A =>
              PendingOf(turnState')[j] = PendingOf(turnState)[j]
    BY <1>2, <1>7, <2>2, <2>3
  <2> HIDE DEF A, Q
  <2>5. \A p \in AllPlaces \ A : g[p] = Shelf[p]
    BY <1>1, <2>4, ShelfFrame
  <2>6. /\ Distinct(w) /\ Range(w) \intersect Range(h) = {}
        /\ Range(w) \intersect Range(history) = {}
    BY <1>2, <2>3 DEF UInv, Unique
  <2>7. Range(new) = Range(a) \union Range(w) /\ Distinct(new)
    <3>1. Range(a) \intersect Range(w) = {}
      BY <1>6, <2>6
    <3> QED BY <1>6, <2>1, <2>6, <3>1, RangeConcat DEF new
  <2>8. /\ Range(g[H]) = {} /\ Distinct(g[H])
        /\ Range(g[Recorded]) = Range(history) \union Range(b) /\ Distinct(g[Recorded])
        /\ Range(g[Q]) = Range(a) \union Range(w) /\ Distinct(g[Q])
    BY <1>4, <1>9, <2>3, <2>7, RangeEmpty
  <2>9. Range(g[Recorded]) \intersect Range(g[Q]) = {}
    BY <1>5, <1>6, <2>6, <2>8
  <2> HIDE DEF g
  <2>10. Rearranges(A, Shelf, g, unsent, unsent', dropped')
    <3>1. \A p \in A : Distinct(g[p])
      BY <2>8 DEF A
    <3>2. \A p, q \in A : \A x \in Range(g[p]) \intersect Range(g[q]) : p = q
      BY <2>8, <2>9 DEF A
    <3>3. \A p \in A : \A x \in Range(g[p]) : \E q \in A : x \in Range(Shelf[q])
      BY <1>2, <1>6, <2>3, <2>8 DEF A
    <3>4. \A p \in A : \A x \in Range(Shelf[p]) :
             x \in dropped' \/ \E q \in A : x \in Range(g[q])
      BY <1>2, <1>6, <1>12, <2>3, <2>8 DEF A
    <3> QED BY <1>1, <2>5, <3>1, <3>2, <3>3, <3>4 DEF Rearranges
  <2>11. Unique(g) /\ Sent(g, unsent') /\ Found(g, unsent', dropped')
    BY <1>10, <2>4, <2>10, Rearranged DEF UInv
  <2> QED BY <2>11 DEF UInv, g
<1> QED BY <1>8, <1>11, <1>12

\* The next item collected by on_task_finished is recorded or blocked.
LEMMA RecordLateShelf ==
    ASSUME TInv, UInv, NEW t \in Turns, RecordLate(t) PROVE UInv'
<1> DEFINE h == hand[t]
           x == Head(h)
           a == SubSeq(h, 2, Len(h))
           H == HandOf(t)
           A == {H, Recorded}
           g == Shelf'
<1>1. /\ t \in Procs /\ h # <<>>
      /\ \/ history' = Append(history, x) /\ dropped' = dropped
         \/ history' = history /\ dropped' = dropped \union {x}
      /\ hand' = [hand EXCEPT ![t] = Tail(h)]
      /\ UNCHANGED <<queued, mailbox, input, turnState, unsent>>
  BY DEF RecordLate, session, task, Procs
<1>2. /\ h \in Seq(Inputs) /\ history \in Seq(Inputs)
      /\ H \in AllPlaces /\ Recorded \in AllPlaces /\ H # Recorded
      /\ Shelf[H] = h /\ Shelf[Recorded] = history
  BY <1>1, ShelfAt, PlacesDiffer DEF TInv, TypeOK
<1>3. /\ 1 \in DOMAIN h /\ x = h[1] /\ x \in Inputs /\ Tail(h) = a
      /\ Len(h) \in Nat /\ DOMAIN h = 1 .. Len(h)
  BY <1>1, <1>2
<1>4. /\ Distinct(h) /\ Distinct(history) /\ Range(history) \intersect Range(h) = {}
  BY <1>2 DEF UInv, Unique
<1>5. /\ hand'[t] = a /\ \A e \in Procs \ {t} : hand'[e] = hand[e]
  BY <1>1, <1>3 DEF TInv, TypeOK
<1>6. g[H] = a /\ g[Recorded] = history'
  BY <1>1, <1>5, NextShelfAt
<1>7. Splits(h, 1, <<>>, a)
  BY <1>2, <1>3 DEF Splits
<1> HIDE DEF h, a
<1>8. /\ Distinct(a) /\ x \notin Range(a) /\ x \in Range(h) /\ Range(a) \subseteq Range(h)
      /\ Range(h) \subseteq Range(a) \union {x}
  <2>1. /\ Distinct(a) /\ h[1] \notin Range(a) /\ Range(a) \subseteq Range(h)
        /\ Range(h) \subseteq Range(<<>>) \union {h[1]} \union Range(a)
    BY <1>2, <1>3, <1>4, <1>7, SplitAt
  <2>2. h[1] \in Range(h)
    BY <1>3 DEF Range
  <2> QED BY <1>3, <2>1, <2>2, RangeEmpty
<1>9. /\ Distinct(history')
      /\ Range(history') = Range(history) \/ Range(history') = Range(history) \union {x}
      /\ x \in dropped' \/ x \in Range(history')
      /\ dropped \subseteq dropped'
  <2>1. x \notin Range(history)
    BY <1>4, <1>8
  <2> HIDE DEF x
  <2>2. CASE history' = Append(history, x) /\ dropped' = dropped
    BY <1>2, <1>3, <1>4, <2>1, <2>2, RangeAppend
  <2>3. CASE history' = history /\ dropped' = dropped \union {x}
    BY <1>4, <2>3
  <2> QED BY <1>1, <2>2, <2>3
<1>10. /\ A \in SUBSET AllPlaces /\ Recorded \in A
       /\ \A e \in Procs : HandOf(e) \notin A => hand'[e] = hand[e]
  BY <1>2, <1>5
<1> HIDE DEF A, g, H, x
<1>11. \A p \in AllPlaces \ A : g[p] = Shelf[p]
  BY <1>1, <1>10, ShelfFrame DEF g
<1>12. Rearranges(A, Shelf, g, unsent, unsent', dropped')
  <2>1. \A p \in A : Distinct(g[p])
    BY <1>6, <1>8, <1>9 DEF A
  <2>2. Range(g[H]) \intersect Range(g[Recorded]) = {}
    BY <1>4, <1>6, <1>8, <1>9
  <2>3. \A p, q \in A : \A y \in Range(g[p]) \intersect Range(g[q]) : p = q
    BY <2>2 DEF A
  <2>4. \A p \in A : \A y \in Range(g[p]) : \E q \in A : y \in Range(Shelf[q])
    BY <1>2, <1>6, <1>8, <1>9 DEF A
  <2>5. \A p \in A : \A y \in Range(Shelf[p]) :
           y \in dropped' \/ \E q \in A : y \in Range(g[q])
    BY <1>2, <1>6, <1>8, <1>9 DEF A
  <2> QED BY <1>1, <1>11, <2>1, <2>3, <2>4, <2>5 DEF Rearranges
<1>13. unsent' \subseteq unsent
  BY <1>1
<1>14. Unique(g) /\ Sent(g, unsent') /\ Found(g, unsent', dropped')
  BY <1>9, <1>10, <1>12, <1>13, Rearranged DEF UInv
<1> QED BY <1>14 DEF UInv, g

-----------------------------------------------------------------------------
(* Nothing is overwritten *)

\* The steps at which a process may have inputs in hand.
HandSteps == {"queue", "pending", "mailbox", "attach", "push", "mail", "inspect",
              "complete"}

\* A step of one process that sets out to start nothing.
LEMMA MoveHeld ==
    ASSUME TInv, HInv, NEW d \in Procs, NEW s, s # "none", pc' = [pc EXCEPT ![d] = s],
           \A e \in Procs \ {d} : hand'[e] = hand[e],
           hand'[d] = <<>> \/ s \in HandSteps,
           starting'[Loop] = starting[Loop],
           d = Loop /\ starting[Loop] # NoTurn => s \in AbortSteps \union StartSteps,
           \A t \in Turns : input'[t] = input[t] \/ input'[t] = <<>>
    PROVE  HInv'
<1>1. /\ pc'[d] = s /\ \A e \in Procs \ {d} : pc'[e] = pc[e]
      /\ Loop \in Procs /\ Turns \subseteq Procs
  BY DEF TInv, TypeOK, Procs
<1>2. HandsFree'
  BY <1>1 DEF HInv, HandsFree, HandSteps
<1>3. LoopStarts'
  BY <1>1 DEF HInv, LoopStarts
<1>4. InputStarts'
  BY <1>1 DEF HInv, InputStarts
<1> QED BY <1>2, <1>3, <1>4 DEF HInv

\* The same when the process has nothing in hand and touches no input.
LEMMA IdleMoveHeld ==
    ASSUME TInv, HInv, NEW d \in Procs, NEW s, s # "none", pc' = [pc EXCEPT ![d] = s],
           pc[d] \notin HandSteps \/ s \in HandSteps,
           hand' = hand, starting' = starting, input' = input,
           d = Loop /\ starting[Loop] # NoTurn => s \in AbortSteps \union StartSteps
    PROVE  HInv'
<1>1. hand'[d] = <<>> \/ s \in HandSteps
  BY DEF HInv, HandsFree, HandSteps
<1> QED BY <1>1, MoveHeld

\* A step that moves nobody.
LEMMA StillHeld ==
    ASSUME HInv, pc' = pc, hand' = hand, starting' = starting, input' = input
    PROVE  HInv'
BY DEF HInv, HandsFree, LoopStarts, InputStarts

\* The operations of the loop and the calls from other threads.
LEMMA CallsHeld == ASSUME TInv, HInv, LoopStep \/ ClientStep PROVE HInv'
<1>0. /\ Loop \in Procs /\ Loop \notin Turns /\ Turns \subseteq Procs
      /\ Guardians \subseteq Procs /\ Loop \notin Guardians
  BY ProcsAssumption DEF Procs
<1>1. ASSUME NEW p \in Prompts, UserInputSteers(p) \/ Steer(p) PROVE HInv'
  BY <1>1, StillHeld DEF UserInputSteers, Steer, task, local
<1>2. ASSUME NEW n \in Notes, Inject(n) PROVE HInv'
  BY <1>2, StillHeld DEF Inject, task, local
<1>3. ASSUME NEW t \in Turns, NEW k, NEW in, LoopReady, SpawnTask(t, k, in), hand' = hand
      PROVE  HInv'
  <2>1. /\ pc[Loop] = "idle" /\ t \in Unused
        /\ pc' = [pc EXCEPT ![Loop] = "take"]
        /\ starting' = [starting EXCEPT ![Loop] = t]
        /\ input' = [input EXCEPT ![t] = in]
    BY <1>3 DEF LoopReady, SpawnTask, Goto
  <2>2. /\ pc'[Loop] = "take" /\ \A e \in Procs \ {Loop} : pc'[e] = pc[e]
        /\ starting'[Loop] = t /\ \A u \in Turns \ {t} : input'[u] = input[u]
    BY <1>0, <2>1 DEF TInv, TypeOK
  <2>3. starting[Loop] = NoTurn
    BY <2>1 DEF HInv, LoopStarts, AbortSteps, StartSteps
  <2>4. \A u \in Turns : pc[u] = "none" => input[u] = <<>>
    BY <2>3, ProcsAssumption DEF HInv, InputStarts
  <2>5. HandsFree'
    BY <1>3, <2>1, <2>2 DEF HInv, HandsFree
  <2>6. LoopStarts'
    BY <2>2 DEF LoopStarts, AbortSteps
  <2>7. InputStarts'
    BY <1>0, <2>2, <2>4 DEF InputStarts
  <2> QED BY <2>5, <2>6, <2>7 DEF HInv
<1>4. ASSUME NEW p \in Prompts, NEW t \in Turns, UserInputSpawns(p, t) PROVE HInv'
  BY <1>3, <1>4 DEF UserInputSpawns
<1>5. ASSUME NEW t \in Turns, NEW k \in OtherKinds, SpawnOther(t, k) PROVE HInv'
  BY <1>3, <1>5 DEF SpawnOther
<1>6. ASSUME NEW op \in Stops, Interrupt(op) PROVE HInv'
  <2>1. /\ pc[Loop] = "idle" /\ pc' = [pc EXCEPT ![Loop] = "take"]
        /\ UNCHANGED <<hand, starting, input>>
    BY <1>6 DEF Interrupt, LoopReady, Goto, task
  <2> QED BY <1>0, <2>1, IdleMoveHeld DEF HandSteps, AbortSteps
<1>7. ASSUME NEW m \in Mail, InterAgentCommunication(m) PROVE HInv'
  <2>1. /\ pc[Loop] = "idle"
        /\ \E s \in {"maybe", "idle"} : pc' = [pc EXCEPT ![Loop] = s]
        /\ UNCHANGED <<hand, starting, input>>
    BY <1>7 DEF InterAgentCommunication, LoopReady, Goto, task, local
  <2>2. starting[Loop] = NoTurn
    BY <2>1 DEF HInv, LoopStarts, AbortSteps, StartSteps
  <2> QED BY <1>0, <2>1, <2>2, IdleMoveHeld DEF HandSteps
<1>8. ASSUME NEW g \in Grants, ApproveDenied(g) PROVE HInv'
  <2>1. /\ pc[Loop] = "idle" /\ UNCHANGED <<starting, input>>
        /\ \/ hand' = hand /\ pc' = pc
           \/ /\ hand' = [hand EXCEPT ![Loop] = <<g>>]
              /\ pc' = [pc EXCEPT ![Loop] = "queue"]
    BY <1>8 DEF ApproveDenied, LoopReady, Goto, task
  <2>2. CASE hand' = hand /\ pc' = pc
    BY <2>1, <2>2, StillHeld
  <2>3. CASE /\ hand' = [hand EXCEPT ![Loop] = <<g>>]
             /\ pc' = [pc EXCEPT ![Loop] = "queue"]
    <3>1. starting[Loop] = NoTurn
      BY <2>1 DEF HInv, LoopStarts, AbortSteps, StartSteps
    <3>2. \A e \in Procs \ {Loop} : hand'[e] = hand[e]
      BY <2>3 DEF TInv, TypeOK
    <3>3. "queue" \in HandSteps
      BY DEF HandSteps
    <3> QED BY <1>0, <2>1, <2>3, <3>1, <3>2, <3>3, MoveHeld
  <2> QED BY <2>1, <2>2, <2>3
<1>9. ASSUME NEW t \in Turns, NotifyApproval(t) PROVE HInv'
  <2>1. UNCHANGED <<hand, starting, input>>
    BY <1>9 DEF NotifyApproval, task, local
  <2>2. \/ pc' = pc
        \/ (pc[t] = "approval" /\ pc' = [pc EXCEPT ![t] = "sample"])
    BY <1>9 DEF NotifyApproval, Goto
  <2> QED BY <1>0, <2>1, <2>2, StillHeld, IdleMoveHeld DEF HandSteps
<1>10. ASSUME NEW d \in Guardians, NEW t \in Turns, GuardianTake(d, t) PROVE HInv'
  <2>1. /\ pc[d] = "idle" /\ pc' = [pc EXCEPT ![d] = "cancel"]
        /\ UNCHANGED <<hand, starting, input>>
    BY <1>10 DEF GuardianTake, Goto, task
  <2> QED BY <1>0, <2>1, IdleMoveHeld DEF HandSteps
<1> QED BY <1>1, <1>2, <1>4, <1>5, <1>6, <1>7, <1>8, <1>9, <1>10 DEF LoopStep, ClientStep

\* An abort.
LEMMA AbortHeld ==
    ASSUME TInv, HInv, NEW d \in Procs \ Turns, AbortStep(d) PROVE HInv'
<1>1. CASE CancelTask(d) \/ StopTask(d) \/ MarkInterrupted(d) \/ ReportAborted(d)
  <2>1. /\ pc[d] \in {"cancel", "wait", "mark", "report"}
        /\ \E s \in {"clear", "cancel", "wait", "mark", "report"} :
              pc' = [pc EXCEPT ![d] = s]
        /\ UNCHANGED <<hand, starting, input>>
    BY <1>1 DEF CancelTask, StopTask, MarkInterrupted, ReportAborted, Goto, task, local
  <2> QED BY <2>1, IdleMoveHeld DEF HandSteps, AbortSteps
<1>2. CASE ClearPending(d)
  <2>1. /\ pc[d] = "clear" /\ UNCHANGED <<hand, starting, input>>
        /\ pc' = [pc EXCEPT ![d] = AfterAbort(d, TRUE)]
    BY <1>2 DEF ClearPending, Goto, task
  <2>2. /\ AfterAbort(d, TRUE) # "none"
        /\ starting[d] # NoTurn => AfterAbort(d, TRUE) = "queued"
    BY DEF AfterAbort, Idle
  <2>3. d = Loop /\ starting[Loop] # NoTurn
           => AfterAbort(d, TRUE) \in AbortSteps \union StartSteps
    BY <2>2 DEF StartSteps
  <2>4. pc[d] \notin HandSteps
    BY <2>1 DEF HandSteps
  <2> QED BY <2>1, <2>2, <2>3, <2>4, IdleMoveHeld
<1> QED BY <1>1, <1>2 DEF AbortStep

\* An aborted task leaves nothing behind.
LEMMA DropTaskHeld ==
    ASSUME TInv, HInv, NEW t \in Turns, DropTask(t) PROVE HInv'
<1>1. t \in Procs /\ t # Loop
  BY ProcsAssumption DEF Procs
<1>2. /\ pc' = [pc EXCEPT ![t] = "dead"]
      /\ hand' = [hand EXCEPT ![t] = <<>>]
      /\ input' = [input EXCEPT ![t] = <<>>]
      /\ starting' = [starting EXCEPT ![t] = NoTurn]
  BY DEF DropTask, Goto
<1>3. /\ hand'[t] = <<>> /\ \A e \in Procs \ {t} : hand'[e] = hand[e]
      /\ \A u \in Turns : input'[u] = input[u] \/ input'[u] = <<>>
      /\ starting'[Loop] = starting[Loop]
  BY <1>1, <1>2 DEF TInv, TypeOK, Procs
<1> QED BY <1>1, <1>2, <1>3, MoveHeld

\* The start of a turn.
LEMMA StartHeld ==
    ASSUME TInv, AInv, HInv, NEW d \in Procs, StartStep(d) PROVE HInv'
<1>0. Loop \in Procs /\ Loop \notin Turns /\ Turns \subseteq Procs
  BY ProcsAssumption DEF Procs
<1>1. CASE CheckPendingWork(d) \/ SkipReserved(d)
  <2>1. /\ pc[d] \in {"maybe", "reserve"} /\ UNCHANGED <<hand, starting, input>>
        /\ \E s \in {"reserve", "done", "idle"} : pc' = [pc EXCEPT ![d] = s]
    BY <1>1 DEF CheckPendingWork, SkipReserved, Idle, Goto, task, local
  <2>2. d = Loop => starting[Loop] = NoTurn
    BY <2>1 DEF HInv, LoopStarts, AbortSteps, StartSteps
  <2> QED BY <2>1, <2>2, IdleMoveHeld DEF HandSteps
<1>2. ASSUME NEW t \in Turns, ReserveTurn(d, t) PROVE HInv'
  <2>1. /\ pc[d] = "reserve" /\ UNCHANGED <<hand, input>>
        /\ pc' = [pc EXCEPT ![d] = "queued"]
        /\ starting' = [starting EXCEPT ![d] = t]
    BY <1>2 DEF ReserveTurn, Goto, task
  <2>2. pc'[d] = "queued" /\ \A e \in Procs \ {d} : pc'[e] = pc[e] /\ starting'[e] = starting[e]
    BY <2>1 DEF TInv, TypeOK
  <2>3. hand[d] = <<>>
    BY <2>1 DEF HInv, HandsFree
  <2>4. HandsFree'
    BY <2>1, <2>2, <2>3 DEF HInv, HandsFree
  <2>5. LoopStarts'
    BY <1>0, <2>2 DEF HInv, LoopStarts, StartSteps
  <2>6. InputStarts'
    <3>1. CASE d = Loop
      <4>1. starting[Loop] = NoTurn
        BY <2>1, <3>1 DEF HInv, LoopStarts, AbortSteps, StartSteps
      <4>2. \A u \in Turns : pc[u] = "none" => input[u] = <<>>
        BY <4>1, ProcsAssumption DEF HInv, InputStarts
      <4> QED BY <1>0, <2>1, <2>2, <3>1, <4>2 DEF InputStarts
    <3>2. CASE d # Loop
      BY <1>0, <2>1, <2>2, <3>2 DEF HInv, InputStarts
    <3> QED BY <3>1, <3>2
  <2> QED BY <2>4, <2>5, <2>6 DEF HInv
<1>3. CASE \/ TakeQueued(d) \/ StartTakesPending(d) \/ StartDrainsMailbox(d)
           \/ AttachTurnState(d)
  <2>1. /\ UNCHANGED <<starting, input>>
        /\ \E s \in {"pending", "mailbox", "attach", "push"} : pc' = [pc EXCEPT ![d] = s]
    BY <1>3 DEF TakeQueued, StartTakesPending, TakePending, StartDrainsMailbox,
       DrainMailbox, AttachTurnState, Goto, task
  <2>2. hand' = hand \/ \E x : hand' = [hand EXCEPT ![d] = x]
    BY <1>3 DEF TakeQueued, StartTakesPending, TakePending, StartDrainsMailbox,
       DrainMailbox, AttachTurnState
  <2>3. \A e \in Procs \ {d} : hand'[e] = hand[e]
    BY <2>2 DEF TInv, TypeOK
  <2> QED BY <2>1, <2>3, MoveHeld DEF HandSteps, StartSteps
<1>4. CASE PushPending(d)
  <2>1. /\ UNCHANGED <<starting, input>>
        /\ pc' = [pc EXCEPT ![d] = "spawn"] /\ hand' = [hand EXCEPT ![d] = <<>>]
    BY <1>4 DEF PushPending, Goto, task
  <2>2. hand'[d] = <<>> /\ \A e \in Procs \ {d} : hand'[e] = hand[e]
    BY <2>1 DEF TInv, TypeOK
  <2> QED BY <2>1, <2>2, MoveHeld DEF StartSteps
<1>5. CASE SpawnAndAdd(d)
  <2> DEFINE u == starting[d]
  <2>1. /\ pc[d] = "spawn" /\ UNCHANGED <<hand, input>>
        /\ pc' = [pc EXCEPT ![u] = "start", ![d] = Idle(d)]
        /\ starting' = [starting EXCEPT ![d] = NoTurn]
    BY <1>5 DEF SpawnAndAdd, task
  <2>2. u \in Turns /\ u # NoTurn
    BY <2>1, ProcsAssumption DEF TInv, HoldsStart, StartSteps
  <2>3. pc[u] = "none"
    BY <2>2 DEF AInv, FreshStart
  <2>4. u \in Procs /\ u # d
    BY <1>0, <2>1, <2>2, <2>3
  <2> HIDE DEF u
  <2>5. /\ pc'[u] = "start" /\ pc'[d] \in {"done", "idle"}
        /\ \A e \in Procs \ {u, d} : pc'[e] = pc[e]
        /\ starting'[d] = NoTurn
        /\ \A e \in Procs \ {d} : starting'[e] = starting[e]
    BY <2>1, <2>4 DEF Idle, TInv, TypeOK
  <2>6. hand[d] = <<>> /\ hand[u] = <<>>
    BY <2>1, <2>3, <2>4 DEF HInv, HandsFree
  <2>7. HandsFree'
    BY <2>1, <2>5, <2>6 DEF HInv, HandsFree
  <2>8. LoopStarts'
    BY <1>0, <2>2, <2>5 DEF HInv, LoopStarts
  <2>9. InputStarts'
    <3> SUFFICES ASSUME NEW t \in Turns, pc'[t] = "none", input'[t] # <<>>
                 PROVE  starting'[Loop] = t
      BY DEF InputStarts
    <3>1. t # u /\ pc[t] = "none"
      BY <1>0, <2>5
    <3>2. starting[Loop] = t
      BY <2>1, <3>1 DEF HInv, InputStarts
    <3>3. d # Loop
      BY <3>1, <3>2 DEF u
    <3> QED BY <1>0, <2>5, <3>2, <3>3
  <2> QED BY <2>7, <2>8, <2>9 DEF HInv
<1> QED BY <1>1, <1>2, <1>3, <1>4, <1>5 DEF StartStep

\* A task's own flow of control.
LEMMA TaskHeld ==
    ASSUME TInv, AInv, HInv, NEW t \in Turns, TaskStep(t) PROVE HInv'
<1>0. t \in Procs /\ t # Loop
  BY ProcsAssumption DEF Procs
<1>1. CASE \/ BeginTask(t) \/ OtherWork(t) \/ SampleStep(t) \/ SampleFollowsUp(t)
           \/ SampleCompletes(t) \/ SampleFails(t) \/ CheckAgain(t) \/ ReleaseTurn(t)
           \/ RemoveTask(t)
  <2>1. /\ UNCHANGED <<hand, starting, input>>
    BY <1>1 DEF BeginTask, OtherWork, SampleStep, DeferMailbox, AcceptMailbox,
       RequestApproval, ApprovalEnds, SampleFollowsUp, SampleCompletes, SampleFails,
       CheckAgain, ReleaseTurn, RemoveTask, task, local
  <2>2. \/ pc' = pc
        \/ /\ pc[t] \in {"start", "work", "sample", "approval", "check", "release",
                         "finish"}
           /\ \E s \in {"enter", "work", "flush", "sample", "approval", "check", "drain",
                        "maybe", "done", "collect", "complete"} : pc' = [pc EXCEPT ![t] = s]
    BY <1>1 DEF BeginTask, OtherWork, SampleStep, DeferMailbox, AcceptMailbox,
       RequestApproval, ApprovalEnds, SampleFollowsUp, SampleCompletes, SampleFails,
       CheckAgain, ReleaseTurn, RemoveTask, Goto
  <2>3. CASE pc' = pc
    BY <2>1, <2>3, StillHeld
  <2>4. CASE pc' # pc
    BY <1>0, <2>1, <2>2, <2>4, IdleMoveHeld DEF HandSteps
  <2> QED BY <2>3, <2>4
<1>2. CASE EnterTurn(t) \/ EnterFails(t) \/ FlushRollout(t)
  <2>1. /\ UNCHANGED <<hand, starting>>
        /\ pc[t] \in {"enter", "flush"}
        /\ \E s \in {"sample", "drain", "check", "done", "finish"} :
              pc' = [pc EXCEPT ![t] = s]
        /\ input' = [input EXCEPT ![t] = <<>>]
    BY <1>2 DEF EnterTurn, EnterFails, FlushRollout, Goto, local
  <2>2. hand'[t] = <<>>
    BY <1>0, <2>1 DEF HInv, HandsFree
  <2>3. \A u \in Turns : input'[u] = input[u] \/ input'[u] = <<>>
    BY <2>1 DEF TInv, TypeOK
  <2> QED BY <1>0, <2>1, <2>2, <2>3, MoveHeld
<1>3. CASE TurnTakesPending(t) \/ TurnDrainsMailbox(t) \/ CollectPending(t)
  <2>1. /\ UNCHANGED <<starting, input>>
        /\ \E s \in {"mail", "inspect", "complete"} : pc' = [pc EXCEPT ![t] = s]
        /\ hand' = hand \/ \E x : hand' = [hand EXCEPT ![t] = x]
    BY <1>3 DEF TurnTakesPending, TakePending, TurnDrainsMailbox, DrainMailbox,
       CollectPending, Goto, task
  <2>2. \A e \in Procs \ {t} : hand'[e] = hand[e]
    BY <2>1 DEF TInv, TypeOK
  <2> QED BY <1>0, <2>1, <2>2, MoveHeld DEF HandSteps
<1>4. CASE AcceptPending(t) \/ \E i \in DOMAIN hand[t] : BlockPending(t, i)
  <2>1. /\ UNCHANGED <<starting, input>>
        /\ \E s \in {"sample", "drain", "check"} : pc' = [pc EXCEPT ![t] = s]
        /\ hand' = [hand EXCEPT ![t] = <<>>]
    BY <1>4 DEF AcceptPending, BlockPending, Goto, task
  <2>2. hand'[t] = <<>> /\ \A e \in Procs \ {t} : hand'[e] = hand[e]
    BY <1>0, <2>1 DEF TInv, TypeOK
  <2> QED BY <1>0, <2>1, <2>2, MoveHeld
<1>5. CASE RecordLate(t)
  <2>1. /\ pc[t] = "complete" /\ UNCHANGED <<pc, starting, input>>
        /\ hand' = [hand EXCEPT ![t] = Tail(hand[t])]
    BY <1>5 DEF RecordLate, task
  <2>2. pc' = [pc EXCEPT ![t] = "complete"] /\ \A e \in Procs \ {t} : hand'[e] = hand[e]
    BY <2>1 DEF TInv, TypeOK
  <2> QED BY <1>0, <2>1, <2>2, MoveHeld DEF HandSteps
<1>6. CASE ReportComplete(t)
  <2>1. /\ hand[t] = <<>> /\ UNCHANGED <<hand, starting, input>>
        /\ \E s \in {"done", "release"} : pc' = [pc EXCEPT ![t] = s]
    BY <1>6 DEF ReportComplete, Goto, task, local
  <2> QED BY <1>0, <2>1, MoveHeld
<1>7. CASE StartStep(t)
  BY <1>0, <1>7, StartHeld
<1> QED BY <1>1, <1>2, <1>3, <1>4, <1>5, <1>6, <1>7 DEF TaskStep

\* Every step keeps it that what is overwritten is empty.
LEMMA NextHeld == ASSUME TInv, AInv, HInv, [Next]_vars PROVE HInv'
<1>1. CASE LoopStep \/ ClientStep
  BY <1>1, CallsHeld
<1>2. ASSUME NEW d \in Procs \ Turns, DriverStep(d) PROVE HInv'
  <2>0. Loop \in Procs
    BY DEF Procs
  <2>1. CASE QueueForNextTurn
    <3>1. /\ pc[Loop] = "queue" /\ pc' = [pc EXCEPT ![Loop] = "idle"]
          /\ hand' = [hand EXCEPT ![Loop] = <<>>] /\ UNCHANGED <<starting, input>>
      BY <2>1 DEF QueueForNextTurn, Goto, task
    <3>2. hand'[Loop] = <<>> /\ \A e \in Procs \ {Loop} : hand'[e] = hand[e]
      BY <2>0, <3>1 DEF TInv, TypeOK
    <3>3. starting[Loop] = NoTurn
      BY <3>1 DEF HInv, LoopStarts, AbortSteps, StartSteps
    <3> QED BY <2>0, <3>1, <3>2, <3>3, MoveHeld
  <2>2. CASE TakeActiveTurn
    <3>1. /\ pc[Loop] = "take" /\ UNCHANGED <<hand, starting, input>>
          /\ \/ pc' = [pc EXCEPT ![Loop] = AfterAbort(Loop, FALSE)]
             \/ pc' = [pc EXCEPT ![Loop] = "cancel"]
      BY <2>2 DEF TakeActiveTurn, Goto, task
    <3>2. /\ AfterAbort(Loop, FALSE) # "none"
          /\ starting[Loop] # NoTurn => AfterAbort(Loop, FALSE) = "queued"
      BY DEF AfterAbort, Idle
    <3>3. /\ starting[Loop] # NoTurn => AfterAbort(Loop, FALSE) \in AbortSteps \union StartSteps
          /\ "cancel" \in AbortSteps \union StartSteps
          /\ pc[Loop] \notin HandSteps
      BY <3>1, <3>2 DEF StartSteps, AbortSteps, HandSteps
    <3>4. CASE pc' = [pc EXCEPT ![Loop] = AfterAbort(Loop, FALSE)]
      BY <2>0, <3>1, <3>2, <3>3, <3>4, IdleMoveHeld
    <3>5. CASE pc' = [pc EXCEPT ![Loop] = "cancel"]
      BY <2>0, <3>1, <3>3, <3>5, IdleMoveHeld
    <3> QED BY <3>1, <3>4, <3>5
  <2> QED BY <1>2, <2>1, <2>2, AbortHeld, StartHeld DEF DriverStep
<1>3. ASSUME NEW t \in Turns, TaskStep(t) PROVE HInv'
  BY <1>3, TaskHeld
<1>4. ASSUME NEW t \in Turns, DropTask(t) PROVE HInv'
  BY <1>4, DropTaskHeld
<1>5. CASE UNCHANGED vars
  BY <1>5, StillHeld DEF vars, task, local
<1> QED BY <1>1, <1>2, <1>3, <1>4, <1>5 DEF Next, Quiescent

-----------------------------------------------------------------------------
(* The shelf stays in order *)

\* A new session has all of its inputs unsent.
LEMMA InitShelf == Init => HInv /\ UInv
<1> SUFFICES ASSUME Init PROVE HInv /\ UInv
  OBVIOUS
<1>1. HInv
  BY ProcsAssumption DEF Init, HInv, HandsFree, LoopStarts, InputStarts, Procs
<1>2. \A p \in AllPlaces : Shelf[p] = <<>>
  <2> SUFFICES ASSUME NEW p \in AllPlaces PROVE Shelf[p] = <<>>
    OBVIOUS
  <2>0. \A i \in Nat : PendingOf(turnState)[i] = <<>>
    BY DEF Init, PendingOf
  <2>1. CASE p = Recorded \/ p = Queue \/ p = Mailbox
    BY <2>1, ShelfAt DEF Init
  <2>2. CASE \E d \in Procs : p = HandOf(d)
    BY <2>2, ShelfAt DEF Init
  <2>3. CASE \E t \in Turns : p = InputOf(t)
    BY <2>3, ShelfAt DEF Init
  <2>4. CASE \E i \in Nat : p = PendingIn(i)
    <3>1. PICK i \in Nat : p = PendingIn(i)
      BY <2>4
    <3>2. Shelf[p] = PendingOf(turnState)[i]
      BY <3>1, ShelfAt
    <3> QED BY <2>0, <3>2
  <2> QED BY <2>1, <2>2, <2>3, <2>4, PlaceCases
<1>3. \A p \in AllPlaces : Range(Shelf[p]) = {} /\ Distinct(Shelf[p])
  BY <1>2, RangeEmpty
<1>4. unsent = Inputs
  BY DEF Init
<1>5. Unique(Shelf)
  BY <1>3 DEF Unique
<1>6. Sent(Shelf, unsent) /\ Found(Shelf, unsent, dropped)
  BY <1>3, <1>4 DEF Sent, Found
<1> QED BY <1>1, <1>5, <1>6 DEF UInv

\* Steps that change at most the phase or the approvals of a turn state.
LEMMA PhasesKept ==
    ASSUME TInv, NEW t \in Turns, NotifyApproval(t) \/ SampleStep(t)
    PROVE  PendingOf(turnState') = PendingOf(turnState)
<1>1. turnState \in Seq(TurnStates)
  BY DEF TInv, TypeOK
<1> DEFINE a == active.state
<1>2. \/ turnState' = turnState
      \/ active # NoTurn /\ (\E x : SetsOther(turnState', turnState, a, x))
  <2>1. CASE NotifyApproval(t)
    BY <2>1 DEF NotifyApproval, SetsOther
  <2>2. CASE DeferMailbox(t) \/ AcceptMailbox(t)
    <3>1. active # NoTurn
      BY <2>2 DEF DeferMailbox, AcceptMailbox, Tasks, Contains
    <3> QED BY <2>2, <3>1 DEF DeferMailbox, AcceptMailbox, SetsOther
  <2>3. CASE RequestApproval(t) \/ ApprovalEnds(t)
    BY <2>3 DEF RequestApproval, ApprovalEnds, session, SetsOther
  <2> QED BY <2>1, <2>2, <2>3 DEF SampleStep
<1>3. active # NoTurn => a \in DOMAIN turnState
  BY ActiveShape DEF TInv
<1> HIDE DEF a
<1> QED BY <1>1, <1>2, <1>3, PendingKept

LEMMA PhasesShelf ==
    ASSUME TInv, UInv, NEW t \in Turns, NotifyApproval(t) \/ SampleStep(t)
    PROVE  UInv'
<1>1. UNCHANGED <<history, queued, mailbox, hand, input, unsent, dropped>>
  BY DEF NotifyApproval, SampleStep, DeferMailbox, AcceptMailbox, RequestApproval,
     ApprovalEnds, session, record, task, local
<1> QED BY <1>1, PhasesKept, Kept

\* The start of a turn.
LEMMA StartShelf ==
    ASSUME TInv, HInv, UInv, NEW d \in Procs, StartStep(d) PROVE UInv'
<1>1. CASE CheckPendingWork(d) \/ SkipReserved(d)
  BY <1>1, Kept DEF CheckPendingWork, SkipReserved, session, record, task, local
<1>2. CASE (\E t \in Turns : ReserveTurn(d, t)) \/ AttachTurnState(d) \/ SpawnAndAdd(d)
  <2>1. /\ UNCHANGED <<history, queued, mailbox, hand, input, unsent, dropped>>
        /\ turnState' = Allocated
    BY <1>2 DEF ReserveTurn, AttachTurnState, SpawnAndAdd, record, task
  <2> QED BY <2>1, PendingAllocated, Kept DEF TInv
<1>3. CASE StartTakesPending(d)
  BY <1>3, TakePendingShelf DEF StartTakesPending
<1>4. CASE StartDrainsMailbox(d)
  BY <1>4, DrainShelf DEF StartDrainsMailbox
<1> QED BY <1>1, <1>2, <1>3, <1>4, TakeQueuedShelf, PushShelf DEF StartStep

\* Every step keeps the shelf in order.
LEMMA NextShelf == ASSUME TInv, HInv, UInv, [Next]_vars PROVE UInv'
<1>1. CASE LoopStep
  <2>1. ASSUME NEW op \in Stops, Interrupt(op) PROVE UInv'
    BY <2>1, Kept DEF Interrupt, session, record, task
  <2> QED BY <1>1, <2>1, SteeredShelf, SpawnsShelf, SpawnOtherShelf, InterAgentShelf,
             ApproveDeniedShelf DEF LoopStep
<1>2. CASE ClientStep
  <2>1. ASSUME NEW n \in Notes, Inject(n) PROVE UInv'
    <3>1. n \in unsent /\ Injected(n)
          /\ UNCHANGED <<history, queued, mailbox, hand, input, dropped>>
      BY <2>1 DEF Inject, record, task, local
    <3> QED BY <3>1, InjectedShelf
  <2>2. ASSUME NEW d \in Guardians, NEW t \in Turns, GuardianTake(d, t) PROVE UInv'
    BY <2>2, Kept DEF GuardianTake, record, task
  <2> QED BY <1>2, <2>1, <2>2, SteeredShelf, PhasesShelf DEF ClientStep
<1>3. ASSUME NEW d \in Procs \ Turns, DriverStep(d) PROVE UInv'
  <2>1. CASE TakeActiveTurn
    BY <2>1, Kept DEF TakeActiveTurn, record, task
  <2>2. CASE CancelTask(d) \/ StopTask(d) \/ MarkInterrupted(d) \/ ReportAborted(d)
    BY <2>2, Kept DEF CancelTask, StopTask, MarkInterrupted, ReportAborted, session,
       record, task, local
  <2>3. CASE AbortStep(d)
    BY <2>2, <2>3, ClearPendingShelf DEF AbortStep
  <2> QED BY <1>3, <2>1, <2>3, QueueShelf, StartShelf DEF DriverStep
<1>4. ASSUME NEW t \in Turns, TaskStep(t) PROVE UInv'
  <2>0. t \in Procs
    BY DEF Procs
  <2>1. CASE \/ BeginTask(t) \/ OtherWork(t) \/ SampleFollowsUp(t) \/ SampleCompletes(t)
             \/ SampleFails(t) \/ CheckAgain(t) \/ RemoveTask(t) \/ ReportComplete(t)
             \/ ReleaseTurn(t)
    BY <2>1, Kept DEF BeginTask, OtherWork, SampleFollowsUp, SampleCompletes, SampleFails,
       CheckAgain, RemoveTask, ReportComplete, ReleaseTurn, session, record, task, local
  <2>2. CASE TurnTakesPending(t)
    BY <2>0, <2>2, TakePendingShelf DEF TurnTakesPending
  <2>3. CASE TurnDrainsMailbox(t)
    BY <2>0, <2>3, DrainShelf DEF TurnDrainsMailbox
  <2>4. CASE \/ EnterTurn(t) \/ EnterFails(t) \/ FlushRollout(t) \/ AcceptPending(t)
             \/ (\E i \in DOMAIN hand[t] : BlockPending(t, i)) \/ SampleStep(t)
             \/ CollectPending(t) \/ RecordLate(t) \/ StartStep(t)
    BY <2>0, <2>4, InputUsedShelf, AcceptShelf, BlockShelf, PhasesShelf, CollectShelf,
       RecordLateShelf, StartShelf
  <2> QED BY <1>4, <2>1, <2>2, <2>3, <2>4 DEF TaskStep
<1>5. ASSUME NEW t \in Turns, DropTask(t) PROVE UInv'
  BY <1>5, DropTaskShelf
<1>6. CASE UNCHANGED vars
  BY <1>6, Kept DEF vars, session, record, task, local
<1> QED BY <1>1, <1>2, <1>3, <1>4, <1>5, <1>6 DEF Next, Quiescent

\* A place of the specification is a place of the shelf.
LEMMA PlacesOnShelf ==
    ASSUME TypeOK, NEW p \in Places
    PROVE  p \in AllPlaces /\ ItemsAt(p) = Shelf[p]
<1>0. DOMAIN turnState \subseteq Nat
  BY DEF TypeOK
<1>1. p \in AllPlaces
  BY <1>0 DEF Places, AllPlaces
<1>2. \/ p[1] \in {"hand", "input"}
      \/ p[1] = "pending" /\ p[2] \in DOMAIN turnState
      \/ p[1] = "session" /\ p \in {Recorded, Queue, Mailbox}
  BY DEF Places, Recorded, Queue, Mailbox
<1>3. p[1] = "pending" => PendingOf(turnState)[p[2]] = turnState[p[2]].pending
  BY <1>0, <1>2 DEF PendingOf
<1>4. Recorded # Queue /\ Recorded # Mailbox /\ Queue # Mailbox
  BY PlacesDiffer
<1> QED BY <1>1, <1>2, <1>3, <1>4
        DEF Shelf, Arranged, ItemsAt, Recorded, Queue, Mailbox

\* No input is recorded twice or is on its way twice, for every set of turns,
\* guardians and inputs: whoever takes pending input, queued items or mail takes
\* all of it, and what is put back was taken before.
THEOREM NoDuplicateTheorem == Spec => []NoDuplicate
<1>1. Init => TInv /\ AInv /\ HInv /\ UInv
  BY InitType, InitAbort, InitShelf
<1>2. TInv /\ AInv /\ HInv /\ UInv /\ [Next]_vars => (TInv /\ AInv /\ HInv /\ UInv)'
  BY NextType, NextAbort, NextHeld, NextShelf
<1>3. TInv /\ AInv /\ HInv /\ UInv => NoDuplicate
  <2> SUFFICES ASSUME TInv, UInv, NEW p \in Places, NEW q \in Places,
                      NEW j \in DOMAIN ItemsAt(p), NEW k \in DOMAIN ItemsAt(q),
                      ItemsAt(p)[j] = ItemsAt(q)[k]
               PROVE  p = q /\ j = k
    BY DEF NoDuplicate
  <2>1. /\ p \in AllPlaces /\ ItemsAt(p) = Shelf[p]
        /\ q \in AllPlaces /\ ItemsAt(q) = Shelf[q]
    BY PlacesOnShelf DEF TInv
  <2>2. Shelf[p][j] \in Range(Shelf[p]) \intersect Range(Shelf[q])
    BY <2>1 DEF Range
  <2>3. p = q
    BY <2>1, <2>2 DEF UInv, Unique
  <2> QED BY <2>1, <2>3 DEF UInv, Unique, Distinct
<1> QED BY <1>1, <1>2, <1>3, PTL DEF Spec

-----------------------------------------------------------------------------
(* Nothing is lost with a turn state *)

\* The poll in which a task is when its handle is aborted is over before the abort is.
ShortPolls == \A t \in Turns :
    aborted[t] /\ pc[t] \notin {"done", "dead"} => pc[Loop] \in Aborting

\* From the abort of the last turn until it attaches to a turn state, the loop that
\* starts a turn finds none active.
NoTurnYet == pc[Loop] \in {"queued", "pending", "mailbox", "attach"} => active = NoTurn
\* Then the active turn is its own, and no finished task will release it.
OwnTurn ==
    /\ pc[Loop] \in {"push", "spawn"} =>
          active # NoTurn /\ \A u \in Turns : ref[u] # active.state
    /\ pc[Loop] = "push" => active.state = ref[Loop]
\* The tasks of the session run.
TasksRun == \A t \in Range(Tasks) : pc[t] \in RunSteps
\* The victim of an abort does not become the one that collects what is left.
VictimsOut ==
    /\ pc[Loop] \in {"cancel", "wait", "mark", "report"} =>
          \A t \in Range(victims[Loop]) : pc[t] # "collect"
    /\ \A t \in Turns : aborted[t] => pc[t] # "collect"

\* Somebody will take what is pending in turn state s: a task of the active turn or
\* the one the loop adds to it next, the abort that has taken it, or the last task.
Backed(s) ==
    \/ active # NoTurn /\ active.state = s /\ (Tasks # <<>> \/ pc[Loop] = "spawn")
    \/ pc[Loop] \in Aborting /\ ref[Loop] = s
    \/ \E t \in Turns : pc[t] = "collect" /\ ref[t] = s
PendingBacked == \A s \in Nat : PendingOf(turnState)[s] # <<>> => Backed(s)

KInv == NoTurnYet /\ OwnTurn /\ TasksRun /\ VictimsOut /\ PendingBacked

LEMMA InitBacked == Init => KInv
<1> SUFFICES ASSUME Init PROVE KInv
  OBVIOUS
<1>1. pc[Loop] = "idle" /\ Tasks = <<>>
  BY ProcsAssumption DEF Init, Tasks, Procs
<1>2. \A s \in Nat : PendingOf(turnState)[s] = <<>>
  BY DEF Init, PendingOf
<1>3. \A t \in Turns : ~aborted[t]
  BY DEF Init
<1> QED BY <1>1, <1>2, <1>3, RangeEmpty DEF KInv, NoTurnYet, OwnTurn, TasksRun, VictimsOut,
           PendingBacked

\* The tasks of the session, and the victims of an abort, are turns.
LEMMA TasksShape ==
    ASSUME TInv
    PROVE  /\ Tasks \in Seq(Turns) /\ Range(Tasks) \subseteq Turns
           /\ \A d \in Procs : Range(victims[d]) \subseteq Turns
           /\ Loop \in Procs /\ Loop \notin Turns /\ Turns \subseteq Procs
<1>1. Tasks \in Seq(Turns)
  BY ActiveShape DEF Tasks, TInv
<1>2. \A d \in Procs : victims[d] \in Seq(Turns)
  BY DEF TInv, TypeOK
<1> QED BY <1>1, <1>2, RangeIn, ProcsAssumption DEF Procs

\* A step of a task that stays in its run, or has left it, and does not begin or end
\* to collect; what it puts back goes to a turn that has a task.
LEMMA TaskMovesBacked ==
    ASSUME TInv, KInv, NEW t \in Turns,
           active' = active, ref' = ref, victims' = victims, aborted' = aborted,
           \/ pc' = pc
           \/ /\ pc[t] # "collect"
              /\ \E s : /\ s # "collect" /\ (s \in RunSteps \/ t \notin Range(Tasks))
                        /\ pc' = [pc EXCEPT ![t] = s],
           \A i \in Nat : PendingOf(turnState')[i] # <<>> =>
               \/ PendingOf(turnState)[i] # <<>>
               \/ active # NoTurn /\ Tasks # <<>> /\ i = active.state
    PROVE  KInv'
<1>0. /\ Tasks \in Seq(Turns) /\ Range(Tasks) \subseteq Turns
      /\ Loop \in Procs /\ Loop \notin Turns /\ Turns \subseteq Procs
      /\ Range(victims[Loop]) \subseteq Turns
  BY TasksShape
<1>1. /\ pc'[Loop] = pc[Loop] /\ Tasks' = Tasks
      /\ \A u \in Turns : pc'[u] = "collect" <=> pc[u] = "collect"
      /\ \A u \in Range(Tasks) : pc[u] \in RunSteps => pc'[u] \in RunSteps
  <2>1. Tasks' = Tasks
    BY DEF Tasks
  <2>2. CASE pc' = pc
    BY <2>1, <2>2
  <2>3. CASE pc[t] # "collect" /\ pc' # pc
    <3>1. PICK s : /\ s # "collect" /\ (s \in RunSteps \/ t \notin Range(Tasks))
                   /\ pc' = [pc EXCEPT ![t] = s]
      BY <2>3
    <3>2. pc'[t] = s /\ pc'[Loop] = pc[Loop] /\ \A u \in Turns \ {t} : pc'[u] = pc[u]
      BY <1>0, <3>1 DEF TInv, TypeOK
    <3> QED BY <1>0, <2>1, <2>3, <3>1, <3>2
  <2> QED BY <2>2, <2>3
<1>2. NoTurnYet' /\ OwnTurn' /\ TasksRun' /\ VictimsOut'
  BY <1>0, <1>1 DEF KInv, NoTurnYet, OwnTurn, TasksRun, VictimsOut
<1>3. \A s \in Nat : Backed(s) => Backed(s)'
  BY <1>1 DEF Backed
<1>4. active # NoTurn /\ Tasks # <<>> => Backed(active.state)'
  BY <1>1 DEF Backed
<1>5. PendingBacked'
  BY <1>3, <1>4 DEF KInv, PendingBacked
<1> QED BY <1>2, <1>5 DEF KInv

\* A step of the loop before an abort, or between an abort and the new turn.
LEMMA LoopMovesBacked ==
    ASSUME TInv, KInv,
           active' = active, \A u \in Turns : ref'[u] = ref[u], victims' = victims,
           aborted' = aborted, pc[Loop] \notin Aborting \union {"push", "spawn"},
           NEW s, s \in {"idle", "take", "maybe", "queued", "pending", "mailbox", "attach"},
           s \in {"queued", "pending", "mailbox", "attach"} => active = NoTurn,
           pc' = [pc EXCEPT ![Loop] = s],
           \A i \in Nat : PendingOf(turnState')[i] # <<>> => PendingOf(turnState)[i] # <<>>
    PROVE  KInv'
<1>0. /\ Tasks \in Seq(Turns) /\ Range(Tasks) \subseteq Turns
      /\ Loop \in Procs /\ Loop \notin Turns /\ Turns \subseteq Procs
  BY TasksShape
<1>1. /\ pc'[Loop] = s /\ Tasks' = Tasks /\ \A u \in Turns : pc'[u] = pc[u]
  BY <1>0 DEF TInv, TypeOK, Tasks
<1>2. NoTurnYet' /\ OwnTurn' /\ TasksRun' /\ VictimsOut'
  BY <1>0, <1>1 DEF KInv, NoTurnYet, OwnTurn, TasksRun, VictimsOut
<1>3. \A i \in Nat : Backed(i) => Backed(i)'
  BY <1>1 DEF Backed
<1> QED BY <1>2, <1>3 DEF KInv, PendingBacked

\* Steps within an abort.
LEMMA AbortMovesBacked ==
    ASSUME TInv, RInv, KInv,
           active' = active, ref'[Loop] = ref[Loop],
           \A u \in Turns : pc[u] = "collect" => ref'[u] = ref[u],
           pc[Loop] \in {"cancel", "wait", "mark", "report"},
           NEW s \in Aborting, pc'[Loop] = s,
           \A u \in Turns : pc'[u] = "collect" <=> pc[u] = "collect",
           Range(victims'[Loop]) \subseteq Range(victims[Loop]),
           \A u \in Turns : aborted'[u] => aborted[u] \/ u \in Range(victims[Loop]),
           turnState' = turnState
    PROVE  KInv'
<1>0. /\ Range(victims[Loop]) \subseteq Turns
      /\ Loop \in Procs /\ Loop \notin Turns /\ Turns \subseteq Procs
  BY TasksShape
<1>1. /\ active = NoTurn /\ Tasks = <<>> /\ Tasks' = <<>> /\ Range(<<>>) = {}
  BY RangeEmpty DEF RInv, NoSession, Aborting, Tasks
<1>2. NoTurnYet' /\ OwnTurn' /\ TasksRun' /\ VictimsOut'
  BY <1>0, <1>1 DEF KInv, NoTurnYet, OwnTurn, TasksRun, VictimsOut, Aborting
<1>3. \A i \in Nat : Backed(i) => Backed(i)'
  BY <1>1 DEF Backed
<1> QED BY <1>2, <1>3 DEF KInv, PendingBacked

\* Steps of a task's own flow of control that leave the active turn alone.
LEMMA TaskStepBacked ==
    ASSUME TInv, RInv, KInv, ShortPolls, NEW t \in Turns,
           \/ BeginTask(t)
           \/ OtherWork(t)
           \/ EnterTurn(t)
           \/ EnterFails(t)
           \/ TurnTakesPending(t)
           \/ TurnDrainsMailbox(t)
           \/ AcceptPending(t)
           \/ \E i \in DOMAIN hand[t] : BlockPending(t, i)
           \/ SampleStep(t)
           \/ SampleFollowsUp(t)
           \/ SampleCompletes(t)
           \/ SampleFails(t)
           \/ CheckAgain(t)
           \/ FlushRollout(t)
           \/ RecordLate(t)
           \/ ReportComplete(t)
           \/ NotifyApproval(t)
    PROVE  KInv'
<1> DEFINE Moves == \/ pc' = pc
                    \/ /\ pc[t] # "collect"
                       /\ \E s : /\ s # "collect" /\ (s \in RunSteps \/ t \notin Range(Tasks))
                                 /\ pc' = [pc EXCEPT ![t] = s]
           Same == active' = active /\ ref' = ref /\ victims' = victims /\ aborted' = aborted
           Shrinks == \A i \in Nat : PendingOf(turnState')[i] # <<>> =>
                         \/ PendingOf(turnState)[i] # <<>>
                         \/ active # NoTurn /\ Tasks # <<>> /\ i = active.state
<1>0. turnState \in Seq(TurnStates) /\ (active # NoTurn => active.state \in DOMAIN turnState)
  BY ActiveShape DEF TInv, TypeOK
<1>1. SUFFICES Moves /\ Same /\ Shrinks
  BY TaskMovesBacked
<1>2. Same
  BY DEF BeginTask, OtherWork, EnterTurn, EnterFails, TurnTakesPending, TakePending,
     TurnDrainsMailbox, DrainMailbox, AcceptPending, BlockPending, SampleStep,
     DeferMailbox, AcceptMailbox, RequestApproval, ApprovalEnds, SampleFollowsUp,
     SampleCompletes, SampleFails, CheckAgain, FlushRollout, RecordLate, ReportComplete,
     NotifyApproval, session, local, task
<1>3. CASE \/ BeginTask(t) \/ OtherWork(t) \/ EnterTurn(t) \/ EnterFails(t)
           \/ SampleFollowsUp(t) \/ SampleCompletes(t) \/ SampleFails(t) \/ CheckAgain(t)
  <2>1. Moves
    BY <1>3 DEF BeginTask, OtherWork, EnterTurn, EnterFails, SampleFollowsUp,
       SampleCompletes, SampleFails, CheckAgain, Goto, RunSteps
  <2>2. turnState' = turnState
    BY <1>3 DEF BeginTask, OtherWork, EnterTurn, EnterFails, SampleFollowsUp,
       SampleCompletes, SampleFails, CheckAgain, session
  <2> QED BY <1>2, <2>1, <2>2
<1>4. CASE TurnDrainsMailbox(t) \/ AcceptPending(t)
  <2>1. Moves /\ turnState' = turnState
    BY <1>4 DEF TurnDrainsMailbox, DrainMailbox, AcceptPending, Goto, RunSteps, session
  <2> QED BY <1>2, <2>1
<1>5. CASE TurnTakesPending(t)
  <2>1. Moves
    BY <1>5 DEF TurnTakesPending, TakePending, Goto, RunSteps
  <2>2. Shrinks
    <3>1. CASE active = NoTurn
      BY <1>5, <3>1 DEF TurnTakesPending, TakePending
    <3>2. CASE active # NoTurn
      <4> DEFINE a == active.state
      <4>1. SetsPending(turnState', turnState, a, <<>>) /\ a \in DOMAIN turnState
        BY <1>0, <1>5, <3>2 DEF TurnTakesPending, TakePending, SetsPending
      <4> HIDE DEF a
      <4>2. /\ PendingOf(turnState')[a] = <<>>
            /\ \A j \in Nat \ {a} : PendingOf(turnState')[j] = PendingOf(turnState)[j]
        BY <1>0, <4>1, PendingSet
      <4> QED BY <4>2
    <3> QED BY <3>1, <3>2
  <2> QED BY <1>2, <2>1, <2>2
<1>6. CASE \E i \in DOMAIN hand[t] : BlockPending(t, i)
  <2>1. Moves
    BY <1>6 DEF BlockPending, Goto, RunSteps
  <2>2. Shrinks
    <3>1. CASE active = NoTurn
      BY <1>6, <3>1 DEF BlockPending
    <3>2. CASE active # NoTurn
      <4> DEFINE a == active.state
      <4>1. pc[t] = "inspect" /\ "inspect" \in RunSteps
        BY <1>6 DEF BlockPending, RunSteps
      <4>2. Tasks = <<t>>
        BY <3>2, <4>1 DEF ShortPolls, RInv, Running, Live, NoSession, Aborting
      <4>3. Tasks # <<>>
        BY <4>2
      <4>4. a \in DOMAIN turnState /\ \E x : SetsPending(turnState', turnState, a, x)
        BY <1>0, <1>6, <3>2 DEF BlockPending, SetsPending
      <4> HIDE DEF a
      <4>5. \A j \in Nat \ {a} : PendingOf(turnState')[j] = PendingOf(turnState)[j]
        BY <1>0, <4>4, PendingSet
      <4> QED BY <3>2, <4>3, <4>5 DEF a
    <3> QED BY <3>1, <3>2
  <2> QED BY <1>2, <2>1, <2>2
<1>7. CASE SampleStep(t) \/ NotifyApproval(t)
  <2>1. Moves
    BY <1>7 DEF SampleStep, DeferMailbox, AcceptMailbox, RequestApproval, ApprovalEnds,
       NotifyApproval, Goto, RunSteps
  <2>2. PendingOf(turnState') = PendingOf(turnState)
    BY <1>7, PhasesKept
  <2> QED BY <1>2, <2>1, <2>2
<1>8. CASE FlushRollout(t)
  <2>1. cancelled[t] /\ pc[t] = "flush" => t \notin Range(Tasks)
    <3> SUFFICES ASSUME cancelled[t], pc[t] = "flush" PROVE t \notin Range(Tasks)
      OBVIOUS
    <3>1. pc[Loop] \in Aborting
      BY DEF ShortPolls, RInv, CancelledStops, Live, RunSteps, Aborting
    <3>2. Tasks = <<>>
      BY <3>1 DEF RInv, NoSession, Aborting, Tasks
    <3> QED BY <3>2, RangeEmpty
  <2>2. Moves /\ turnState' = turnState
    BY <1>8, <2>1 DEF FlushRollout, Goto, RunSteps, session
  <2> QED BY <1>2, <2>2
<1>9. CASE RecordLate(t) \/ ReportComplete(t)
  <2>1. pc[t] = "complete" /\ turnState' = turnState
    BY <1>9 DEF RecordLate, ReportComplete, session
  <2>2. t \notin Range(Tasks)
    BY <2>1 DEF KInv, TasksRun, RunSteps
  <2>3. Moves
    BY <1>9, <2>1, <2>2 DEF RecordLate, ReportComplete, Goto
  <2> QED BY <1>2, <2>1, <2>3
<1> QED BY <1>3, <1>4, <1>5, <1>6, <1>7, <1>8, <1>9

\* Operations of the loop and calls from other threads, where nothing is injected.
LEMMA CallsBacked ==
    ASSUME Notes = {}, Grants = {}, Guardians = {}, TInv, RInv, KInv, ShortPolls,
           LoopStep \/ ClientStep
    PROVE  KInv'
<1>1. ASSUME NEW p \in Prompts, UserInputSteers(p) \/ Steer(p) PROVE KInv'
  <2>1. /\ Steered(p) /\ Tasks # <<>>
        /\ active' = active /\ ref' = ref /\ victims' = victims /\ pc' = pc
        /\ aborted' = aborted
    BY <1>1 DEF UserInputSteers, Steer, Steered, local, task
  <2>2. Tasks \in Seq(Turns)
    BY TasksShape
  <2>3. Head(Tasks) \in Turns
    BY <2>1, <2>2
  <2>4. active # NoTurn
    BY <2>1 DEF Tasks
  <2>5. \A i \in Nat : PendingOf(turnState')[i] # <<>> =>
               \/ PendingOf(turnState)[i] # <<>>
               \/ active # NoTurn /\ Tasks # <<>> /\ i = active.state
    BY <2>1, <2>4, SteeredPending
  <2> QED BY <2>1, <2>3, <2>5, TaskMovesBacked
<1>2. ASSUME \/ \E p \in Prompts, t \in Turns : UserInputSpawns(p, t)
             \/ \E t \in Turns, k \in OtherKinds : SpawnOther(t, k)
             \/ \E op \in Stops : Interrupt(op)
             \/ \E m \in Mail : InterAgentCommunication(m)
      PROVE  KInv'
  <2>1. /\ UNCHANGED <<active, turnState, ref, victims, aborted>>
        /\ pc[Loop] = "idle"
    BY <1>2 DEF UserInputSpawns, SpawnOther, Interrupt, InterAgentCommunication,
       LoopReady, session, local, task
  <2>2. PICK s \in {"idle", "take", "maybe"} : pc' = [pc EXCEPT ![Loop] = s]
    BY <1>2 DEF UserInputSpawns, SpawnOther, SpawnTask, Interrupt,
       InterAgentCommunication, Goto
  <2>3. /\ s \in {"idle", "take", "maybe", "queued", "pending", "mailbox", "attach"}
        /\ s \notin {"queued", "pending", "mailbox", "attach"}
        /\ pc[Loop] \notin Aborting \union {"push", "spawn"}
    BY <2>1, <2>2 DEF Aborting
  <2> QED BY <2>1, <2>2, <2>3, LoopMovesBacked
<1>3. ASSUME NEW t \in Turns, NotifyApproval(t) PROVE KInv'
  BY <1>3, TaskStepBacked
<1> QED BY <1>1, <1>2, <1>3 DEF LoopStep, ClientStep

\* take_active_turn: what is pending goes with the turn state to the abort, which
\* has a victim that has not finished; an empty turn has nothing pending.
LEMMA TakeActiveTurnBacked ==
    ASSUME TInv, KInv, TakeActiveTurn
    PROVE  KInv'
<1>0. /\ Tasks \in Seq(Turns) /\ Range(Tasks) \subseteq Turns
      /\ Loop \in Procs /\ Loop \notin Turns /\ Turns \subseteq Procs
  BY TasksShape
<1>1. /\ pc[Loop] = "take" /\ active' = NoTurn /\ turnState' = turnState
      /\ Tasks' = <<>> /\ Range(<<>>) = {} /\ aborted' = aborted
  BY RangeEmpty DEF TakeActiveTurn, Tasks, task
<1>2. CASE Tasks = <<>>
  <2>1. PICK s \in {"queued", "idle"} : pc' = [pc EXCEPT ![Loop] = s]
    BY <1>0, <1>2 DEF TakeActiveTurn, Goto, AfterAbort, Idle
  <2>2. /\ pc'[Loop] \in {"queued", "idle"} /\ \A u \in Turns : pc'[u] = pc[u]
        /\ ref' = ref
    BY <1>0, <1>2, <2>1 DEF TakeActiveTurn, TInv, TypeOK
  <2>3. NoTurnYet' /\ OwnTurn' /\ TasksRun' /\ VictimsOut'
    BY <1>1, <2>2 DEF KInv, NoTurnYet, OwnTurn, TasksRun, VictimsOut
  <2>4. \A i \in Nat : Backed(i) => Backed(i)'
    BY <1>1, <1>2, <2>2 DEF Backed, Aborting
  <2> QED BY <1>1, <2>3, <2>4 DEF KInv, PendingBacked
<1>3. CASE Tasks # <<>>
  <2>1. /\ victims' = [victims EXCEPT ![Loop] = Tasks]
        /\ ref' = [ref EXCEPT ![Loop] = active.state]
        /\ pc' = [pc EXCEPT ![Loop] = "cancel"]
    BY <1>3 DEF TakeActiveTurn, Goto, Tasks
  <2>2. /\ pc'[Loop] = "cancel" /\ victims'[Loop] = Tasks /\ ref'[Loop] = active.state
        /\ \A u \in Turns : pc'[u] = pc[u] /\ ref'[u] = ref[u]
    BY <1>0, <2>1 DEF TInv, TypeOK
  <2>3. \A t \in Range(Tasks) : pc'[t] # "collect"
    BY <1>0, <2>2 DEF KInv, TasksRun, RunSteps
  <2>4. NoTurnYet' /\ OwnTurn' /\ TasksRun' /\ VictimsOut'
    BY <1>1, <2>2, <2>3 DEF KInv, NoTurnYet, OwnTurn, TasksRun, VictimsOut
  <2>5. \A i \in Nat : Backed(i) => Backed(i)'
    BY <1>1, <2>2 DEF Backed, Aborting
  <2> QED BY <1>1, <2>4, <2>5 DEF KInv, PendingBacked
<1> QED BY <1>2, <1>3

\* The steps of an abort; clear_pending ends it and drops what it has taken.
LEMMA AbortStepBacked ==
    ASSUME TInv, RInv, KInv, AbortStep(Loop)
    PROVE  KInv'
<1>0. Loop \in Procs /\ Loop \notin Turns /\ Turns \subseteq Procs
  BY TasksShape
<1>1. CASE CancelTask(Loop) \/ MarkInterrupted(Loop) \/ ReportAborted(Loop)
  <2>1. /\ pc[Loop] \in {"cancel", "mark", "report"}
        /\ active' = active /\ ref' = ref /\ turnState' = turnState
        /\ victims' = victims \/ victims' = [victims EXCEPT ![Loop] = Tail(@)]
        /\ aborted' = aborted
    BY <1>1 DEF CancelTask, MarkInterrupted, ReportAborted, session, local, task
  <2>2. PICK s \in {"cancel", "clear", "wait", "report"} : pc' = [pc EXCEPT ![Loop] = s]
    BY <1>1 DEF CancelTask, MarkInterrupted, ReportAborted, Goto
  <2>3. s \in Aborting /\ pc'[Loop] = s /\ \A u \in Turns : pc'[u] = pc[u]
    BY <1>0, <2>2 DEF Aborting, TInv, TypeOK
  <2>4. Range(victims'[Loop]) \subseteq Range(victims[Loop])
    <3>1. victims'[Loop] = victims[Loop] \/ victims'[Loop] = Tail(victims[Loop])
      BY <1>0, <2>1 DEF TInv, TypeOK
    <3>2. victims[Loop] # <<>>
      BY <1>0, <2>1 DEF TInv, HoldsVictim
    <3>3. Range(Tail(victims[Loop])) \subseteq Range(victims[Loop])
      BY <1>0, <3>2, VictimShape
    <3> QED BY <3>1, <3>3
  <2> QED BY <2>1, <2>3, <2>4, AbortMovesBacked
<1>2. CASE StopTask(Loop)
  <2> DEFINE v == Head(victims[Loop])
  <2>1. /\ pc[Loop] = "wait" /\ active' = active /\ turnState' = turnState
        /\ victims' = victims /\ ref' = ref
        /\ pc' = [pc EXCEPT ![Loop] = "mark"]
        /\ aborted' = [aborted EXCEPT ![v] = TRUE]
    BY <1>2 DEF StopTask, Goto, session, local
  <2>2. v \in Turns /\ v \in Range(victims[Loop])
    <3>1. victims[Loop] # <<>>
      BY <1>0, <2>1 DEF TInv, HoldsVictim
    <3> QED BY <1>0, <3>1, VictimShape
  <2>3. pc'[Loop] = "mark" /\ \A u \in Turns : pc'[u] = pc[u]
    BY <1>0, <2>1 DEF TInv, TypeOK
  <2>4. \A u \in Turns : aborted'[u] => aborted[u] \/ u \in Range(victims[Loop])
    BY <2>1, <2>2 DEF TInv, TypeOK
  <2> HIDE DEF v
  <2>5. "mark" \in Aborting
    BY DEF Aborting
  <2> QED BY <2>1, <2>3, <2>4, <2>5, AbortMovesBacked
<1>3. CASE ClearPending(Loop)
  <2>1. /\ pc[Loop] = "clear" /\ active' = active
        /\ ref' = [ref EXCEPT ![Loop] = 0] /\ victims' = victims /\ aborted' = aborted
        /\ \E s \in {"queued", "maybe", "idle"} : pc' = [pc EXCEPT ![Loop] = s]
    BY <1>0, <1>3 DEF ClearPending, Goto, AfterAbort, Idle, task
  <2>2. /\ active = NoTurn /\ Tasks' = <<>> /\ Range(<<>>) = {}
    BY <2>1, RangeEmpty DEF RInv, NoSession, Aborting, Tasks
  <2>3. /\ pc'[Loop] \in {"queued", "maybe", "idle"}
        /\ \A u \in Turns : pc'[u] = pc[u] /\ ref'[u] = ref[u]
    BY <1>0, <2>1 DEF TInv, TypeOK
  <2>4. NoTurnYet' /\ OwnTurn' /\ TasksRun' /\ VictimsOut'
    BY <2>1, <2>2, <2>3 DEF KInv, NoTurnYet, OwnTurn, TasksRun, VictimsOut
  <2>5. /\ ref[Loop] \in Nat /\ PendingOf(turnState')[ref[Loop]] = <<>>
        /\ \A j \in Nat \ {ref[Loop]} : PendingOf(turnState')[j] = PendingOf(turnState)[j]
    BY <1>0, <1>3, ClearedPending
  <2>6. \A i \in Nat \ {ref[Loop]} : Backed(i) => Backed(i)'
    BY <2>2, <2>3 DEF Backed
  <2> QED BY <2>4, <2>5, <2>6 DEF KInv, PendingBacked
<1> QED BY <1>1, <1>2, <1>3 DEF AbortStep

\* swap_remove of a session's only task leaves none.
LEMMA SwapRemoveOnly ==
    ASSUME NEW t \in Turns
    PROVE  SwapRemove(<<t>>, t) = <<>>
<1> DEFINE s == <<t>>
           i == CHOOSE j \in DOMAIN s : s[j] = t
<1>1. Contains(s, t) /\ s \in Seq(Turns) /\ DOMAIN s = {1} /\ s[1] = t
  BY DEF Contains
<1>2. i = 1
  BY <1>1
<1>3. [s EXCEPT ![i] = Last(s)] \in Seq(Turns) /\ Len([s EXCEPT ![i] = Last(s)]) = 1
  BY <1>1, <1>2 DEF Last
<1>4. SwapRemove(s, t) = Front([s EXCEPT ![i] = Last(s)])
  BY <1>1 DEF SwapRemove
<1> DEFINE u == [s EXCEPT ![i] = Last(s)]
<1> HIDE DEF u, i
<1>5. Front(u) = <<>>
  BY <1>3 DEF Front, u
<1> QED BY <1>4, <1>5 DEF u

\* remove_task: the last task of the session becomes the one that collects what is
\* pending in its turn state.
LEMMA RemoveTaskBacked ==
    ASSUME TInv, SInv, RInv, KInv, ShortPolls, NEW t \in Turns, RemoveTask(t)
    PROVE  KInv'
<1>0. /\ Tasks \in Seq(Turns) /\ Range(Tasks) \subseteq Turns
      /\ Loop \in Procs /\ Loop \notin Turns /\ Turns \subseteq Procs
  BY TasksShape
<1>1. /\ pc[t] = "finish" /\ "finish" \in RunSteps
      /\ turnState' = turnState /\ victims' = victims /\ aborted' = aborted
  BY DEF RemoveTask, RunSteps, task
<1>2. CASE active = NoTurn
  <2>1. /\ active' = active /\ ref' = ref
        /\ pc' = [pc EXCEPT ![t] = "complete"]
    BY <1>2 DEF RemoveTask, Goto
  <2>2. t \notin Range(Tasks)
    BY <1>2, RangeEmpty DEF Tasks
  <2>3. /\ pc[t] # "collect"
        /\ \E s : /\ s # "collect" /\ (s \in RunSteps \/ t \notin Range(Tasks))
                  /\ pc' = [pc EXCEPT ![t] = s]
    BY <1>1, <2>1, <2>2
  <2> QED BY <1>1, <2>1, <2>3, TaskMovesBacked
<1>3. CASE active # NoTurn
  <2>1. pc[Loop] \notin Aborting
    BY <1>3 DEF RInv, NoSession
  <2>2. Tasks = <<t>> /\ Live(t)
    BY <1>1, <2>1 DEF ShortPolls, RInv, Running, Live, Aborting
  <2>3. /\ active.state \in DOMAIN turnState /\ DOMAIN turnState \subseteq Nat
        /\ active \in [state : DOMAIN turnState, tasks : Seq(Turns)]
    BY <1>3, ActiveShape DEF TInv, TypeOK
  <2>4. SwapRemove(Tasks, t) = <<>>
    BY <2>2, SwapRemoveOnly
  <2>5. /\ active' = [active EXCEPT !.tasks = <<>>]
        /\ ref' = [ref EXCEPT ![t] = active.state]
        /\ pc' = [pc EXCEPT ![t] = "collect"]
    BY <1>3, <2>4 DEF RemoveTask, Goto
  <2>6. active' \in [state : Nat, tasks : Seq(Turns)] /\ active'.tasks = <<>>
    <3>1. <<>> \in Seq(Turns)
      OBVIOUS
    <3>2. /\ active' \in [state : DOMAIN turnState, tasks : Seq(Turns)]
          /\ active'.tasks = <<>>
      BY <2>3, <2>5, <3>1
    <3> QED BY <2>3, <3>2
  <2>7. active' # NoTurn /\ Tasks' = <<>> /\ Range(<<>>) = {}
    BY <2>6, NoneAssumption, RangeEmpty DEF Tasks
  <2>8. /\ pc'[t] = "collect" /\ ref'[t] = active.state /\ pc'[Loop] = pc[Loop]
        /\ \A u \in Turns \ {t} : pc'[u] = pc[u] /\ ref'[u] = ref[u]
    BY <1>0, <2>5 DEF TInv, TypeOK
  <2>9. pc[Loop] \notin StartSteps
    BY <2>2, NobodyLives
  <2>10. NoTurnYet' /\ OwnTurn' /\ TasksRun' /\ VictimsOut'
    BY <1>1, <2>1, <2>2, <2>7, <2>8, <2>9
    DEF KInv, NoTurnYet, OwnTurn, TasksRun, VictimsOut, Live, StartSteps, Aborting
  <2>11. \A i \in Nat : Backed(i) => Backed(i)'
    BY <1>1, <2>1, <2>8 DEF Backed
  <2> QED BY <1>1, <2>10, <2>11 DEF KInv, PendingBacked
<1> QED BY <1>2, <1>3

\* The last task takes what is pending in the turn state it has emptied of tasks.
LEMMA CollectPendingBacked ==
    ASSUME TInv, KInv, NEW t \in Turns, CollectPending(t)
    PROVE  KInv'
<1> DEFINE s == ref[t]
<1>0. /\ Tasks \in Seq(Turns) /\ Range(Tasks) \subseteq Turns
      /\ Loop \in Procs /\ Loop \notin Turns /\ Turns \subseteq Procs
      /\ Range(victims[Loop]) \subseteq Turns
  BY TasksShape
<1>1. /\ pc[t] = "collect" /\ pc' = [pc EXCEPT ![t] = "complete"]
      /\ active' = active /\ ref' = ref /\ victims' = victims /\ aborted' = aborted
      /\ SetsPending(turnState', turnState, s, <<>>)
  BY DEF CollectPending, SetsPending, Goto, task
<1>2. s \in DOMAIN turnState /\ turnState \in Seq(TurnStates)
  BY <1>0, <1>1 DEF TInv, TypeOK, HoldsRef
<1> HIDE DEF s
<1>3. /\ s \in Nat /\ PendingOf(turnState')[s] = <<>>
      /\ \A j \in Nat \ {s} : PendingOf(turnState')[j] = PendingOf(turnState)[j]
  BY <1>1, <1>2, PendingSet
<1>4. /\ pc'[t] = "complete" /\ pc'[Loop] = pc[Loop] /\ Tasks' = Tasks
      /\ \A u \in Turns \ {t} : pc'[u] = pc[u]
  BY <1>0, <1>1 DEF TInv, TypeOK, Tasks
<1>5. t \notin Range(Tasks)
  BY <1>1 DEF KInv, TasksRun, RunSteps
<1>6. NoTurnYet' /\ OwnTurn' /\ TasksRun' /\ VictimsOut'
  BY <1>0, <1>1, <1>4, <1>5 DEF KInv, NoTurnYet, OwnTurn, TasksRun, VictimsOut
<1>7. \A i \in Nat \ {s} : Backed(i) => Backed(i)'
  <2>1. \A i : (\E u \in Turns : pc[u] = "collect" /\ ref[u] = i) /\ i # s =>
                  \E u \in Turns : pc'[u] = "collect" /\ ref'[u] = i
    BY <1>1, <1>4 DEF s
  <2> QED BY <1>1, <1>4, <2>1 DEF Backed
<1> QED BY <1>3, <1>6, <1>7 DEF KInv, PendingBacked

\* A finished task releases the turn it emptied, if that is still the active one:
\* nothing is pending in it, for nothing is injected into a turn without tasks.
LEMMA ReleaseTurnBacked ==
    ASSUME TInv, KInv, NEW t \in Turns, ReleaseTurn(t)
    PROVE  KInv'
<1>0. /\ Tasks \in Seq(Turns) /\ Range(Tasks) \subseteq Turns
      /\ Loop \in Procs /\ Loop \notin Turns /\ Turns \subseteq Procs
      /\ Range(victims[Loop]) \subseteq Turns
  BY TasksShape
<1>1. /\ pc[t] = "release" /\ ref' = [ref EXCEPT ![t] = 0]
      /\ turnState' = turnState /\ victims' = victims /\ aborted' = aborted
      /\ pc' = [pc EXCEPT ![t] = "maybe"] \/ pc' = [pc EXCEPT ![t] = "done"]
  BY DEF ReleaseTurn, Goto, task
<1>2. /\ pc'[t] \notin RunSteps \union {"collect"} /\ pc'[Loop] = pc[Loop]
      /\ ref'[t] = 0 /\ ref'[Loop] = ref[Loop]
      /\ \A u \in Turns \ {t} : pc'[u] = pc[u] /\ ref'[u] = ref[u]
  BY <1>0, <1>1 DEF TInv, TypeOK, RunSteps
<1>3. t \notin Range(Tasks)
  BY <1>1 DEF KInv, TasksRun, RunSteps
<1>4. VictimsOut'
  BY <1>0, <1>1, <1>2 DEF KInv, VictimsOut
<1>5. CASE active # NoTurn /\ Tasks = <<>> /\ active.state = ref[t]
  <2>1. active' = NoTurn /\ Tasks' = <<>> /\ Range(<<>>) = {}
    BY <1>5, RangeEmpty DEF ReleaseTurn, Tasks
  <2>2. pc[Loop] \notin {"push", "spawn"}
    BY <1>5 DEF KInv, OwnTurn
  <2>3. NoTurnYet' /\ OwnTurn' /\ TasksRun'
    BY <1>2, <2>1, <2>2 DEF NoTurnYet, OwnTurn, TasksRun
  <2>4. \A i \in Nat : Backed(i) => Backed(i)'
    BY <1>1, <1>2, <1>5, <2>2 DEF Backed
  <2> QED BY <1>1, <1>4, <2>3, <2>4 DEF KInv, PendingBacked
<1>6. CASE ~(active # NoTurn /\ Tasks = <<>> /\ active.state = ref[t])
  <2>1. active' = active /\ Tasks' = Tasks
    BY <1>6 DEF ReleaseTurn, Tasks
  <2>2. active # NoTurn => active.state # 0
    BY ActiveShape DEF TInv, TypeOK
  <2>3. NoTurnYet' /\ OwnTurn' /\ TasksRun'
    BY <1>0, <1>2, <1>3, <2>1, <2>2 DEF KInv, NoTurnYet, OwnTurn, TasksRun
  <2>4. \A i \in Nat : Backed(i) => Backed(i)'
    BY <1>1, <1>2, <2>1 DEF Backed
  <2> QED BY <1>1, <1>4, <2>3, <2>4 DEF KInv, PendingBacked
<1> QED BY <1>5, <1>6

\* The loop looks for pending work, and takes what there is for the turn it starts.
LEMMA TakesBacked ==
    ASSUME TInv, SInv, KInv,
           \/ TakeQueued(Loop) \/ StartTakesPending(Loop) \/ StartDrainsMailbox(Loop)
    PROVE  KInv'
<1>1. /\ pc[Loop] \in {"queued", "pending", "mailbox"}
      /\ active' = active /\ ref' = ref /\ victims' = victims /\ aborted' = aborted
  BY DEF TakeQueued, StartTakesPending, TakePending, StartDrainsMailbox, DrainMailbox,
     task
<1>2. active = NoTurn
  BY <1>1 DEF KInv, NoTurnYet
<1>3. turnState' = turnState
  BY <1>2 DEF TakeQueued, StartTakesPending, TakePending, StartDrainsMailbox, DrainMailbox
<1>4. PICK s \in {"pending", "mailbox", "attach"} : pc' = [pc EXCEPT ![Loop] = s]
  BY <1>2 DEF TakeQueued, StartTakesPending, TakePending, StartDrainsMailbox,
     DrainMailbox, Goto
<1>5. /\ s \in {"idle", "take", "maybe", "queued", "pending", "mailbox", "attach"}
      /\ pc[Loop] \notin Aborting \union {"push", "spawn"}
  BY <1>1, <1>4 DEF Aborting
<1> QED BY <1>1, <1>2, <1>3, <1>4, <1>5, LoopMovesBacked

\* The turn state start_task attaches to is new: no other process has an Arc of it.
LEMMA AttachBacked ==
    ASSUME TInv, KInv, AttachTurnState(Loop)
    PROVE  KInv'
<1> DEFINE n == Len(turnState) + 1
<1>0. /\ Loop \in Procs /\ Loop \notin Turns /\ Turns \subseteq Procs
  BY TasksShape
<1>1. /\ pc[Loop] = "attach" /\ pc' = [pc EXCEPT ![Loop] = "push"]
      /\ active' = GetOrInsert /\ turnState' = Allocated
      /\ ref' = [ref EXCEPT ![Loop] = GetOrInsert.state]
      /\ victims' = victims /\ aborted' = aborted
  BY DEF AttachTurnState, Goto, task
<1>2. active = NoTurn
  BY <1>1 DEF KInv, NoTurnYet
<1>3. GetOrInsert = [state |-> n, tasks |-> <<>>] /\ n \in Nat /\ n # 0
  BY <1>2 DEF GetOrInsert, TInv, TypeOK
<1>4. GetOrInsert \in [state : Nat, tasks : Seq(Turns)]
  BY <1>3
<1>5. /\ active' # NoTurn /\ active'.state = n /\ Tasks' = <<>> /\ Range(<<>>) = {}
  BY <1>1, <1>3, <1>4, NoneAssumption, RangeEmpty DEF Tasks
<1>6. /\ pc'[Loop] = "push" /\ ref'[Loop] = n
      /\ \A u \in Turns : pc'[u] = pc[u] /\ ref'[u] = ref[u]
  BY <1>0, <1>1, <1>3 DEF TInv, TypeOK
<1>7. \A u \in Turns : ref[u] # n
  <2>1. turnState \in Seq(TurnStates) /\ n \notin DOMAIN turnState
    BY DEF TInv, TypeOK
  <2> QED BY <1>0, <1>3, <2>1 DEF TInv, TypeOK
<1> HIDE DEF n
<1>8. NoTurnYet' /\ OwnTurn' /\ TasksRun' /\ VictimsOut'
  BY <1>1, <1>5, <1>6, <1>7 DEF KInv, NoTurnYet, OwnTurn, TasksRun, VictimsOut
<1>9. PendingOf(turnState') = PendingOf(turnState)
  BY <1>1, PendingAllocated DEF TInv
<1>10. \A i \in Nat : Backed(i) => Backed(i)'
  BY <1>1, <1>2, <1>6 DEF Backed, Aborting
<1> QED BY <1>8, <1>9, <1>10 DEF KInv, PendingBacked

\* What was taken becomes pending in the active turn, which is about to get a task.
LEMMA PushBacked ==
    ASSUME TInv, KInv, PushPending(Loop)
    PROVE  KInv'
<1> DEFINE s == ref[Loop]
           new == turnState[s].pending \o hand[Loop]
<1>0. /\ Tasks \in Seq(Turns) /\ Range(Tasks) \subseteq Turns
      /\ Loop \in Procs /\ Loop \notin Turns /\ Turns \subseteq Procs
  BY TasksShape
<1>1. /\ pc[Loop] = "push" /\ pc' = [pc EXCEPT ![Loop] = "spawn"]
      /\ SetsPending(turnState', turnState, s, new)
      /\ active' = active /\ ref' = [ref EXCEPT ![Loop] = 0]
      /\ victims' = victims /\ aborted' = aborted
  BY DEF PushPending, SetsPending, Goto, task
<1>2. s \in DOMAIN turnState /\ turnState \in Seq(TurnStates)
  BY <1>0, <1>1 DEF TInv, TypeOK, HoldsRef
<1>3. active # NoTurn /\ active.state = s /\ \A u \in Turns : ref[u] # active.state
  BY <1>1 DEF KInv, OwnTurn
<1> HIDE DEF s, new
<1>4. \A j \in Nat \ {s} : PendingOf(turnState')[j] = PendingOf(turnState)[j]
  BY <1>1, <1>2, PendingSet
<1>5. /\ pc'[Loop] = "spawn" /\ Tasks' = Tasks
      /\ \A u \in Turns : pc'[u] = pc[u] /\ ref'[u] = ref[u]
  BY <1>0, <1>1 DEF TInv, TypeOK, Tasks
<1>6. NoTurnYet' /\ OwnTurn' /\ TasksRun' /\ VictimsOut'
  BY <1>0, <1>1, <1>3, <1>5 DEF KInv, NoTurnYet, OwnTurn, TasksRun, VictimsOut
<1>7. \A i \in Nat : (i = s \/ Backed(i)) => Backed(i)'
  BY <1>1, <1>3, <1>5 DEF Backed, Aborting
<1> QED BY <1>4, <1>6, <1>7 DEF KInv, PendingBacked

\* The turn of the loop gets its task, which will take what is pending in it.
LEMMA SpawnAndAddBacked ==
    ASSUME TInv, SInv, AInv, KInv, SpawnAndAdd(Loop)
    PROVE  KInv'
<1> DEFINE u == starting[Loop]
<1>0. /\ Tasks \in Seq(Turns) /\ Range(Tasks) \subseteq Turns
      /\ Loop \in Procs /\ Loop \notin Turns /\ Turns \subseteq Procs
  BY TasksShape
<1>1. /\ pc[Loop] = "spawn" /\ u \in Turns /\ u # NoTurn
      /\ ref' = ref /\ victims' = victims /\ aborted' = aborted
  BY <1>0, ProcsAssumption DEF SpawnAndAdd, TInv, HoldsStart, StartSteps, task
<1>2. pc[u] = "none"
  BY <1>0, <1>1 DEF AInv, FreshStart
<1>3. /\ pc'[u] = "start" /\ pc'[Loop] = "idle"
      /\ \A t \in Turns \ {u} : pc'[t] = pc[t]
  BY <1>0, <1>1 DEF SpawnAndAdd, Idle, TInv, TypeOK
<1>4. active # NoTurn
  BY <1>1 DEF KInv, OwnTurn
<1>5. GetOrInsert = active /\ turnState' = turnState /\ Tasks = <<>>
  BY <1>1, <1>4 DEF SpawnAndAdd, GetOrInsert, Allocated, SInv, EmptyWhileStarting, StartSteps
<1>6. active.tasks = <<>> /\ active \in [state : DOMAIN turnState, tasks : Seq(Turns)]
  BY <1>4, <1>5, ActiveShape DEF Tasks, TInv
<1>7. active' = [active EXCEPT !.tasks = <<u>>] /\ <<u>> \in Seq(Turns)
  BY <1>1, <1>5, <1>6 DEF SpawnAndAdd
<1>8. /\ active' \in [state : DOMAIN turnState, tasks : Seq(Turns)]
      /\ active'.tasks = <<u>> /\ active'.state = active.state
  BY <1>6, <1>7
<1>9. DOMAIN turnState \subseteq Nat
  BY DEF TInv, TypeOK
<1>10. active' # NoTurn /\ Tasks' = <<u>> /\ <<u>> # <<>> /\ Range(<<u>>) = {u}
  BY <1>8, <1>9, NoneAssumption DEF Tasks, Range
<1> HIDE DEF u
<1>11. NoTurnYet' /\ OwnTurn' /\ TasksRun' /\ VictimsOut'
  BY <1>1, <1>3, <1>10 DEF KInv, NoTurnYet, OwnTurn, TasksRun, VictimsOut, RunSteps
<1>12. \A i \in Nat : Backed(i) => Backed(i)'
  BY <1>1, <1>2, <1>3, <1>8, <1>10 DEF Backed, Aborting
<1> QED BY <1>5, <1>11, <1>12 DEF KInv, PendingBacked

\* The start of a turn, and the look for pending work before it.
LEMMA StartStepBacked ==
    ASSUME Trigger = {}, TInv, SInv, AInv, RInv, KInv,
           NEW d \in {Loop} \union Turns, StartStep(d)
    PROVE  KInv'
<1>0. d \in Procs /\ Loop \notin Turns
  BY ProcsAssumption DEF Procs
<1>1. CASE CheckPendingWork(d)
  <2>1. /\ pc[d] = "maybe" /\ pc' = [pc EXCEPT ![d] = Idle(d)]
        /\ UNCHANGED <<active, turnState, victims, ref, aborted>>
    BY <1>1 DEF SInv, CheckPendingWork, NothingQueued, Goto, session, local, task
  <2>2. CASE d \in Turns
    <3>1. Idle(d) = "done"
      BY <2>2 DEF Idle
    <3>2. d \notin Range(Tasks)
      BY <2>1 DEF KInv, TasksRun, RunSteps
    <3>3. /\ pc[d] # "collect"
          /\ \E s : /\ s # "collect" /\ (s \in RunSteps \/ d \notin Range(Tasks))
                    /\ pc' = [pc EXCEPT ![d] = s]
      BY <2>1, <3>1, <3>2
    <3> QED BY <2>1, <2>2, <3>3, TaskMovesBacked
  <2>3. CASE d \notin Turns
    <3>1. d = Loop /\ Idle(d) = "idle"
      BY <2>3 DEF Idle
    <3>2. pc[Loop] \notin Aborting \union {"push", "spawn"}
      BY <2>1, <3>1 DEF Aborting
    <3> QED BY <2>1, <3>1, <3>2, LoopMovesBacked
  <2> QED BY <2>2, <2>3
<1>2. CASE (\E t \in Turns : ReserveTurn(d, t)) \/ SkipReserved(d)
  BY <1>0, <1>2 DEF SInv, ReserveTurn, SkipReserved, NothingQueued
<1>3. CASE \/ TakeQueued(d) \/ StartTakesPending(d) \/ StartDrainsMailbox(d)
           \/ AttachTurnState(d) \/ PushPending(d) \/ SpawnAndAdd(d)
  <2>1. pc[d] \in StartSteps
    BY <1>3 DEF TakeQueued, StartTakesPending, TakePending, StartDrainsMailbox,
       DrainMailbox, AttachTurnState, PushPending, SpawnAndAdd, StartSteps
  <2>2. d = Loop
    BY <1>0, <2>1 DEF SInv, OnlyLoopStarts
  <2> QED BY <1>3, <2>2, TakesBacked, AttachBacked, PushBacked, SpawnAndAddBacked
<1> QED BY <1>1, <1>2, <1>3 DEF StartStep

\* An aborted task is not of the session any more and does not collect.
LEMMA DropTaskBacked ==
    ASSUME TInv, AInv, KInv, NEW t \in Turns, DropTask(t)
    PROVE  KInv'
<1>0. /\ Tasks \in Seq(Turns) /\ Range(Tasks) \subseteq Turns
      /\ Loop \in Procs /\ Loop \notin Turns /\ Turns \subseteq Procs
      /\ Range(victims[Loop]) \subseteq Turns
  BY TasksShape
<1>1. /\ aborted[t] /\ pc' = [pc EXCEPT ![t] = "dead"]
      /\ ref' = [ref EXCEPT ![t] = 0]
      /\ UNCHANGED <<active, turnState, victims, aborted>>
  BY DEF DropTask, Goto, session
<1>2. t \notin Range(Tasks) /\ pc[t] # "collect"
  BY <1>1 DEF AInv, Detached, KInv, VictimsOut
<1>3. /\ pc'[t] = "dead" /\ pc'[Loop] = pc[Loop] /\ Tasks' = Tasks
      /\ ref'[t] = 0 /\ ref'[Loop] = ref[Loop]
      /\ \A u \in Turns \ {t} : pc'[u] = pc[u] /\ ref'[u] = ref[u]
  BY <1>0, <1>1 DEF TInv, TypeOK, Tasks
<1>4. active # NoTurn => active.state # 0
  BY ActiveShape DEF TInv, TypeOK
<1>5. NoTurnYet' /\ OwnTurn' /\ TasksRun' /\ VictimsOut'
  BY <1>0, <1>1, <1>2, <1>3, <1>4 DEF KInv, NoTurnYet, OwnTurn, TasksRun, VictimsOut
<1>6. \A i \in Nat : Backed(i) => Backed(i)'
  BY <1>1, <1>2, <1>3 DEF Backed
<1> QED BY <1>1, <1>5, <1>6 DEF KInv, PendingBacked

\* Every step of such a session keeps what is pending backed.
LEMMA NextBacked ==
    ASSUME Notes = {}, Grants = {}, Trigger = {}, Guardians = {}, ShortPolls,
           TInv, SInv, AInv, RInv, KInv, [Next]_vars
    PROVE  KInv'
<1>1. CASE LoopStep \/ ClientStep
  BY <1>1, CallsBacked
<1>2. ASSUME NEW d \in Procs \ Turns, DriverStep(d) PROVE KInv'
  <2>1. d = Loop
    BY DEF Procs
  <2>2. CASE StartStep(Loop)
    BY <2>2, StartStepBacked
  <2>3. CASE QueueForNextTurn
    BY <2>3 DEF SInv, QueueForNextTurn, NothingQueued, Procs
  <2> QED
    BY <1>2, <2>1, <2>2, <2>3, TakeActiveTurnBacked, AbortStepBacked DEF DriverStep
<1>3. ASSUME NEW t \in Turns, TaskStep(t) PROVE KInv'
  <2>1. CASE StartStep(t)
    BY <2>1, StartStepBacked
  <2> QED
    BY <1>3, <2>1, TaskStepBacked, RemoveTaskBacked, CollectPendingBacked,
       ReleaseTurnBacked DEF TaskStep
<1>4. ASSUME NEW t \in Turns, DropTask(t) PROVE KInv'
  BY <1>4, DropTaskBacked
<1>5. CASE UNCHANGED vars
  <2>1. Tasks' = Tasks /\ PendingOf(turnState') = PendingOf(turnState)
    BY <1>5 DEF vars, session, Tasks
  <2> QED BY <1>5, <2>1 DEF vars, session, local, task, KInv, NoTurnYet, OwnTurn,
             TasksRun, VictimsOut, PendingBacked, Backed
<1> QED BY <1>1, <1>2, <1>3, <1>4, <1>5 DEF Next, Quiescent

\* A turn state that somebody will take from is held.
LEMMA BackedHeld ==
    ASSUME TInv, NEW i \in DOMAIN turnState, Backed(i) PROVE i \in Held
<1>1. Loop \in Procs /\ Turns \subseteq Procs
  BY DEF Procs
<1> QED BY <1>1 DEF Backed, Held

-----------------------------------------------------------------------------
(* The theorems *)

\* Where an input is that was accepted and not dropped on purpose.
OnItsWay(i) ==
    \/ i \in Range(history) \union Range(queued) \union Range(mailbox)
    \/ \E d \in Procs : i \in Range(hand[d])
    \/ \E t \in Turns : i \in Range(input[t])
PendingAnywhere(i) == \E s \in DOMAIN turnState : i \in Range(turnState[s].pending)

LEMMA FoundSomewhere ==
    ASSUME UInv, NEW i \in Inputs, i \notin unsent \union dropped
    PROVE  OnItsWay(i) \/ PendingAnywhere(i)
<1>1. PICK p \in AllPlaces : i \in Range(Shelf[p])
  BY DEF UInv, Found
<1>2. CASE p \in {Recorded, Queue, Mailbox}
  BY <1>1, <1>2, ShelfAt DEF OnItsWay
<1>3. CASE \E d \in Procs : p = HandOf(d)
  BY <1>1, <1>3, ShelfAt DEF OnItsWay
<1>4. CASE \E t \in Turns : p = InputOf(t)
  BY <1>1, <1>4, ShelfAt DEF OnItsWay
<1>5. CASE \E s \in Nat : p = PendingIn(s)
  <2>1. PICK s \in Nat : p = PendingIn(s)
    BY <1>5
  <2>2. i \in Range(PendingOf(turnState)[s])
    BY <1>1, <2>1, ShelfAt
  <2>3. PendingOf(turnState)[s] # <<>>
    BY <2>2, RangeEmpty
  <2>4. s \in DOMAIN turnState /\ PendingOf(turnState)[s] = turnState[s].pending
    BY <2>3 DEF PendingOf
  <2> QED BY <2>2, <2>4 DEF PendingAnywhere
<1> QED BY <1>2, <1>3, <1>4, <1>5, PlaceCases

\* In any session, whatever is injected, approved or interrupted, an input can be lost
\* in one way only: it is pending in a turn state when the last Arc of that goes.  No
\* operation forgets what it has taken, and none overwrites what another left.
THEOREM OnlyLostWithItsTurnTheorem ==
    Spec => [](\A i \in Inputs \ (unsent \union dropped) :
                  OnItsWay(i) \/ PendingAnywhere(i))
<1>1. Init => TInv /\ AInv /\ HInv /\ UInv
  BY InitType, InitAbort, InitShelf
<1>2. TInv /\ AInv /\ HInv /\ UInv /\ [Next]_vars => (TInv /\ AInv /\ HInv /\ UInv)'
  BY NextType, NextAbort, NextHeld, NextShelf
<1>3. TInv /\ AInv /\ HInv /\ UInv =>
        (\A i \in Inputs \ (unsent \union dropped) :
            OnItsWay(i) \/ PendingAnywhere(i))
  BY FoundSomewhere
<1> QED BY <1>1, <1>2, <1>3, PTL DEF Spec

\* In a session whose turns only the loop starts and aborts (no approved denials, no
\* trigger_turn mail, no guardian) and into whose turns only clients steer (nothing is
\* injected), no prompt and no mail is lost if the last poll of an aborted task is
\* over before the abort is: at every moment it is unsent, dropped on purpose by an
\* abort or a hook, or where somebody will take it.  Without the last condition a task
\* that outlives its abort may take over and release the next turn's state while the
\* loop is about to fill it.
THEOREM NothingVanishesTheorem ==
    ASSUME Notes = {}, Grants = {}, Trigger = {}, Guardians = {}
    PROVE  Spec /\ []ShortPolls => []NothingVanishes
<1> DEFINE I == TInv /\ SInv /\ AInv /\ RInv /\ HInv /\ UInv /\ KInv
<1>1. Init => I
  BY InitType, InitSingle, InitAbort, InitRunning, InitShelf, InitBacked
<1>2. ShortPolls /\ I /\ [Next]_vars => I'
  BY NextType, NextSingle, NextAbort, NextRunning, NextHeld, NextShelf, NextBacked
<1>3. I => NothingVanishes
  <2> SUFFICES ASSUME TInv, UInv, KInv, NEW i \in Inputs, i \notin unsent \union dropped
               PROVE  \/ OnItsWay(i)
                      \/ \E s \in Held : i \in Range(turnState[s].pending)
    BY DEF NothingVanishes, OnItsWay
  <2>1. CASE OnItsWay(i)
    BY <2>1
  <2>2. CASE PendingAnywhere(i)
    <3>1. PICK s \in DOMAIN turnState : i \in Range(turnState[s].pending)
      BY <2>2 DEF PendingAnywhere
    <3>2. s \in Nat /\ PendingOf(turnState)[s] = turnState[s].pending
      BY PendingAt DEF TInv
    <3>3. PendingOf(turnState)[s] # <<>>
      BY <3>1, <3>2, RangeEmpty
    <3>4. s \in Held
      BY <3>2, <3>3, BackedHeld DEF KInv, PendingBacked
    <3> QED BY <3>1, <3>4
  <2> QED BY <2>1, <2>2, FoundSomewhere
<1> QED BY <1>1, <1>2, <1>3, PTL DEF Spec

=============================================================================
