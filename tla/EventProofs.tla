----------------------------- MODULE EventProofs ----------------------------
(***************************************************************************)
(* The events a Responses client is sent: every operator of the emitter    *)
(* sends what such a client can take next, and leaves the emitter with     *)
(* what the client then has.                                               *)
(***************************************************************************)
EXTENDS StreamProperties, FiniteSetTheorems, TLAPS

USE StreamAssumption

Closing == INSTANCE FoldProofs WITH Op <- closeItem
Calling == INSTANCE FoldProofs WITH Op <- callPiece
Placing == INSTANCE FoldProofs WITH Op <- place
Emitting == INSTANCE FoldProofs WITH Op <- ReEmitFrame
Parting == INSTANCE FoldProofs WITH Op <- GeminiPart
Reading == INSTANCE FoldProofs WITH Op <- Reads
Joining == INSTANCE FoldProofs WITH Op <- Joined
Adding == INSTANCE FoldProofs WITH Op <- add

-----------------------------------------------------------------------------
(* Lists *)

LEMMA ListIs ==
    ASSUME NEW n \in Nat, NEW s, s = [i \in 1..n |-> s[i]]
    PROVE  IsList(s) /\ Len(s) = n /\ DOMAIN s = 1..n
<1>1. DOMAIN s = 1..n
  OBVIOUS
<1>2. PICK S : S = {s[j] : j \in DOMAIN s}
  BY Zenon
<1>3. \A i \in 1..n : s[i] \in S
  BY <1>1, <1>2
<1>4. s \in [1..n -> S]
  BY <1>3, Zenon
<1>5. s \in Seq(S) /\ Len(s) = n
  BY <1>1, <1>4
<1>. QED  BY <1>1, <1>2, <1>5 DEF IsList

LEMMA SeqIsAList ==
    ASSUME NEW S, NEW s \in Seq(S)
    PROVE  IsList(s)
<1>1. Len(s) \in Nat /\ s = [i \in 1..Len(s) |-> s[i]]
  OBVIOUS
<1>. QED  BY <1>1, ListIs

LEMMA ListHas ==
    ASSUME NEW s, IsList(s)
    PROVE  Len(s) \in Nat /\ DOMAIN s = 1..Len(s) /\ s = [i \in 1..Len(s) |-> s[i]]
  BY DEF IsList

LEMMA ListGrows ==
    ASSUME NEW s, IsList(s), NEW x
    PROVE  /\ IsList(Append(s, x)) /\ Append(s, x) # <<>>
           /\ Len(s) \in Nat /\ Len(Append(s, x)) = Len(s) + 1
           /\ DOMAIN s = 1..Len(s) /\ DOMAIN Append(s, x) = 1..(Len(s) + 1)
           /\ Append(s, x)[Len(s) + 1] = x
           /\ \A i \in 1..Len(s) : Append(s, x)[i] = s[i]
<1>. DEFINE t == Append(s, x)
            S == {s[i] : i \in DOMAIN s} \cup {x}
<1>1. /\ Len(s) \in Nat /\ DOMAIN s = 1..Len(s)
      /\ s \in [1..Len(s) -> {s[i] : i \in DOMAIN s}]
  BY DEF IsList
<1>2. s \in Seq(S)
  <2>1. \A i \in DOMAIN s : s[i] \in S
    BY Zenon
  <2>. HIDE DEF S
  <2>2. s \in [1..Len(s) -> S]
    BY <1>1, <2>1
  <2>. QED  BY <1>1, <2>2
<1>3. x \in S
  OBVIOUS
<1>. HIDE DEF S
<1>4. /\ t \in Seq(S) /\ Len(t) = Len(s) + 1 /\ DOMAIN t = 1..(Len(s) + 1)
      /\ t[Len(s) + 1] = x /\ \A i \in 1..Len(s) : t[i] = s[i]
  BY <1>2, <1>3
<1>. HIDE DEF t
<1>5. Len(s) + 1 \in Nat /\ Len(s) + 1 >= 1
  BY <1>1
<1>6. IsList(t)
  BY <1>4, SeqIsAList
<1>7. t # <<>>
  BY <1>4, <1>5
<1>. QED  BY <1>1, <1>4, <1>6, <1>7 DEF t

LEMMA ListShrinks ==
    ASSUME NEW s, IsList(s), s # <<>>
    PROVE  /\ IsList(Tail(s)) /\ Len(s) \in Nat \ {0} /\ Len(Tail(s)) = Len(s) - 1
           /\ Head(s) = s[1] /\ \A i \in 1..(Len(s) - 1) : Tail(s)[i] = s[i + 1]
<1>. DEFINE t == Tail(s)
            S == {s[i] : i \in DOMAIN s}
<1>1. s \in Seq(S)
  BY DEF IsList
<1>. HIDE DEF S
<1>2. /\ t \in Seq(S) /\ Len(s) \in Nat \ {0} /\ Len(t) = Len(s) - 1
      /\ Head(s) = s[1] /\ \A i \in 1..(Len(s) - 1) : t[i] = s[i + 1]
  BY <1>1
<1>. HIDE DEF t
<1>4. IsList(t)
  BY <1>2, SeqIsAList
<1>. QED  BY <1>2, <1>4 DEF t

LEMMA NothingIsAList == IsList(<<>>) /\ Len(<<>>) = 0
  BY DEF IsList


LEMMA ListIn ==
    ASSUME NEW s, IsList(s), NEW S, \A i \in DOMAIN s : s[i] \in S
    PROVE  s \in Seq(S)
<1>1. /\ Len(s) \in Nat /\ DOMAIN s = 1..Len(s)
      /\ s \in [1..Len(s) -> {s[i] : i \in DOMAIN s}]
  BY DEF IsList
<1>2. s \in [1..Len(s) -> S]
  BY <1>1
<1>. QED  BY <1>1, <1>2

LEMMA ListsJoin ==
    ASSUME NEW s, IsList(s), NEW t, IsList(t)
    PROVE  /\ IsList(s \o t) /\ Len(s) \in Nat /\ Len(t) \in Nat /\ Len(s \o t) = Len(s) + Len(t)
           /\ \A i \in 1..Len(s) : (s \o t)[i] = s[i]
           /\ \A i \in 1..Len(t) : (s \o t)[Len(s) + i] = t[i]
           /\ \A i \in (Len(s) + 1)..(Len(s) + Len(t)) : (s \o t)[i] = t[i - Len(s)]
           /\ SubSeq(s \o t, 1, Len(s)) = s
<1>. DEFINE S == {s[i] : i \in DOMAIN s} \cup {t[i] : i \in DOMAIN t}
            u == s \o t
<1>1. /\ Len(s) \in Nat /\ DOMAIN s = 1..Len(s) /\ s \in [1..Len(s) -> {s[i] : i \in DOMAIN s}]
      /\ Len(t) \in Nat /\ DOMAIN t = 1..Len(t) /\ t \in [1..Len(t) -> {t[i] : i \in DOMAIN t}]
  BY DEF IsList
<1>2. \A i \in DOMAIN s : s[i] \in S
  BY Zenon
<1>3. \A i \in DOMAIN t : t[i] \in S
  BY Zenon
<1>. HIDE DEF S
<1>4. s \in Seq(S) /\ t \in Seq(S)
  BY <1>2, <1>3, ListIn
<1>5. /\ u \in Seq(S) /\ Len(u) = Len(s) + Len(t)
      /\ \A i \in 1..Len(s) : u[i] = s[i]
      /\ \A i \in (Len(s) + 1)..(Len(s) + Len(t)) : u[i] = t[i - Len(s)]
  BY <1>4
<1>6. SubSeq(u, 1, Len(s)) = s
  BY <1>4, <1>5
<1>. HIDE DEF u
<1>7. IsList(u)
  BY <1>5, SeqIsAList
<1>8. \A i \in 1..Len(t) : u[Len(s) + i] = t[i]
  <2>. TAKE i \in 1..Len(t)
  <2>1. Len(s) + i \in (Len(s) + 1)..(Len(s) + Len(t)) /\ (Len(s) + i) - Len(s) = i
    BY <1>1
  <2>. QED  BY <1>5, <2>1, Zenon
<1>. QED  BY <1>1, <1>5, <1>6, <1>7, <1>8, Zenon DEF u

\* A list with an element replaced.
Changed(s, i, x) == [s EXCEPT ![i] = x]
LEMMA ListChanges ==
    ASSUME NEW s, IsList(s), NEW i \in 1..Len(s), NEW x
    PROVE  /\ IsList(Changed(s, i, x)) /\ Len(Changed(s, i, x)) = Len(s) /\ Len(s) \in Nat
           /\ Changed(s, i, x)[i] = x /\ \A j \in 1..Len(s) : j # i => Changed(s, i, x)[j] = s[j]
<1>1. Len(s) \in Nat /\ DOMAIN s = 1..Len(s)
  BY ListHas
<1>2. PICK t : t = Changed(s, i, x)
  OBVIOUS
<1>3. DOMAIN t = 1..Len(s) /\ t[i] = x /\ \A j \in 1..Len(s) : j # i => t[j] = s[j]
  BY <1>1, <1>2 DEF Changed
<1>4. t = [j \in 1..Len(s) |-> t[j]]
  BY <1>1, <1>2, <1>3, Zenon DEF Changed
<1>5. IsList(t) /\ Len(t) = Len(s)
  BY <1>1, <1>4, ListIs
<1>. QED  BY <1>1, <1>2, <1>3, <1>5

-----------------------------------------------------------------------------
(* The client *)

Phases == {"new", "open", "complete", "failed", "broken"}
IsSeen(s) == DOMAIN s = {"acc", "next", "phase", "items", "final"} /\ s.phase \in Phases

IsHeld(x) == DOMAIN x = {"kind", "id", "own", "text", "sig", "done"} /\ IsList(x.text) /\ x.done \in BOOLEAN
IsClient(t) ==
    /\ IsSeen(t) /\ t.next \in Nat
    /\ IsList(t.items) /\ \A i \in 1..Len(t.items) : IsHeld(t.items[i])

LEMMA TakenIs ==
    ASSUME NEW t, IsSeen(t), NEW f
    PROVE  /\ IsSeen(TakeEvent(t, f)) /\ TakeEvent(t, f).next = f.seq + 1
           /\ TakeEvent(t, f).phase = PhaseAfter(t, f) /\ TakeEvent(t, f).items = ItemsAfter(t.items, f)
<1>1. PhaseAfter(t, f) \in Phases
  BY DEF IsSeen, Phases, PhaseAfter
<1>. DEFINE x == IF f.type \in LastEvents THEN [status |-> f.type, output |-> f.fields.output] ELSE t.final
<1>3. TakeEvent(t, f) = [t EXCEPT !.next = f.seq + 1, !.phase = PhaseAfter(t, f),
                                  !.items = ItemsAfter(t.items, f), !.final = x]
  BY Zenon DEF TakeEvent
<1>. HIDE DEF x
<1>. QED  BY <1>1, <1>3 DEF IsSeen

\* What a client has after an event it can take.
LEMMA Created ==
    ASSUME NEW t, IsClient(t), NEW f, Proper(t, f), f.type = "created"
    PROVE  TakeEvent(t, f).phase = "open" /\ TakeEvent(t, f).items = t.items
<1>1. PhaseAfter(t, f) = "open" /\ ItemsAfter(t.items, f) = t.items
  BY DEF PhaseAfter, ItemsAfter, FitsIn, LastEvents
<1>. QED  BY <1>1, TakenIs, Zenon DEF IsClient

LEMMA Noted ==
    ASSUME NEW t, IsClient(t), NEW f, Proper(t, f),
           f.type \in {"in_progress", "part_added", "part_done", "text_done"}
    PROVE  TakeEvent(t, f).phase = "open" /\ TakeEvent(t, f).items = t.items /\ t.phase = "open"
<1>1. FitsIn(t.items, f) /\ t.phase = "open"
  BY ListHas DEF FitsIn, Proper, Continues, IsClient, LastEvents
<1>2. PhaseAfter(t, f) = "open" /\ ItemsAfter(t.items, f) = t.items
  BY <1>1 DEF PhaseAfter, ItemsAfter, LastEvents
<1>. QED  BY <1>1, <1>2, TakenIs, Zenon DEF IsClient

LEMMA Announced ==
    ASSUME NEW t, IsClient(t), NEW f, Proper(t, f), f.type = "item_added"
    PROVE  TakeEvent(t, f).phase = "open" /\ TakeEvent(t, f).items = TakeItem(t.items, f.fields) /\ t.phase = "open"
<1>1. FitsIn(t.items, f) /\ t.phase = "open"
  BY DEF FitsIn, Proper, Continues, LastEvents
<1>2. PhaseAfter(t, f) = "open" /\ ItemsAfter(t.items, f) = TakeItem(t.items, f.fields)
  BY <1>1 DEF PhaseAfter, ItemsAfter, LastEvents
<1>. QED  BY <1>1, <1>2, TakenIs, Zenon DEF IsClient

LEMMA Grown ==
    ASSUME NEW t, IsClient(t), NEW f, Proper(t, f), f.type = "delta"
    PROVE  TakeEvent(t, f).phase = "open" /\ TakeEvent(t, f).items = TakeDelta(t.items, f.fields) /\ t.phase = "open"
<1>1. FitsIn(t.items, f) /\ t.phase = "open"
  BY ListHas DEF FitsIn, Proper, Continues, LastEvents, IsClient
<1>2. PhaseAfter(t, f) = "open" /\ ItemsAfter(t.items, f) = TakeDelta(t.items, f.fields)
  BY <1>1 DEF PhaseAfter, ItemsAfter, LastEvents
<1>. QED  BY <1>1, <1>2, TakenIs, Zenon DEF IsClient

LEMMA Finished ==
    ASSUME NEW t, IsClient(t), NEW f, Proper(t, f), f.type = "item_done"
    PROVE  TakeEvent(t, f).phase = "open" /\ TakeEvent(t, f).items = TakeDone(t.items, f.fields) /\ t.phase = "open"
<1>1. FitsIn(t.items, f) /\ t.phase = "open"
  BY ListHas DEF FitsIn, Proper, Continues, LastEvents, IsClient
<1>2. PhaseAfter(t, f) = "open" /\ ItemsAfter(t.items, f) = TakeDone(t.items, f.fields)
  BY <1>1 DEF PhaseAfter, ItemsAfter, LastEvents
<1>. QED  BY <1>1, <1>2, TakenIs, Zenon DEF IsClient

LEMMA Completed ==
    ASSUME NEW t, IsClient(t), NEW f, Proper(t, f), f.type \in LastEvents
    PROVE  TakeEvent(t, f).phase = "complete" /\ TakeEvent(t, f).items = t.items /\ t.phase = "open"
<1>1. FitsIn(t.items, f) /\ t.phase = "open"
  BY DEF FitsIn, Proper, Continues, LastEvents
<1>2. PhaseAfter(t, f) = "complete" /\ ItemsAfter(t.items, f) = t.items
  BY <1>1 DEF PhaseAfter, ItemsAfter, LastEvents
<1>. QED  BY <1>1, <1>2, TakenIs, Zenon DEF IsClient

\* The items after an item was added, grew or was done.
LEMMA ItemTaken ==
    ASSUME NEW items, IsList(items), NEW x, NEW u, u = TakeItem(items, x)
    PROVE  /\ IsList(u) /\ Len(u) = Len(items) + 1
           /\ \A i \in 1..Len(items) : u[i] = items[i]
           /\ u[Len(items) + 1] =
                [kind |-> x.kind, id |-> x.id, own |-> x.own, text |-> <<>>, sig |-> Missing, done |-> FALSE]
  BY ListGrows DEF TakeItem

LEMMA DeltaTaken ==
    ASSUME NEW items, IsList(items), NEW x, x.index \in 1..Len(items)
    PROVE  TakeDelta(items, x) = [items EXCEPT ![x.index] = [items[x.index] EXCEPT !.text = items[x.index].text \o x.text]]
<1>1. DOMAIN items = 1..Len(items)
  BY ListHas
<1>. QED  BY <1>1, Zenon DEF TakeDelta

LEMMA DoneTaken ==
    ASSUME NEW items, IsList(items), NEW x, x.index \in 1..Len(items)
    PROVE  TakeDone(items, x) = [items EXCEPT ![x.index] = [items[x.index] EXCEPT !.done = TRUE, !.sig = x.sig]]
<1>1. DOMAIN items = 1..Len(items)
  BY ListHas
<1>. QED  BY <1>1, Zenon DEF TakeDone

\* A client stays one.
LEMMA ClientStays ==
    ASSUME NEW t, IsClient(t), NEW f, Proper(t, f)
    PROVE  IsClient(TakeEvent(t, f)) /\ TakeEvent(t, f).next = t.next + 1
<1>0. /\ IsSeen(t) /\ t.next \in Nat /\ IsList(t.items) /\ \A i \in 1..Len(t.items) : IsHeld(t.items[i])
      /\ Len(t.items) \in Nat
  BY ListHas DEF IsClient
<1>1. PICK u : u = TakeEvent(t, f)
  OBVIOUS
<1>2. IsSeen(u) /\ u.next = t.next + 1 /\ u.next \in Nat
  <2>1. IsSeen(u) /\ u.next = f.seq + 1
    BY <1>0, <1>1, TakenIs, Zenon
  <2>2. f.seq = t.next
    BY DEF Proper
  <2>. QED  BY <1>0, <2>1, <2>2
<1>3. \/ u.items = t.items
      \/ u.items = TakeItem(t.items, f.fields)
      \/ f.fields.index \in 1..Len(t.items) /\ u.items = TakeDelta(t.items, f.fields) /\ IsList(f.fields.text)
      \/ f.fields.index \in 1..Len(t.items) /\ u.items = TakeDone(t.items, f.fields)
  <2>1. CASE f.type = "created"
    BY <1>1, <2>1, Created
  <2>2. CASE f.type \in {"in_progress", "part_added", "part_done", "text_done"}
    BY <1>1, <2>2, Noted
  <2>3. CASE f.type = "item_added"
    BY <1>1, <2>3, Announced
  <2>4. CASE f.type = "delta"
    BY <1>1, <2>4, Grown DEF Proper, Continues, LastEvents
  <2>5. CASE f.type = "item_done"
    BY <1>1, <2>5, Finished DEF Proper, Continues, LastEvents
  <2>6. CASE f.type \in LastEvents
    BY <1>1, <2>6, Completed
  <2>. QED  BY <2>1, <2>2, <2>3, <2>4, <2>5, <2>6 DEF Proper, Continues
<1>4. CASE u.items = t.items
  BY <1>0, <1>1, <1>2, <1>4 DEF IsClient
<1>5. CASE u.items = TakeItem(t.items, f.fields)
  <2>1. /\ IsList(u.items) /\ Len(u.items) = Len(t.items) + 1
        /\ \A i \in 1..Len(t.items) : u.items[i] = t.items[i]
        /\ u.items[Len(t.items) + 1] = [kind |-> f.fields.kind, id |-> f.fields.id, own |-> f.fields.own,
                                        text |-> <<>>, sig |-> Missing, done |-> FALSE]
    BY <1>0, <1>5, ItemTaken
  <2>2. IsHeld(u.items[Len(t.items) + 1])
    BY <2>1, NothingIsAList DEF IsHeld
  <2>3. \A i \in 1..Len(t.items) : IsHeld(u.items[i])
    BY <1>0, <2>1
  <2>. QED  BY <1>0, <1>1, <1>2, <2>1, <2>2, <2>3 DEF IsClient
<1>6. ASSUME NEW x, IsHeld(x), NEW i \in 1..Len(t.items), u.items = [t.items EXCEPT ![i] = x]
      PROVE  IsClient(u)
  <2>1. /\ IsList(u.items) /\ Len(u.items) = Len(t.items)
        /\ u.items[i] = x /\ \A j \in 1..Len(t.items) : j # i => u.items[j] = t.items[j]
    <3>1. PICK v : v = u.items
      OBVIOUS
    <3>2. v = Changed(t.items, i, x)
      BY <1>6, <3>1 DEF Changed
    <3>3. IsList(v) /\ Len(v) = Len(t.items) /\ v[i] = x /\ \A j \in 1..Len(t.items) : j # i => v[j] = t.items[j]
      BY <1>0, <3>2, ListChanges
    <3>. QED  BY <3>1, <3>3
  <2>. QED  BY <1>0, <1>2, <1>6, <2>1 DEF IsClient
<1>7. CASE f.fields.index \in 1..Len(t.items) /\ u.items = TakeDelta(t.items, f.fields) /\ IsList(f.fields.text)
  <2>. DEFINE i == f.fields.index  x == [t.items[i] EXCEPT !.text = t.items[i].text \o f.fields.text]
  <2>1. u.items = [t.items EXCEPT ![i] = x]
    BY <1>0, <1>7, DeltaTaken, Zenon
  <2>2. IsHeld(x)
    <3>1. IsHeld(t.items[i])
      BY <1>0, <1>7
    <3>2. IsList(t.items[i].text \o f.fields.text)
      BY <1>7, <3>1, ListsJoin DEF IsHeld
    <3>. QED  BY <3>1, <3>2 DEF IsHeld
  <2>3. i \in 1..Len(t.items)
    BY <1>7
  <2>. HIDE DEF x, i
  <2>. QED  BY <1>1, <1>2, <1>6, <2>1, <2>2, <2>3
<1>8. CASE f.fields.index \in 1..Len(t.items) /\ u.items = TakeDone(t.items, f.fields)
  <2>. DEFINE i == f.fields.index  x == [t.items[i] EXCEPT !.done = TRUE, !.sig = f.fields.sig]
  <2>1. u.items = [t.items EXCEPT ![i] = x]
    BY <1>0, <1>8, DoneTaken
  <2>2. IsHeld(x)
    <3>1. IsHeld(t.items[i])
      BY <1>0, <1>8
    <3>. QED  BY <3>1 DEF IsHeld
  <2>3. i \in 1..Len(t.items)
    BY <1>8
  <2>. HIDE DEF x, i
  <2>. QED  BY <1>1, <1>2, <1>6, <2>1, <2>2, <2>3
<1>. QED  BY <1>3, <1>4, <1>5, <1>7, <1>8

-----------------------------------------------------------------------------
(* What a list of events makes of a client *)

\* A client that has s takes the events of Q one by one, each of which it can
\* take, and then has t.
Leads(s, Q, t) ==
    \E c : /\ c[0] = s /\ c[Len(Q)] = t
           /\ \A i \in 0..Len(Q) : IsClient(c[i])
           /\ \A i \in 1..Len(Q) : Proper(c[i - 1], Q[i]) /\ c[i] = TakeEvent(c[i - 1], Q[i])

LEMMA LeadsNowhere ==
    ASSUME NEW s, IsClient(s)
    PROVE  Leads(s, <<>>, s) /\ \A t : Leads(s, <<>>, t) => t = s
<1>. DEFINE c == [i \in 0..0 |-> s]
<1>1. c[0] = s /\ Len(<<>>) = 0 /\ 0..0 = {0} /\ 1..0 = {}
  OBVIOUS
<1>. HIDE DEF c
<1>. QED  BY <1>1 DEF Leads

LEMMA LeadsToClients ==
    ASSUME NEW s, NEW Q, IsList(Q), NEW t, Leads(s, Q, t)
    PROVE  IsClient(s) /\ IsClient(t)
<1>1. Len(Q) \in Nat
  BY ListHas
<1>. QED  BY <1>1 DEF Leads

LEMMA LeadsOn ==
    ASSUME NEW s, NEW Q, IsList(Q), NEW t, Leads(s, Q, t), NEW f, Proper(t, f)
    PROVE  Leads(s, Append(Q, f), TakeEvent(t, f))
<1>1. PICK c : /\ c[0] = s /\ c[Len(Q)] = t
               /\ \A i \in 0..Len(Q) : IsClient(c[i])
               /\ \A i \in 1..Len(Q) : Proper(c[i - 1], Q[i]) /\ c[i] = TakeEvent(c[i - 1], Q[i])
  BY Zenon DEF Leads
<1>2. PICK n : n = Len(Q)
  BY Zenon
<1>3. PICK R : R = Append(Q, f)
  BY Zenon
<1>4. /\ n \in Nat /\ Len(R) = n + 1 /\ R[n + 1] = f /\ \A i \in 1..n : R[i] = Q[i]
  BY <1>2, <1>3, ListGrows
<1>5. PICK u : u = TakeEvent(t, f)
  OBVIOUS
<1>6. IsClient(u) /\ c[n] = t
  BY <1>1, <1>2, <1>5, LeadsToClients, ClientStays
<1>. DEFINE d == [i \in 0..(n + 1) |-> IF i = n + 1 THEN u ELSE c[i]]
<1>7. d[n + 1] = u /\ \A i \in 0..n : d[i] = c[i]
  BY <1>4
<1>. HIDE DEF d
<1>8. \A i \in 0..(n + 1) : IsClient(d[i])
  BY <1>1, <1>2, <1>4, <1>6, <1>7
<1>9. ASSUME NEW i \in 1..(n + 1)
      PROVE  Proper(d[i - 1], R[i]) /\ d[i] = TakeEvent(d[i - 1], R[i])
  <2>1. CASE i = n + 1
    <3>1. d[i - 1] = t /\ R[i] = f /\ d[i] = u
      BY <1>4, <1>6, <1>7, <2>1
    <3>. QED  BY <1>5, <3>1
  <2>2. CASE i # n + 1
    <3>1. i \in 1..n /\ i - 1 \in 0..n /\ i \in 0..n
      BY <1>4, <2>2
    <3>2. d[i - 1] = c[i - 1] /\ d[i] = c[i] /\ R[i] = Q[i]
      BY <1>4, <1>7, <3>1
    <3>3. Proper(c[i - 1], Q[i]) /\ c[i] = TakeEvent(c[i - 1], Q[i])
      BY <1>1, <1>2, <3>1
    <3>. QED  BY <3>2, <3>3
  <2>. QED  BY <2>1, <2>2
<1>10. d[0] = s
  BY <1>1, <1>4, <1>7
<1>. QED  BY <1>3, <1>4, <1>5, <1>7, <1>8, <1>9, <1>10, Zenon DEF Leads

LEMMA LeadsFirst ==
    ASSUME NEW s, NEW Q, IsList(Q), Q # <<>>, NEW t, Leads(s, Q, t)
    PROVE  Proper(s, Head(Q)) /\ Leads(TakeEvent(s, Head(Q)), Tail(Q), t)
<1>1. PICK c : /\ c[0] = s /\ c[Len(Q)] = t
               /\ \A i \in 0..Len(Q) : IsClient(c[i])
               /\ \A i \in 1..Len(Q) : Proper(c[i - 1], Q[i]) /\ c[i] = TakeEvent(c[i - 1], Q[i])
  BY Zenon DEF Leads
<1>2. PICK n : n = Len(Q)
  BY Zenon
<1>3. PICK R : R = Tail(Q)
  BY Zenon
<1>4. /\ n \in Nat \ {0} /\ Len(R) = n - 1 /\ Head(Q) = Q[1] /\ \A i \in 1..(n - 1) : R[i] = Q[i + 1]
  BY <1>2, <1>3, ListShrinks
<1>5. /\ \A i \in 0..n : IsClient(c[i])
      /\ \A i \in 1..n : Proper(c[i - 1], Q[i]) /\ c[i] = TakeEvent(c[i - 1], Q[i])
  BY <1>1, <1>2
<1>6. Proper(s, Q[1]) /\ c[1] = TakeEvent(s, Q[1])
  <2>1. 1 \in 1..n /\ 1 - 1 = 0
    BY <1>4
  <2>. QED  BY <1>1, <1>5, <2>1
<1>. DEFINE d == [i \in 0..(n - 1) |-> c[i + 1]]
<1>7. /\ d[0] = c[1] /\ d[n - 1] = c[n] /\ \A i \in 0..(n - 1) : d[i] = c[i + 1]
  BY <1>4
<1>. HIDE DEF d
<1>8. \A i \in 0..(n - 1) : IsClient(d[i])
  <2>1. \A i \in 0..(n - 1) : i + 1 \in 0..n
    BY <1>4
  <2>. QED  BY <1>5, <1>7, <2>1
<1>9. ASSUME NEW i \in 1..(n - 1)
      PROVE  Proper(d[i - 1], R[i]) /\ d[i] = TakeEvent(d[i - 1], R[i])
  <2>1. i + 1 \in 1..n /\ i - 1 \in 0..(n - 1) /\ i \in 0..(n - 1) /\ (i - 1) + 1 = i /\ (i + 1) - 1 = i
    BY <1>4
  <2>2. d[i - 1] = c[i] /\ d[i] = c[i + 1] /\ R[i] = Q[i + 1]
    BY <1>4, <1>7, <2>1, Zenon
  <2>3. Proper(c[(i + 1) - 1], Q[i + 1]) /\ c[i + 1] = TakeEvent(c[(i + 1) - 1], Q[i + 1])
    BY <1>5, <2>1
  <2>. QED  BY <2>1, <2>2, <2>3
<1>10. d[0] = TakeEvent(s, Head(Q)) /\ d[Len(R)] = t
  BY <1>1, <1>2, <1>4, <1>6, <1>7
<1>11. Leads(TakeEvent(s, Head(Q)), R, t)
  BY <1>4, <1>8, <1>9, <1>10, Zenon DEF Leads
<1>. QED  BY <1>3, <1>4, <1>6, <1>11

LEMMA LeadsAcross ==
    ASSUME NEW s, NEW Q, IsList(Q), NEW t, Leads(s, Q, t), NEW R, IsList(R), NEW u, Leads(t, R, u)
    PROVE  Leads(s, Q \o R, u)
<1>1. PICK n, m, J : n = Len(Q) /\ m = Len(R) /\ J = Q \o R
  BY Zenon
<1>2. PICK c : /\ c[0] = s /\ c[n] = t
               /\ \A i \in 0..n : IsClient(c[i])
               /\ \A i \in 1..n : Proper(c[i - 1], Q[i]) /\ c[i] = TakeEvent(c[i - 1], Q[i])
  BY <1>1, Zenon DEF Leads
<1>3. PICK d : /\ d[0] = t /\ d[m] = u
               /\ \A i \in 0..m : IsClient(d[i])
               /\ \A i \in 1..m : Proper(d[i - 1], R[i]) /\ d[i] = TakeEvent(d[i - 1], R[i])
  BY <1>1, Zenon DEF Leads
<1>4. /\ n \in Nat /\ m \in Nat /\ Len(J) = n + m
      /\ \A i \in 1..n : J[i] = Q[i]
      /\ \A i \in (n + 1)..(n + m) : J[i] = R[i - n]
  BY <1>1, ListsJoin
<1>. DEFINE b == [i \in 0..(n + m) |-> IF i <= n THEN c[i] ELSE d[i - n]]
<1>5. /\ \A i \in 0..n : b[i] = c[i]
      /\ \A i \in (n + 1)..(n + m) : b[i] = d[i - n]
  BY <1>4
<1>. HIDE DEF b
<1>6. \A i \in n..(n + m) : b[i] = d[i - n] /\ i - n \in 0..m
  BY <1>2, <1>3, <1>4, <1>5
<1>7. ASSUME NEW i \in 0..(n + m)
      PROVE  IsClient(b[i])
  <2>1. i \in 0..n \/ i \in n..(n + m)
    BY <1>4
  <2>. QED  BY <1>2, <1>3, <1>5, <1>6, <2>1
<1>8. ASSUME NEW i \in 1..(n + m)
      PROVE  Proper(b[i - 1], J[i]) /\ b[i] = TakeEvent(b[i - 1], J[i])
  <2>1. CASE i \in 1..n
    <3>1. i - 1 \in 0..n /\ i \in 0..n
      BY <1>4, <2>1
    <3>2. b[i - 1] = c[i - 1] /\ b[i] = c[i] /\ J[i] = Q[i]
      BY <1>4, <1>5, <2>1, <3>1
    <3>. QED  BY <1>2, <2>1, <3>2
  <2>2. CASE i \in (n + 1)..(n + m)
    <3>1. i - 1 \in n..(n + m) /\ i \in n..(n + m) /\ i - n \in 1..m /\ (i - 1) - n = (i - n) - 1
      BY <1>4, <2>2
    <3>2. b[i - 1] = d[(i - n) - 1] /\ b[i] = d[i - n] /\ J[i] = R[i - n]
      <4>1. b[i - 1] = d[(i - 1) - n]
        BY <1>6, <3>1
      <4>. QED  BY <1>4, <1>6, <2>2, <3>1, <4>1
    <3>. QED  BY <1>3, <3>1, <3>2
  <2>3. i \in 1..n \/ i \in (n + 1)..(n + m)
    BY <1>4
  <2>. QED  BY <2>1, <2>2, <2>3
<1>9. b[0] = s /\ b[n + m] = u
  <2>1. b[n + m] = d[(n + m) - n] /\ (n + m) - n = m
    BY <1>4, <1>6
  <2>. QED  BY <1>2, <1>3, <1>4, <1>5, <2>1
<1>10. Leads(s, J, u)
  BY <1>4, <1>7, <1>8, <1>9, Zenon DEF Leads
<1>. QED  BY <1>1, <1>10

-----------------------------------------------------------------------------
(* The emitter *)

IsItem(x) ==
    DOMAIN x = {"kind", "call", "text", "sig", "own", "closed", "id"} /\ IsList(x.text) /\ x.closed \in BOOLEAN
IsEmitter(e) ==
    /\ DOMAIN e = {"nextSeq", "items", "current", "calls", "nextID", "out"}
    /\ IsList(e.items) /\ \A i \in 1..Len(e.items) : IsItem(e.items[i])
    /\ IsList(e.out)
    /\ \A k \in DOMAIN e.calls : e.calls[k] \in 1..Len(e.items)
    /\ e.current \in 0..Len(e.items)

\* A client has what the emitter has, but for the items that are closed and of
\* which it is not told yet.
Alike(x, y) == x.kind = y.kind /\ x.id = y.id /\ x.text = y.text /\ (x.closed <=> y.closed)
Shows(t, e, late) ==
    /\ t.next = e.nextSeq /\ t.phase = "open" /\ Len(t.items) = Len(e.items)
    /\ \A i \in 1..Len(e.items) :
          /\ t.items[i].kind = e.items[i].kind /\ t.items[i].id = e.items[i].id
          /\ t.items[i].text = e.items[i].text
          /\ t.items[i].done <=> (e.items[i].closed /\ i \notin late)
\* The events sent so far bring a client from s to there.
Carried(s, e, late) == IsEmitter(e) /\ \E t : Leads(s, e.out, t) /\ Shows(t, e, late)

\* Between two operators nothing is left untold, and the item that text goes to
\* is open.
Ready(s, e) == Carried(s, e, {}) /\ (e.current # NoItem => ~e.items[e.current].closed)

\* The frame an event is sent in.
Sent(e, type, fields) == [type |-> type, seq |-> e.nextSeq, fields |-> fields]

LEMMA EventIs ==
    ASSUME NEW e, IsEmitter(e), NEW type, NEW fields
    PROVE  /\ event(e, type, fields).out = Append(e.out, Sent(e, type, fields))
           /\ event(e, type, fields).nextSeq = e.nextSeq + 1 /\ event(e, type, fields).items = e.items
           /\ event(e, type, fields).calls = e.calls /\ event(e, type, fields).current = e.current
           /\ event(e, type, fields).nextID = e.nextID /\ IsEmitter(event(e, type, fields))
<1>1. PICK d, f : d = event(e, type, fields) /\ f = Sent(e, type, fields)
  OBVIOUS
<1>2. d = [e EXCEPT !.out = Append(e.out, f), !.nextSeq = e.nextSeq + 1]
  BY <1>1, Zenon DEF event, Sent
<1>3. IsList(Append(e.out, f))
  BY ListGrows DEF IsEmitter
<1>4. /\ d.out = Append(e.out, f) /\ d.nextSeq = e.nextSeq + 1 /\ d.items = e.items /\ d.calls = e.calls
      /\ d.current = e.current /\ d.nextID = e.nextID /\ DOMAIN d = DOMAIN e
  BY <1>2 DEF IsEmitter
<1>5. IsEmitter(d)
  BY <1>3, <1>4 DEF IsEmitter
<1>. QED  BY <1>1, <1>4, <1>5

\* Some frame of a list carries output, and goes on to.
Voices(Q) == \E k \in 1..Len(Q) : Carries(Q[k])

LEMMA EventVoices ==
    ASSUME NEW e, IsEmitter(e), NEW type, NEW fields
    PROVE  /\ Voices(e.out) => Voices(event(e, type, fields).out)
           /\ type = "delta" => Voices(event(e, type, fields).out)
           /\ type = "item_added" /\ fields.kind = "function_call" => Voices(event(e, type, fields).out)
<1>1. PICK f, Q, P : f = Sent(e, type, fields) /\ Q = e.out /\ P = Append(Q, f)
  BY Zenon
<1>2. event(e, type, fields).out = P /\ IsList(Q)
  BY <1>1, EventIs DEF IsEmitter
<1>3. Len(Q) \in Nat /\ Len(P) = Len(Q) + 1 /\ P[Len(Q) + 1] = f /\ \A i \in 1..Len(Q) : P[i] = Q[i]
  BY <1>1, <1>2, ListGrows
<1>4. f.type = type /\ f.fields = fields
  BY <1>1 DEF Sent
<1>5. Voices(Q) => Voices(P)
  <2>1. \A i \in 1..Len(Q) : i \in 1..Len(P)
    BY <1>3
  <2>. QED  BY <1>3, <2>1 DEF Voices
<1>6. Carries(f) => Voices(P)
  BY <1>3 DEF Voices
<1>7. type = "delta" => Carries(f)
  BY <1>4 DEF Carries, isResponsesOutputEvent
<1>8. type = "item_added" /\ fields.kind = "function_call" => Carries(f)
  BY <1>4 DEF Carries, isResponsesOutputEvent
<1>. QED  BY <1>1, <1>2, <1>5, <1>6, <1>7, <1>8

\* What either of two lists carries, the two joined carry.
LEMMA VoicesJoin ==
    ASSUME NEW s, IsList(s), NEW t, IsList(t)
    PROVE  Voices(s) \/ Voices(t) => Voices(s \o t)
<1>1. PICK u : u = s \o t
  BY Zenon
<1>2. /\ Len(s) \in Nat /\ Len(t) \in Nat /\ Len(u) = Len(s) + Len(t)
      /\ \A i \in 1..Len(s) : u[i] = s[i]
      /\ \A i \in 1..Len(t) : u[Len(s) + i] = t[i]
  <2>1. Len(s) \in Nat /\ Len(t) \in Nat /\ Len(s \o t) = Len(s) + Len(t)
    BY ListsJoin
  <2>2. \A i \in 1..Len(s) : (s \o t)[i] = s[i]
    BY ListsJoin
  <2>3. \A i \in 1..Len(t) : (s \o t)[Len(s) + i] = t[i]
    BY ListsJoin
  <2>. QED  BY <1>1, <2>1, <2>2, <2>3, Zenon
<1>3. \A i \in 1..Len(s) : i \in 1..Len(u)
  BY <1>2
<1>4. \A i \in 1..Len(t) : Len(s) + i \in 1..Len(u)
  BY <1>2
<1>5. Voices(s) => Voices(u)
  BY <1>2, <1>3 DEF Voices
<1>6. Voices(t) => Voices(u)
  BY <1>2, <1>4, Zenon DEF Voices
<1>. QED  BY <1>1, <1>5, <1>6

\* A step of the emitter sends on, and an open tool call means that something was
\* heard, before the step or by it.
Heard(e, d) == DOMAIN e.calls # {} \/ Voices(d.out)
Tells(e, d) == (Voices(e.out) => Voices(d.out)) /\ (DOMAIN d.calls # {} => Heard(e, d))

LEMMA TellsItself == \A e : Tells(e, e)
  BY DEF Tells, Heard

LEMMA TellsOn ==
    ASSUME NEW e, NEW d, NEW g, Tells(e, d), Tells(d, g)
    PROVE  Tells(e, g) /\ (Heard(e, d) \/ Heard(d, g) => Heard(e, g))
  BY DEF Tells, Heard

\* An event that the client can take is sent.
LEMMA Sends ==
    ASSUME NEW s, NEW e, IsEmitter(e), NEW t, Leads(s, e.out, t), NEW type, NEW fields,
           Proper(t, Sent(e, type, fields))
    PROVE  /\ Leads(s, event(e, type, fields).out, TakeEvent(t, Sent(e, type, fields)))
           /\ TakeEvent(t, Sent(e, type, fields)).next = event(e, type, fields).nextSeq
<1>1. PICK f, d, Q : f = Sent(e, type, fields) /\ d = event(e, type, fields) /\ Q = e.out
  OBVIOUS
<1>2. d.out = Append(Q, f) /\ d.nextSeq = e.nextSeq + 1 /\ IsList(Q)
  BY <1>1, EventIs DEF IsEmitter
<1>3. Leads(s, Q, t) /\ Proper(t, f)
  BY <1>1
<1>4. Leads(s, d.out, TakeEvent(t, f))
  BY <1>2, <1>3, LeadsOn
<1>5. f.seq = e.nextSeq /\ f.seq = t.next
  BY <1>1, <1>3 DEF Proper, Sent
<1>6. TakeEvent(t, f).next = t.next + 1
  BY <1>2, <1>3, LeadsToClients, ClientStays
<1>. QED  BY <1>1, <1>2, <1>4, <1>5, <1>6

\* One that adds nothing to what the client has.
LEMMA NotesAreCarried ==
    ASSUME NEW s, NEW e, NEW late, Carried(s, e, late), NEW type, NEW fields,
           \/ type \in {"in_progress", "part_added", "part_done"}
           \/ type = "text_done" /\ fields.index \in 1..Len(e.items) /\ fields.text = e.items[fields.index].text
    PROVE  Carried(s, event(e, type, fields), late)
<1>1. PICK t : Leads(s, e.out, t) /\ Shows(t, e, late)
  BY DEF Carried
<1>2. PICK f, d : f = Sent(e, type, fields) /\ d = event(e, type, fields)
  OBVIOUS
<1>3. PICK u : u = TakeEvent(t, f)
  OBVIOUS
<1>4. IsEmitter(e) /\ IsClient(t) /\ f.type = type /\ f.seq = e.nextSeq /\ f.fields = fields
  BY <1>1, <1>2, LeadsToClients, Zenon DEF Carried, IsEmitter, Sent
<1>5. Proper(t, f)
  BY <1>1, <1>4 DEF Proper, Continues, Shows
<1>6. Leads(s, d.out, u) /\ IsEmitter(d) /\ u.next = d.nextSeq /\ d.items = e.items
  <2>1. Proper(t, Sent(e, type, fields)) /\ IsEmitter(e) /\ Leads(s, e.out, t)
    BY <1>1, <1>2, <1>4, <1>5
  <2>2. /\ Leads(s, event(e, type, fields).out, TakeEvent(t, Sent(e, type, fields)))
        /\ TakeEvent(t, Sent(e, type, fields)).next = event(e, type, fields).nextSeq
    BY <2>1, Sends
  <2>. QED  BY <1>2, <1>3, <1>4, <2>2, EventIs
<1>7. u.phase = "open" /\ u.items = t.items
  BY <1>3, <1>4, <1>5, Noted
<1>8. Shows(u, d, late)
  BY <1>1, <1>6, <1>7 DEF Shows
<1>. QED  BY <1>2, <1>6, <1>8 DEF Carried

\* The last item is announced.
LEMMA AddedIsTaken ==
    ASSUME NEW s, NEW d, IsEmitter(d), NEW t, Leads(s, d.out, t), t.next = d.nextSeq, t.phase = "open",
           NEW n \in Nat, Len(t.items) = n, Len(d.items) = n + 1,
           \A i \in 1..n : /\ t.items[i].kind = d.items[i].kind /\ t.items[i].id = d.items[i].id
                           /\ t.items[i].text = d.items[i].text /\ (t.items[i].done <=> d.items[i].closed),
           d.items[n + 1].text = <<>>, ~d.items[n + 1].closed, NEW own
    PROVE  Carried(s, Added(d, own), {})
<1>1. PICK x : x = d.items[n + 1]
  OBVIOUS
<1>2. PICK type, fields : type = "item_added"
                          /\ fields = [index |-> n + 1, kind |-> x.kind, id |-> x.id, own |-> own]
  BY Zenon
<1>3. PICK f, b : f = Sent(d, type, fields) /\ b = event(d, type, fields)
  OBVIOUS
<1>4. PICK u : u = TakeEvent(t, f)
  OBVIOUS
<1>5. b = Added(d, own)
  BY <1>1, <1>2, <1>3 DEF Added
<1>6. /\ IsClient(t) /\ f.type = "item_added" /\ f.seq = d.nextSeq /\ f.fields = fields /\ fields.index = n + 1
      /\ fields.kind = x.kind /\ fields.id = x.id /\ IsList(t.items)
  BY <1>2, <1>3, LeadsToClients, Zenon DEF IsEmitter, IsClient, Sent
<1>7. Proper(t, f)
  BY <1>6 DEF Proper, Continues
<1>8. Leads(s, b.out, u) /\ IsEmitter(b) /\ u.next = b.nextSeq /\ b.items = d.items
  <2>1. Proper(t, Sent(d, type, fields))
    BY <1>3, <1>7
  <2>2. /\ Leads(s, event(d, type, fields).out, TakeEvent(t, Sent(d, type, fields)))
        /\ TakeEvent(t, Sent(d, type, fields)).next = event(d, type, fields).nextSeq
    BY <2>1, Sends
  <2>. QED  BY <1>3, <1>4, <2>2, EventIs
<1>9. u.phase = "open" /\ u.items = TakeItem(t.items, fields)
  BY <1>4, <1>6, <1>7, Announced
<1>10. /\ Len(u.items) = n + 1 /\ \A i \in 1..n : u.items[i] = t.items[i]
       /\ u.items[n + 1] = [kind |-> x.kind, id |-> x.id, own |-> fields.own, text |-> <<>>, sig |-> Missing,
                            done |-> FALSE]
  BY <1>6, <1>9, ItemTaken
<1>11. \A i \in 1..(n + 1) : i \in 1..n \/ i = n + 1
  OBVIOUS
<1>12. /\ u.items[n + 1].kind = x.kind /\ u.items[n + 1].id = x.id /\ u.items[n + 1].text = x.text
       /\ u.items[n + 1].done <=> x.closed
  BY <1>1, <1>10
<1>13. Shows(u, b, {})
  BY <1>1, <1>8, <1>9, <1>10, <1>11, <1>12 DEF Shows
<1>. QED  BY <1>5, <1>8, <1>13 DEF Carried

LEMMA AddedIsCarried ==
    ASSUME NEW s, NEW e, Carried(s, e, {}), NEW d, IsEmitter(d), d.out = e.out, d.nextSeq = e.nextSeq,
           Len(d.items) = Len(e.items) + 1, \A i \in 1..Len(e.items) : Alike(d.items[i], e.items[i]),
           d.items[Len(e.items) + 1].text = <<>>, ~d.items[Len(e.items) + 1].closed, NEW own
    PROVE  Carried(s, Added(d, own), {})
<1>1. PICK t : Leads(s, e.out, t) /\ Shows(t, e, {})
  BY DEF Carried
<1>2. PICK n : n = Len(e.items)
  OBVIOUS
<1>3. /\ n \in Nat /\ Len(t.items) = n /\ Len(d.items) = n + 1 /\ t.next = d.nextSeq /\ t.phase = "open"
      /\ d.items[n + 1].text = <<>> /\ ~d.items[n + 1].closed
  BY <1>1, <1>2, ListHas DEF Carried, IsEmitter, Shows
<1>4. \A i \in 1..n : /\ t.items[i].kind = d.items[i].kind /\ t.items[i].id = d.items[i].id
                      /\ t.items[i].text = d.items[i].text /\ (t.items[i].done <=> d.items[i].closed)
  BY <1>1, <1>2 DEF Shows, Alike
<1>5. Leads(s, d.out, t)
  BY <1>1
<1>. QED  BY <1>3, <1>4, <1>5, AddedIsTaken, Zenon

\* What an operator leaves as it was, but that it closes the items in S.
Keeps(d, e, S) ==
    /\ Len(d.items) = Len(e.items) /\ d.current = e.current /\ d.calls = e.calls /\ d.nextID = e.nextID
    /\ \A i \in 1..Len(e.items) : d.items[i].kind = e.items[i].kind
                                  /\ (d.items[i].closed <=> e.items[i].closed \/ i \in S)

\* An item is replaced.
Replaced(e, i, x) == [e EXCEPT !.items = [e.items EXCEPT ![i] = x]]
LEMMA ItemChanges ==
    ASSUME NEW e, IsEmitter(e), NEW i \in 1..Len(e.items), NEW x, IsItem(x), NEW d, d = Replaced(e, i, x)
    PROVE  /\ IsEmitter(d) /\ d.out = e.out /\ d.nextSeq = e.nextSeq /\ d.current = e.current /\ d.calls = e.calls
           /\ d.nextID = e.nextID /\ Len(d.items) = Len(e.items) /\ d.items[i] = x
           /\ \A j \in 1..Len(e.items) : j # i => d.items[j] = e.items[j]
<1>1. PICK w, v : w = e.items /\ v = Changed(w, i, x)
  OBVIOUS
<1>2. IsList(w) /\ i \in 1..Len(w)
  BY <1>1 DEF IsEmitter
<1>3. IsList(v) /\ Len(v) = Len(w) /\ v[i] = x /\ \A j \in 1..Len(w) : j # i => v[j] = w[j]
  BY <1>1, <1>2, ListChanges
<1>4. /\ d.items = v /\ DOMAIN d = DOMAIN e /\ d.out = e.out /\ d.nextSeq = e.nextSeq /\ d.current = e.current
      /\ d.calls = e.calls /\ d.nextID = e.nextID
  BY <1>1 DEF IsEmitter, Replaced, Changed
<1>5. IsEmitter(d)
  BY <1>1, <1>3, <1>4 DEF IsEmitter
<1>. QED  BY <1>1, <1>3, <1>4, <1>5

\* What the client is not told of may change.
LEMMA CarriedAlike ==
    ASSUME NEW s, NEW e, NEW late, Carried(s, e, late), NEW d, IsEmitter(d), d.out = e.out, d.nextSeq = e.nextSeq,
           Len(d.items) = Len(e.items), NEW now, \A i \in 1..Len(e.items) :
               /\ d.items[i].kind = e.items[i].kind /\ d.items[i].id = e.items[i].id
               /\ d.items[i].text = e.items[i].text
               /\ (d.items[i].closed /\ i \notin now) <=> (e.items[i].closed /\ i \notin late)
    PROVE  Carried(s, d, now)
<1>1. PICK t : Leads(s, e.out, t) /\ Shows(t, e, late)
  BY DEF Carried
<1>2. Shows(t, d, now)
  BY <1>1 DEF Shows
<1>. QED  BY <1>1, <1>2 DEF Carried

\* The client has the items but for the last piece of one.
Lacks(t, d, i, delta) ==
    /\ t.next = d.nextSeq /\ t.phase = "open" /\ Len(t.items) = Len(d.items)
    /\ i \in 1..Len(d.items) /\ ~d.items[i].closed /\ d.items[i].text = t.items[i].text \o delta
    /\ \A j \in 1..Len(d.items) : /\ t.items[j].kind = d.items[j].kind /\ t.items[j].id = d.items[j].id
                                  /\ j # i => t.items[j].text = d.items[j].text
                                  /\ (t.items[j].done <=> d.items[j].closed)

LEMMA GrownShows ==
    ASSUME NEW t, IsClient(t), NEW d, NEW i, NEW delta, IsList(delta), delta # <<>>, Lacks(t, d, i, delta),
           NEW f, f = Sent(d, "delta", [index |-> i, text |-> delta]), NEW b, b.items = d.items, b.nextSeq = t.next + 1
    PROVE  Proper(t, f) /\ Shows(TakeEvent(t, f), b, {})
<1>1. PICK x : x = [index |-> i, text |-> delta]
  OBVIOUS
<1>2. PICK w : w = t.items
  OBVIOUS
<1>3. f.type = "delta" /\ f.seq = t.next /\ f.fields = x /\ x.index = i /\ x.text = delta
  BY <1>1 DEF Sent, Lacks
<1>4. IsList(w) /\ i \in 1..Len(w) /\ ~w[i].done /\ IsHeld(w[i])
  BY <1>2 DEF Lacks, IsClient
<1>5. Proper(t, f)
  BY <1>2, <1>3, <1>4 DEF Proper, Continues, Lacks
<1>6. PICK u : u = TakeEvent(t, f)
  OBVIOUS
<1>7. u.phase = "open" /\ u.items = TakeDelta(w, x)
  BY <1>2, <1>3, <1>5, <1>6, Grown
<1>8. u.next = t.next + 1
  BY <1>5, <1>6, ClientStays
<1>9. PICK y, v : y = [w[i] EXCEPT !.text = w[i].text \o delta] /\ v = u.items
  BY Zenon
<1>10. v = Changed(w, i, y)
  <2>1. x.index \in 1..Len(w) /\ IsList(w)
    BY <1>3, <1>4
  <2>2. TakeDelta(w, x) = [w EXCEPT ![x.index] = [w[x.index] EXCEPT !.text = w[x.index].text \o x.text]]
    BY <2>1, DeltaTaken, Zenon
  <2>. QED  BY <1>3, <1>7, <1>9, <2>2, Zenon DEF Changed
<1>11. Len(v) = Len(w) /\ v[i] = y /\ \A j \in 1..Len(w) : j # i => v[j] = w[j]
  BY <1>4, <1>10, ListChanges
<1>12. y.kind = w[i].kind /\ y.id = w[i].id /\ y.text = w[i].text \o delta /\ y.done = w[i].done
  BY <1>4, <1>9 DEF IsHeld
<1>13. Shows(u, b, {})
  <2>1. Len(w) = Len(b.items) /\ Len(v) = Len(b.items)
    BY <1>2, <1>11 DEF Lacks
  <2>2. ASSUME NEW j \in 1..Len(b.items)
        PROVE  /\ v[j].kind = b.items[j].kind /\ v[j].id = b.items[j].id
               /\ v[j].text = b.items[j].text /\ (v[j].done <=> b.items[j].closed)
    <3>1. /\ j \in 1..Len(w) /\ w[j].kind = b.items[j].kind /\ w[j].id = b.items[j].id
          /\ j # i => w[j].text = b.items[j].text
          /\ j = i => b.items[j].text = w[j].text \o delta
          /\ w[j].done <=> b.items[j].closed
      BY <1>2, <2>1, Zenon DEF Lacks
    <3>. QED  BY <1>11, <1>12, <3>1, Zenon
  <2>. QED  BY <1>7, <1>8, <1>9, <2>1, <2>2 DEF Shows
<1>. QED  BY <1>5, <1>6, <1>13

\* What the client then is told of it.
LEMMA TellsOf ==
    ASSUME NEW s, NEW d, IsEmitter(d), NEW t, Leads(s, d.out, t), NEW type, NEW fields, NEW late,
           Proper(t, Sent(d, type, fields)),
           Shows(TakeEvent(t, Sent(d, type, fields)), event(d, type, fields), late)
    PROVE  Carried(s, event(d, type, fields), late)
<1>1. Leads(s, event(d, type, fields).out, TakeEvent(t, Sent(d, type, fields)))
  BY Sends
<1>2. IsEmitter(event(d, type, fields))
  BY EventIs
<1>. QED  BY <1>1, <1>2 DEF Carried

\* An open item grows.
LEMMA GrowIsCarried ==
    ASSUME NEW s, NEW e, Carried(s, e, {}), NEW i \in 1..Len(e.items), ~e.items[i].closed,
           NEW delta, IsList(delta), delta # <<>>
    PROVE  /\ Carried(s, grow(e, i, delta), {}) /\ Keeps(grow(e, i, delta), e, {})
           /\ Voices(grow(e, i, delta).out)
<1>1. PICK t : Leads(s, e.out, t) /\ Shows(t, e, {})
  BY DEF Carried
<1>2. PICK w : w = e.items[i]
  OBVIOUS
<1>3. IsEmitter(e) /\ IsItem(w) /\ ~w.closed
  BY <1>2 DEF Carried, IsEmitter
<1>4. PICK x : x = [w EXCEPT !.text = w.text \o delta]
  BY Zenon
<1>5. IsItem(x) /\ x.kind = w.kind /\ x.id = w.id /\ x.text = w.text \o delta /\ ~x.closed
  <2>1. IsList(w.text \o delta)
    BY <1>3, ListsJoin DEF IsItem
  <2>. QED  BY <1>3, <1>4, <2>1 DEF IsItem
<1>6. PICK d : d = Replaced(e, i, x)
  OBVIOUS
<1>7. /\ IsEmitter(d) /\ d.out = e.out /\ d.nextSeq = e.nextSeq /\ d.current = e.current /\ d.calls = e.calls
      /\ d.nextID = e.nextID /\ Len(d.items) = Len(e.items) /\ d.items[i] = x
      /\ \A j \in 1..Len(e.items) : j # i => d.items[j] = e.items[j]
  BY <1>3, <1>5, <1>6, ItemChanges
<1>8. PICK fields : fields = [index |-> i, text |-> delta]
  BY Zenon
<1>9. grow(e, i, delta) = event(d, "delta", fields)
  BY <1>2, <1>3, <1>4, <1>6, <1>8, Zenon DEF grow, Replaced, IsEmitter
<1>10. Lacks(t, d, i, delta)
  <2>1. /\ t.next = d.nextSeq /\ t.phase = "open" /\ Len(t.items) = Len(d.items) /\ Len(d.items) = Len(e.items)
        /\ ~d.items[i].closed
    BY <1>1, <1>5, <1>7 DEF Shows
  <2>2. ASSUME NEW j \in 1..Len(e.items)
        PROVE  /\ t.items[j].kind = d.items[j].kind /\ t.items[j].id = d.items[j].id
               /\ j # i => t.items[j].text = d.items[j].text
               /\ (t.items[j].done <=> d.items[j].closed)
    <3>1. /\ t.items[j].kind = e.items[j].kind /\ t.items[j].id = e.items[j].id
          /\ t.items[j].text = e.items[j].text /\ (t.items[j].done <=> e.items[j].closed)
      BY <1>1 DEF Shows
    <3>2. CASE j = i
      BY <1>2, <1>3, <1>5, <1>7, <3>1, <3>2
    <3>3. CASE j # i
      <4>1. d.items[j] = e.items[j]
        BY <1>7, <3>3
      <4>. QED  BY <3>1, <4>1, Zenon
    <3>. QED  BY <3>2, <3>3
  <2>3. d.items[i].text = t.items[i].text \o delta
    BY <1>1, <1>2, <1>5, <1>7, Zenon DEF Shows
  <2>. QED  BY <2>1, <2>2, <2>3, Zenon DEF Lacks
<1>11. PICK f, b : f = Sent(d, "delta", fields) /\ b = event(d, "delta", fields)
  OBVIOUS
<1>12. b.items = d.items /\ b.nextSeq = d.nextSeq + 1 /\ b.current = d.current /\ b.calls = d.calls /\ b.nextID = d.nextID
  BY <1>7, <1>11, EventIs
<1>13. t.next = d.nextSeq /\ IsClient(t)
  <2>1. IsList(e.out)
    BY <1>3 DEF IsEmitter
  <2>. QED  BY <1>1, <1>10, <2>1, LeadsToClients, Zenon DEF Lacks
<1>14. Proper(t, f) /\ Shows(TakeEvent(t, f), b, {})
  BY <1>8, <1>10, <1>11, <1>12, <1>13, GrownShows
<1>15. Carried(s, b, {})
  <2>1. Leads(s, d.out, t)
    BY <1>1, <1>7
  <2>. QED  BY <1>7, <1>11, <1>14, <2>1, TellsOf
<1>16. Keeps(b, e, {})
  BY <1>2, <1>3, <1>5, <1>7, <1>12 DEF Keeps
<1>17. Voices(b.out)
  BY <1>7, <1>11, EventVoices
<1>. QED  BY <1>9, <1>11, <1>15, <1>16, <1>17

\* A closed item is told.
LEMMA DoneShows ==
    ASSUME NEW t, IsClient(t), NEW d, IsEmitter(d), NEW i \in 1..Len(d.items), d.items[i].closed, Shows(t, d, {i}),
           NEW x, x.index = i, x.id = d.items[i].id, x.text = d.items[i].text,
           NEW f, f = Sent(d, "item_done", x), NEW b, b.items = d.items, b.nextSeq = t.next + 1
    PROVE  Proper(t, f) /\ Shows(TakeEvent(t, f), b, {})
<1>2. PICK w : w = t.items
  OBVIOUS
<1>3. f.type = "item_done" /\ f.seq = t.next /\ f.fields = x
  BY DEF Sent, Shows
<1>4. IsList(w) /\ i \in 1..Len(w) /\ ~w[i].done /\ IsHeld(w[i]) /\ w[i].id = x.id /\ w[i].text = x.text
  BY <1>2 DEF Shows, IsClient
<1>5. Proper(t, f)
  BY <1>2, <1>3, <1>4 DEF Proper, Continues, Shows
<1>6. PICK u : u = TakeEvent(t, f)
  OBVIOUS
<1>7. u.phase = "open" /\ u.items = TakeDone(w, x)
  BY <1>2, <1>3, <1>5, <1>6, Finished
<1>8. u.next = t.next + 1
  BY <1>5, <1>6, ClientStays
<1>9. PICK y, v : y = [w[i] EXCEPT !.done = TRUE, !.sig = x.sig] /\ v = u.items
  OBVIOUS
<1>10. v = Changed(w, i, y)
  <2>1. x.index \in 1..Len(w) /\ IsList(w)
    BY <1>4
  <2>2. TakeDone(w, x) = [w EXCEPT ![x.index] = [w[x.index] EXCEPT !.done = TRUE, !.sig = x.sig]]
    BY <2>1, DoneTaken
  <2>. QED  BY <1>7, <1>9, <2>2, Zenon DEF Changed
<1>11. Len(v) = Len(w) /\ v[i] = y /\ \A j \in 1..Len(w) : j # i => v[j] = w[j]
  BY <1>4, <1>10, ListChanges
<1>12. y.kind = w[i].kind /\ y.id = w[i].id /\ y.text = w[i].text /\ y.done
  BY <1>4, <1>9 DEF IsHeld
<1>13. Shows(u, b, {})
  <2>1. Len(w) = Len(b.items) /\ Len(v) = Len(b.items)
    BY <1>2, <1>11 DEF Shows
  <2>2. ASSUME NEW j \in 1..Len(b.items)
        PROVE  /\ v[j].kind = b.items[j].kind /\ v[j].id = b.items[j].id
               /\ v[j].text = b.items[j].text /\ (v[j].done <=> b.items[j].closed)
    <3>1. /\ j \in 1..Len(w) /\ w[j].kind = b.items[j].kind /\ w[j].id = b.items[j].id
          /\ w[j].text = b.items[j].text
          /\ j # i => (w[j].done <=> b.items[j].closed)
          /\ j = i => b.items[j].closed
      BY <1>2, <2>1 DEF Shows
    <3>2. CASE j = i
      <4>1. v[j] = y /\ b.items[j].closed
        BY <1>11, <3>1, <3>2
      <4>2. y.done <=> b.items[j].closed
        BY <1>12, <4>1, Zenon
      <4>3. y.kind = b.items[j].kind /\ y.id = b.items[j].id /\ y.text = b.items[j].text
        BY <1>12, <3>1, <3>2
      <4>. QED  BY <4>1, <4>2, <4>3, Zenon
    <3>3. CASE j # i
      <4>1. v[j] = w[j] /\ (w[j].done <=> b.items[j].closed)
        BY <1>11, <3>1, <3>3
      <4>. QED  BY <3>1, <4>1, Zenon
    <3>. QED  BY <3>2, <3>3
  <2>. QED  BY <1>7, <1>8, <1>9, <2>1, <2>2 DEF Shows
<1>. QED  BY <1>5, <1>6, <1>13

LEMMA DoneIsCarried ==
    ASSUME NEW s, NEW d, NEW i \in 1..Len(d.items), d.items[i].closed, Carried(s, d, {i})
    PROVE  Carried(s, itemDone(d, i), {}) /\ Keeps(itemDone(d, i), d, {})
<1>1. PICK t : Leads(s, d.out, t) /\ Shows(t, d, {i})
  BY DEF Carried
<1>2. PICK x : x = [index |-> i, id |-> d.items[i].id, text |-> d.items[i].text,
                    sig |-> d.items[i].sig, own |-> d.items[i].own]
  BY Zenon
<1>3. PICK f, b : f = Sent(d, "item_done", x) /\ b = event(d, "item_done", x)
  OBVIOUS
<1>4. b = itemDone(d, i)
  BY <1>2, <1>3, Zenon DEF itemDone
<1>5. IsEmitter(d) /\ IsList(d.out)
  BY DEF Carried, IsEmitter
<1>6. b.items = d.items /\ b.nextSeq = d.nextSeq + 1 /\ b.current = d.current /\ b.calls = d.calls /\ b.nextID = d.nextID
  BY <1>3, <1>5, EventIs
<1>7. t.next = d.nextSeq /\ IsClient(t)
  BY <1>1, <1>5, LeadsToClients, Zenon DEF Shows
<1>8. x.index = i /\ x.id = d.items[i].id /\ x.text = d.items[i].text
  BY <1>2
<1>9. Proper(t, f) /\ Shows(TakeEvent(t, f), b, {})
  BY <1>1, <1>3, <1>5, <1>6, <1>7, <1>8, DoneShows
<1>10. Carried(s, b, {})
  BY <1>1, <1>3, <1>5, <1>9, TellsOf
<1>11. Keeps(b, d, {})
  BY <1>5, <1>6 DEF Keeps, IsEmitter, IsItem
<1>. QED  BY <1>4, <1>10, <1>11

LEMMA EventKeeps ==
    ASSUME NEW e, IsEmitter(e), NEW type, NEW fields
    PROVE  Keeps(event(e, type, fields), e, {})
<1>1. PICK d : d = event(e, type, fields)
  OBVIOUS
<1>2. d.items = e.items /\ d.current = e.current /\ d.calls = e.calls /\ d.nextID = e.nextID
  BY <1>1, EventIs
<1>. QED  BY <1>1, <1>2 DEF Keeps, IsEmitter, IsItem

LEMMA KeepsOn ==
    ASSUME NEW e, NEW d, NEW c, NEW S, NEW R, Keeps(d, e, S), Keeps(c, d, R)
    PROVE  Keeps(c, e, S \cup R)
  BY DEF Keeps

LEMMA SameIsKept ==
    ASSUME NEW e, IsEmitter(e)
    PROVE  Keeps(e, e, {})
  BY DEF Keeps, IsEmitter, IsItem

\* An item is closed and told.
LEMMA CloseIsCarried ==
    ASSUME NEW s, NEW e, Carried(s, e, {}), NEW i \in 1..Len(e.items), ~e.items[i].closed
    PROVE  Carried(s, closeEvents(e, i), {}) /\ Keeps(closeEvents(e, i), e, {i})
<1>1. PICK w : w = e.items[i]
  OBVIOUS
<1>2. IsEmitter(e) /\ IsItem(w) /\ ~w.closed
  BY <1>1 DEF Carried, IsEmitter
<1>3. PICK x : x = [w EXCEPT !.closed = TRUE]
  BY Zenon
<1>4. IsItem(x) /\ x.kind = w.kind /\ x.id = w.id /\ x.text = w.text /\ x.closed
  BY <1>2, <1>3 DEF IsItem
<1>5. PICK d : d = Replaced(e, i, x)
  OBVIOUS
<1>6. /\ IsEmitter(d) /\ d.out = e.out /\ d.nextSeq = e.nextSeq /\ d.current = e.current /\ d.calls = e.calls
      /\ d.nextID = e.nextID /\ Len(d.items) = Len(e.items) /\ d.items[i] = x
      /\ \A j \in 1..Len(e.items) : j # i => d.items[j] = e.items[j]
  BY <1>2, <1>4, <1>5, ItemChanges
<1>7. \A j \in 1..Len(e.items) :
          /\ d.items[j].kind = e.items[j].kind /\ d.items[j].id = e.items[j].id /\ d.items[j].text = e.items[j].text
          /\ (d.items[j].closed /\ j \notin {i}) <=> (e.items[j].closed /\ j \notin {})
          /\ d.items[j].closed <=> (e.items[j].closed \/ j \in {i})
  <2>. TAKE j \in 1..Len(e.items)
  <2>1. CASE j = i
    BY <1>1, <1>2, <1>4, <1>6, <2>1
  <2>2. CASE j # i
    <3>1. d.items[j] = e.items[j]
      BY <1>6, <2>2
    <3>. QED  BY <2>2, <3>1, Zenon
  <2>. QED  BY <2>1, <2>2
<1>8. Carried(s, d, {i}) /\ Keeps(d, e, {i})
  <2>1. Carried(s, d, {i})
    BY <1>6, <1>7, CarriedAlike
  <2>. QED  BY <1>6, <1>7, <2>1 DEF Keeps
<1>9. PICK fields, c : fields = [index |-> i, text |-> d.items[i].text] /\ c = event(d, "text_done", fields)
  BY Zenon
<1>10. Carried(s, c, {i}) /\ Keeps(c, d, {}) /\ c.items = d.items
  <2>1. fields.index \in 1..Len(d.items) /\ fields.text = d.items[fields.index].text
    BY <1>6, <1>9
  <2>2. Carried(s, event(d, "text_done", fields), {i})
    BY <1>8, <2>1, NotesAreCarried
  <2>. QED  BY <1>6, <1>9, <2>2, EventIs, EventKeeps
<1>11. PICK b : b = partDone(c, i)
  OBVIOUS
<1>12. Carried(s, b, {i}) /\ Keeps(b, c, {}) /\ b.items = d.items
  <2>1. IsEmitter(c)
    BY <1>10 DEF Carried
  <2>2. CASE b = c
    BY <1>10, <2>1, <2>2, SameIsKept
  <2>3. CASE b = event(c, "part_done", [index |-> i])
    <3>1. PICK note : note = [index |-> i]
      BY Zenon
    <3>2. Carried(s, event(c, "part_done", note), {i})
      BY <1>10, NotesAreCarried
    <3>. QED  BY <1>10, <2>1, <2>3, <3>1, <3>2, EventIs, EventKeeps
  <2>. QED  BY <1>11, <2>2, <2>3, Zenon DEF partDone
<1>13. Carried(s, itemDone(b, i), {}) /\ Keeps(itemDone(b, i), b, {})
  <2>1. i \in 1..Len(b.items) /\ b.items[i].closed
    BY <1>4, <1>6, <1>12
  <2>. QED  BY <1>12, <2>1, DoneIsCarried, Zenon
<1>14. closeEvents(e, i) = itemDone(b, i)
  BY <1>1, <1>2, <1>3, <1>5, <1>9, <1>11, Zenon DEF closeEvents, textDone, Replaced, IsEmitter
<1>15. Keeps(itemDone(b, i), e, {i})
  <2>1. Keeps(c, e, {i} \cup {})
    BY <1>8, <1>10, KeepsOn
  <2>2. Keeps(b, e, ({i} \cup {}) \cup {})
    BY <1>12, <2>1, KeepsOn
  <2>3. Keeps(itemDone(b, i), e, (({i} \cup {}) \cup {}) \cup {})
    BY <1>13, <2>2, KeepsOn
  <2>4. (({i} \cup {}) \cup {}) \cup {} = {i}
    OBVIOUS
  <2>. QED  BY <2>3, <2>4
<1>. QED  BY <1>13, <1>14, <1>15

LEMMA ItemIsClosed ==
    ASSUME NEW s, NEW e, Carried(s, e, {}), NEW i \in 1..Len(e.items)
    PROVE  Carried(s, closeItem(e, i), {}) /\ Keeps(closeItem(e, i), e, {i})
<1>1. CASE e.items[i].closed
  <2>1. closeItem(e, i) = e
    BY <1>1 DEF closeItem
  <2>2. IsEmitter(e)
    BY DEF Carried
  <2>3. Keeps(e, e, {i})
    BY <1>1, <2>2 DEF Keeps, IsEmitter, IsItem
  <2>. QED  BY <2>1, <2>3
<1>2. CASE ~e.items[i].closed
  <2>1. closeItem(e, i) = closeEvents(e, i)
    BY <1>2 DEF closeItem
  <2>. QED  BY <1>2, <2>1, CloseIsCarried
<1>. QED  BY <1>1, <1>2

LEMMA FoldCloses ==
    ASSUME NEW s, NEW e, Carried(s, e, {})
    PROVE  /\ Carried(s, FoldLeftDomain(closeItem, e, e.items), {})
           /\ Keeps(FoldLeftDomain(closeItem, e, e.items), e, 1..Len(e.items))
<1>1. PICK n : n = Len(e.items)
  BY Zenon
<1>2. IsEmitter(e) /\ n \in Nat /\ DOMAIN e.items = 1..n
  BY <1>1, ListHas DEF Carried, IsEmitter
<1>3. PICK q : q = [i \in DOMAIN e.items |-> i]
  BY Zenon
<1>4. \A i \in 1..n : q[i] = i
  BY <1>2, <1>3
<1>5. PICK f : Closing!Goes(f, e, q, n) /\ Closing!Run(e, q) = f[n]
  <2>1. n \in Nat
    BY <1>2
  <2>2. DOMAIN q = 1..n
    BY <1>2, <1>3
  <2>. QED  BY <2>1, <2>2, Closing!RunIs
<1>6. FoldLeftDomain(closeItem, e, e.items) = f[n]
  <2>1. FoldLeft(closeItem, e, q) = Closing!FoldLeft(closeItem, e, q)
    BY Zenon DEF FoldLeft, MapThenFoldSet, Max, Closing!FoldLeft, Closing!MapThenFoldSet, Closing!Max
  <2>. QED  BY <1>3, <1>5, <2>1, Zenon DEF FoldLeftDomain, Closing!Run
<1>. DEFINE T == {i \in Nat : Carried(s, f[i], {}) /\ Keeps(f[i], e, 1..i)}
<1>7. 0 \in T
  <2>1. Keeps(e, e, {}) /\ 1..0 = {}
    BY <1>2, SameIsKept
  <2>. QED  BY <1>5, <2>1 DEF Closing!Goes
<1>8. ASSUME NEW i \in 1..n, i - 1 \in T
      PROVE  i \in T
  <2>1. PICK d : d = f[i - 1]
    OBVIOUS
  <2>2. Carried(s, d, {}) /\ Keeps(d, e, 1..(i - 1)) /\ f[i] = closeItem(d, i) /\ i \in Nat
    BY <1>4, <1>5, <1>8, <2>1 DEF Closing!Goes
  <2>3. i \in 1..Len(d.items)
    BY <1>1, <2>2 DEF Keeps
  <2>4. Carried(s, closeItem(d, i), {}) /\ Keeps(closeItem(d, i), d, {i})
    BY <2>2, <2>3, ItemIsClosed
  <2>5. (1..(i - 1)) \cup {i} = 1..i
    BY <1>2
  <2>6. Keeps(closeItem(d, i), e, 1..i)
    BY <2>2, <2>4, <2>5, KeepsOn
  <2>. QED  BY <2>2, <2>4, <2>6
<1>. HIDE DEF T
<1>9. \A i \in 1..n : i - 1 \in T => i \in T
  BY <1>8
<1>10. n \in T
  <2>1. \A i \in 0..n : i \in T
    BY <1>2, <1>7, <1>9, Closing!Upwards, Zenon
  <2>. QED  BY <1>2, <2>1
<1>. QED  BY <1>1, <1>6, <1>10 DEF T

\* Everything is closed.
LEMMA AllIsClosed ==
    ASSUME NEW s, NEW e, Carried(s, e, {})
    PROVE  /\ Carried(s, closeAll(e), {}) /\ closeAll(e).current = NoItem
           /\ closeAll(e).calls = e.calls /\ closeAll(e).nextID = e.nextID
           /\ Len(closeAll(e).items) = Len(e.items)
           /\ \A i \in 1..Len(e.items) : closeAll(e).items[i].closed
<1>1. PICK d, c : d = FoldLeftDomain(closeItem, e, e.items) /\ c = [d EXCEPT !.current = NoItem]
  BY Zenon
<1>2. c = closeAll(e)
  BY <1>1, Zenon DEF closeAll
<1>3. Carried(s, d, {}) /\ Keeps(d, e, 1..Len(e.items))
  BY <1>1, FoldCloses
<1>4. IsEmitter(d)
  BY <1>3 DEF Carried
<1>5. /\ c.current = NoItem /\ c.items = d.items /\ c.out = d.out /\ c.nextSeq = d.nextSeq
      /\ c.calls = d.calls /\ c.nextID = d.nextID /\ DOMAIN c = DOMAIN d
  BY <1>1, <1>4 DEF IsEmitter
<1>6. IsEmitter(c)
  BY <1>4, <1>5 DEF IsEmitter, NoItem
<1>7. Carried(s, c, {})
  <2>1. Len(c.items) = Len(d.items) /\ c.out = d.out /\ c.nextSeq = d.nextSeq
    BY <1>5
  <2>2. \A i \in 1..Len(d.items) :
               /\ c.items[i].kind = d.items[i].kind /\ c.items[i].id = d.items[i].id
               /\ c.items[i].text = d.items[i].text
               /\ (c.items[i].closed /\ i \notin {}) <=> (d.items[i].closed /\ i \notin {})
    BY <1>5, Zenon
  <2>. QED  BY <1>3, <1>6, <2>1, <2>2, CarriedAlike
<1>8. Len(d.items) = Len(e.items) /\ d.calls = e.calls /\ d.nextID = e.nextID
      /\ \A i \in 1..Len(e.items) : d.items[i].closed
  BY <1>3 DEF Keeps
<1>. QED  BY <1>2, <1>5, <1>7, <1>8

LEMMA CurrentIsClosed ==
    ASSUME NEW s, NEW e, Ready(s, e)
    PROVE  /\ Carried(s, closeCurrent(e), {}) /\ closeCurrent(e).current = NoItem
           /\ closeCurrent(e).calls = e.calls /\ closeCurrent(e).nextID = e.nextID
           /\ Len(closeCurrent(e).items) = Len(e.items)
<1>1. Carried(s, e, {}) /\ IsEmitter(e)
  BY DEF Ready, Carried
<1>2. CASE e.current = NoItem
  <2>1. closeCurrent(e) = e
    BY <1>2 DEF closeCurrent
  <2>. QED  BY <1>1, <1>2, <2>1
<1>3. CASE e.current # NoItem
  <2>1. PICK d, c : d = closeItem(e, e.current) /\ c = [d EXCEPT !.current = NoItem]
    BY Zenon
  <2>2. c = closeCurrent(e)
    BY <1>3, <2>1, Zenon DEF closeCurrent
  <2>3. e.current \in 1..Len(e.items)
    BY <1>1, <1>3 DEF IsEmitter, NoItem
  <2>4. Carried(s, d, {}) /\ Keeps(d, e, {e.current})
    BY <1>1, <2>1, <2>3, ItemIsClosed, Zenon
  <2>5. IsEmitter(d)
    BY <2>4 DEF Carried
  <2>6. /\ c.current = NoItem /\ c.items = d.items /\ c.out = d.out /\ c.nextSeq = d.nextSeq
        /\ c.calls = d.calls /\ c.nextID = d.nextID /\ DOMAIN c = DOMAIN d
    BY <2>1, <2>5 DEF IsEmitter
  <2>7. IsEmitter(c)
    BY <2>5, <2>6 DEF IsEmitter, NoItem
  <2>8. Carried(s, c, {})
    <3>1. Len(c.items) = Len(d.items) /\ c.out = d.out /\ c.nextSeq = d.nextSeq
      BY <2>6
    <3>2. \A i \in 1..Len(d.items) :
                 /\ c.items[i].kind = d.items[i].kind /\ c.items[i].id = d.items[i].id
                 /\ c.items[i].text = d.items[i].text
                 /\ (c.items[i].closed /\ i \notin {}) <=> (d.items[i].closed /\ i \notin {})
      BY <2>6, Zenon
    <3>. QED  BY <2>4, <2>7, <3>1, <3>2, CarriedAlike
  <2>9. Len(d.items) = Len(e.items) /\ d.calls = e.calls /\ d.nextID = e.nextID
    BY <2>4 DEF Keeps
  <2>. QED  BY <2>2, <2>6, <2>8, <2>9
<1>. QED  BY <1>2, <1>3

\* An item is opened.
LEMMA OpenAdds ==
    ASSUME NEW e, IsEmitter(e), NEW kind
    PROVE  /\ IsEmitter(open(e, kind)) /\ open(e, kind).out = e.out /\ open(e, kind).nextSeq = e.nextSeq
           /\ open(e, kind).current = e.current /\ open(e, kind).calls = e.calls /\ open(e, kind).nextID = NoID
           /\ Len(e.items) \in Nat /\ Len(open(e, kind).items) = Len(e.items) + 1
           /\ \A i \in 1..Len(e.items) : open(e, kind).items[i] = e.items[i]
           /\ open(e, kind).items[Len(e.items) + 1].kind = kind
           /\ open(e, kind).items[Len(e.items) + 1].text = <<>>
           /\ ~open(e, kind).items[Len(e.items) + 1].closed
<1>1. PICK x : x = [kind |-> kind, call |-> Missing, text |-> <<>>, sig |-> Missing, own |-> FALSE,
                    closed |-> FALSE, id |-> IF e.nextID # NoID THEN e.nextID ELSE Fresh[Len(e.items) + 1]]
  BY Zenon
<1>2. IsItem(x) /\ x.kind = kind /\ x.text = <<>> /\ ~x.closed
  BY <1>1, NothingIsAList DEF IsItem
<1>3. PICK d, w, v : d = open(e, kind) /\ w = e.items /\ v = Append(w, x)
  BY Zenon
<1>4. d = [e EXCEPT !.items = v, !.nextID = NoID]
  BY <1>1, <1>3, Zenon DEF open
<1>5. IsList(w)
  BY <1>3 DEF IsEmitter
<1>6. /\ IsList(v) /\ Len(w) \in Nat /\ Len(v) = Len(w) + 1 /\ v[Len(w) + 1] = x
      /\ \A i \in 1..Len(w) : v[i] = w[i]
  BY <1>3, <1>5, ListGrows
<1>7. /\ d.items = v /\ d.out = e.out /\ d.nextSeq = e.nextSeq /\ d.current = e.current /\ d.calls = e.calls
      /\ d.nextID = NoID /\ DOMAIN d = DOMAIN e
  BY <1>4 DEF IsEmitter
<1>8. IsEmitter(d)
  <2>1. \A i \in 1..Len(v) : IsItem(v[i])
    <3>1. \A i \in 1..Len(v) : i \in 1..Len(w) \/ i = Len(w) + 1
      BY <1>6
    <3>2. \A i \in 1..Len(w) : IsItem(w[i])
      BY <1>3 DEF IsEmitter
    <3>. QED  BY <1>2, <1>6, <3>1, <3>2
  <2>2. \A k \in DOMAIN e.calls : e.calls[k] \in 1..Len(v)
    BY <1>3, <1>6 DEF IsEmitter
  <2>3. e.current \in 0..Len(v)
    BY <1>3, <1>6 DEF IsEmitter
  <2>4. IsList(e.out) /\ DOMAIN e = {"nextSeq", "items", "current", "calls", "nextID", "out"}
    BY DEF IsEmitter
  <2>. QED  BY <1>6, <1>7, <2>1, <2>2, <2>3, <2>4 DEF IsEmitter
<1>. QED  BY <1>2, <1>3, <1>6, <1>7, <1>8

LEMMA AddedKeeps ==
    ASSUME NEW d, IsEmitter(d), NEW own
    PROVE  /\ Added(d, own).items = d.items /\ Added(d, own).current = d.current
           /\ Added(d, own).calls = d.calls /\ Added(d, own).nextID = d.nextID
<1>1. PICK x : x = [index |-> Len(d.items), kind |-> d.items[Len(d.items)].kind,
                    id |-> d.items[Len(d.items)].id, own |-> own]
  BY Zenon
<1>2. Added(d, own) = event(d, "item_added", x)
  BY <1>1, Zenon DEF Added
<1>. QED  BY <1>2, EventIs

LEMMA OpenedIsCarried ==
    ASSUME NEW s, NEW e, Carried(s, e, {}), NEW kind, NEW own
    PROVE  Carried(s, Added(open(e, kind), own), {})
<1>1. IsEmitter(e)
  BY DEF Carried
<1>2. PICK d : d = open(e, kind)
  OBVIOUS
<1>3. /\ IsEmitter(d) /\ d.out = e.out /\ d.nextSeq = e.nextSeq /\ Len(d.items) = Len(e.items) + 1
      /\ \A i \in 1..Len(e.items) : d.items[i] = e.items[i]
      /\ d.items[Len(e.items) + 1].text = <<>> /\ ~d.items[Len(e.items) + 1].closed
  BY <1>1, <1>2, OpenAdds
<1>4. \A i \in 1..Len(e.items) : Alike(d.items[i], e.items[i])
  BY <1>3, Zenon DEF Alike
<1>5. Carried(s, Added(d, own), {})
  BY <1>3, <1>4, AddedIsCarried
<1>. QED  BY <1>2, <1>5

\* Text has an open item of its kind to go to.
LEMMA TextIsOpened ==
    ASSUME NEW s, NEW e, Ready(s, e), NEW kind
    PROVE  /\ Ready(s, openText(e, kind)) /\ openText(e, kind).current # NoItem
           /\ openText(e, kind).calls = e.calls
           /\ openText(e, kind).items[openText(e, kind).current].kind = kind
<1>1. CASE e.current # NoItem /\ e.items[e.current].kind = kind
  <2>1. openText(e, kind) = e
    BY <1>1 DEF openText
  <2>. QED  BY <1>1, <2>1
<1>2. CASE ~(e.current # NoItem /\ e.items[e.current].kind = kind)
  <2>1. PICK c, d, b, p, g, n : /\ c = closeCurrent(e) /\ d = open(c, kind) /\ b = Added(d, FALSE)
                             /\ p = partAdded(b) /\ n = Len(e.items) /\ g = [p EXCEPT !.current = n + 1]
    BY Zenon
  <2>2. g = openText(e, kind)
    BY <1>2, <2>1, Zenon DEF openText
  <2>3. Carried(s, c, {}) /\ c.current = NoItem /\ c.calls = e.calls /\ Len(c.items) = n /\ IsEmitter(c)
    BY <2>1, CurrentIsClosed DEF Carried
  <2>4. /\ IsEmitter(d) /\ d.current = NoItem /\ d.calls = e.calls /\ n \in Nat /\ Len(d.items) = n + 1
        /\ d.items[n + 1].kind = kind /\ ~d.items[n + 1].closed
    <3>1. IsEmitter(c) /\ d = open(c, kind)
      BY <2>1, <2>3
    <3>2. /\ IsEmitter(d) /\ d.current = c.current /\ d.calls = c.calls /\ Len(c.items) \in Nat
          /\ Len(d.items) = Len(c.items) + 1 /\ d.items[Len(c.items) + 1].kind = kind
          /\ ~d.items[Len(c.items) + 1].closed
      BY <3>1, OpenAdds
    <3>. QED  BY <2>3, <3>2
  <2>5. Carried(s, b, {}) /\ b.items = d.items /\ b.calls = e.calls /\ IsEmitter(b)
    BY <2>1, <2>3, <2>4, OpenedIsCarried, AddedKeeps, ZenonT(30) DEF Carried
  <2>6. Carried(s, p, {}) /\ p.items = d.items /\ p.calls = e.calls
    <3>1. PICK x : x = [index |-> Len(b.items)]
      BY Zenon
    <3>2. p = event(b, "part_added", x)
      BY <2>1, <3>1, Zenon DEF partAdded
    <3>3. Carried(s, event(b, "part_added", x), {})
      BY <2>5, NotesAreCarried
    <3>. QED  BY <2>5, <3>2, <3>3, EventIs
  <2>7. IsEmitter(p)
    BY <2>6 DEF Carried
  <2>8. /\ g.current = n + 1 /\ g.items = p.items /\ g.out = p.out /\ g.nextSeq = p.nextSeq
        /\ g.calls = p.calls /\ g.nextID = p.nextID /\ DOMAIN g = DOMAIN p
    BY <2>1, <2>7 DEF IsEmitter
  <2>9. IsEmitter(g)
    BY <2>4, <2>6, <2>7, <2>8 DEF IsEmitter
  <2>10. Carried(s, g, {})
    <3>1. Len(g.items) = Len(p.items) /\ g.out = p.out /\ g.nextSeq = p.nextSeq
      BY <2>8
    <3>2. \A i \in 1..Len(p.items) :
                 /\ g.items[i].kind = p.items[i].kind /\ g.items[i].id = p.items[i].id
                 /\ g.items[i].text = p.items[i].text
                 /\ (g.items[i].closed /\ i \notin {}) <=> (p.items[i].closed /\ i \notin {})
      BY <2>8, Zenon
    <3>. QED  BY <2>6, <2>9, <3>1, <3>2, CarriedAlike
  <2>11. g.current # NoItem /\ ~g.items[g.current].closed /\ g.items[g.current].kind = kind /\ g.calls = e.calls
    BY <2>4, <2>6, <2>8 DEF NoItem
  <2>. QED  BY <2>2, <2>10, <2>11 DEF Ready
<1>. QED  BY <1>1, <1>2

LEMMA GrownIsReady ==
    ASSUME NEW s, NEW e, Ready(s, e), NEW i \in 1..Len(e.items), ~e.items[i].closed,
           NEW delta, IsList(delta), delta # <<>>
    PROVE  Ready(s, grow(e, i, delta)) /\ grow(e, i, delta).calls = e.calls /\ Voices(grow(e, i, delta).out)
<1>1. PICK d : d = grow(e, i, delta)
  OBVIOUS
<1>2. Carried(s, d, {}) /\ Keeps(d, e, {}) /\ Voices(d.out)
  BY <1>1, GrowIsCarried DEF Ready
<1>3. IsEmitter(e)
  BY DEF Ready, Carried
<1>4. d.current = e.current /\ d.calls = e.calls
  BY <1>2 DEF Keeps
<1>5. ASSUME d.current # NoItem
      PROVE  ~d.items[d.current].closed
  <2>1. e.current \in 1..Len(e.items)
    BY <1>3, <1>4, <1>5 DEF IsEmitter, NoItem
  <2>2. ~e.items[e.current].closed
    BY <1>4, <1>5 DEF Ready
  <2>. QED  BY <1>2, <1>4, <2>1, <2>2 DEF Keeps
<1>. QED  BY <1>1, <1>2, <1>4, <1>5 DEF Ready

LEMMA SaidIsReady ==
    ASSUME NEW s, NEW e, Ready(s, e), NEW kind, NEW delta, IsList(delta), delta # <<>>
    PROVE  Ready(s, say(e, kind, delta)) /\ say(e, kind, delta).calls = e.calls /\ Voices(say(e, kind, delta).out)
<1>1. PICK d : d = openText(e, kind)
  OBVIOUS
<1>2. Ready(s, d) /\ d.current # NoItem /\ d.calls = e.calls
  BY <1>1, TextIsOpened
<1>3. d.current \in 1..Len(d.items) /\ ~d.items[d.current].closed
  BY <1>2 DEF Ready, Carried, IsEmitter, NoItem
<1>4. say(e, kind, delta) = grow(d, d.current, delta)
  BY <1>1 DEF say, growCurrent
<1>. QED  BY <1>2, <1>3, <1>4, GrownIsReady

LEMMA CallIsOpened ==
    ASSUME NEW s, NEW e, Ready(s, e), NEW index, NEW call1
    PROVE  /\ Ready(s, openCall(e, index, call1)) /\ index \in DOMAIN openCall(e, index, call1).calls
           /\ DOMAIN openCall(e, index, call1).calls = DOMAIN e.calls \cup {index}
           /\ index \notin DOMAIN e.calls => Voices(openCall(e, index, call1).out)
<1>1. CASE index \in DOMAIN e.calls
  <2>1. openCall(e, index, call1) = e
    BY <1>1 DEF openCall
  <2>. QED  BY <1>1, <2>1
<1>2. CASE index \notin DOMAIN e.calls
  <2>1. PICK c, d, n : c = closeCurrent(e) /\ d = open(c, "function_call") /\ n = Len(e.items)
    BY Zenon
  <2>2. Carried(s, c, {}) /\ c.current = NoItem /\ c.calls = e.calls /\ Len(c.items) = n /\ IsEmitter(c)
    BY <2>1, CurrentIsClosed DEF Carried
  <2>3. /\ IsEmitter(d) /\ d.current = c.current /\ d.calls = c.calls /\ n \in Nat /\ d.out = c.out
        /\ d.nextSeq = c.nextSeq /\ Len(d.items) = n + 1 /\ \A i \in 1..n : d.items[i] = c.items[i]
        /\ d.items[n + 1].text = <<>> /\ ~d.items[n + 1].closed /\ d.items[n + 1].kind = "function_call"
    <3>1. IsEmitter(c)
      BY <2>2
    <3>2. /\ IsEmitter(d) /\ d.current = c.current /\ d.calls = c.calls /\ Len(c.items) \in Nat /\ d.out = c.out
          /\ d.nextSeq = c.nextSeq /\ Len(d.items) = Len(c.items) + 1
          /\ \A i \in 1..Len(c.items) : d.items[i] = c.items[i]
          /\ d.items[Len(c.items) + 1].text = <<>> /\ ~d.items[Len(c.items) + 1].closed
          /\ d.items[Len(c.items) + 1].kind = "function_call"
      BY <2>1, <3>1, OpenAdds
    <3>. QED  BY <2>2, <3>2
  <2>4. PICK w, x : w = d.items[n + 1] /\ x = [w EXCEPT !.call = call1]
    BY Zenon
  <2>5. IsItem(w) /\ IsItem(x) /\ x.text = <<>> /\ ~x.closed /\ x.kind = "function_call"
    <3>1. n + 1 \in 1..Len(d.items)
      BY <2>3
    <3>2. IsItem(w) /\ w.text = <<>> /\ ~w.closed /\ w.kind = "function_call"
      BY <2>3, <2>4, <3>1 DEF IsEmitter
    <3>. QED  BY <2>4, <3>2 DEF IsItem
  <2>6. PICK r : r = Replaced(d, n + 1, x)
    OBVIOUS
  <2>7. /\ IsEmitter(r) /\ r.out = d.out /\ r.nextSeq = d.nextSeq /\ r.current = d.current /\ r.calls = d.calls
        /\ Len(r.items) = Len(d.items) /\ r.items[n + 1] = x
        /\ \A j \in 1..Len(d.items) : j # n + 1 => r.items[j] = d.items[j]
    <3>1. n + 1 \in 1..Len(d.items)
      BY <2>3
    <3>. QED  BY <2>3, <2>5, <2>6, <3>1, ItemChanges
  <2>8. PICK m, b : m = Put(d.calls, index, n + 1) /\ b = [r EXCEPT !.calls = m]
    BY Zenon
  <2>9. /\ b.items = r.items /\ b.out = r.out /\ b.nextSeq = r.nextSeq /\ b.current = r.current
        /\ b.calls = m /\ DOMAIN b = DOMAIN r
    BY <2>7, <2>8 DEF IsEmitter
  <2>10. DOMAIN m = DOMAIN e.calls \cup {index} /\ \A k \in DOMAIN m : m[k] \in 1..(n + 1)
    <3>1. \A k \in DOMAIN d.calls : d.calls[k] \in 1..(n + 1)
      BY <2>3 DEF IsEmitter
    <3>2. n + 1 \in 1..(n + 1)
      BY <2>3
    <3>3. DOMAIN m = DOMAIN e.calls \cup {index}
      BY <2>2, <2>3, <2>8 DEF Put
    <3>4. \A k \in DOMAIN m : m[k] = n + 1 \/ (k \in DOMAIN d.calls /\ m[k] = d.calls[k])
      BY <2>8, Zenon DEF Put
    <3>. QED  BY <3>1, <3>2, <3>3, <3>4
  <2>11. IsEmitter(b)
    BY <2>3, <2>7, <2>9, <2>10 DEF IsEmitter
  <2>12. /\ b.out = c.out /\ b.nextSeq = c.nextSeq /\ Len(b.items) = Len(c.items) + 1
         /\ b.items[Len(c.items) + 1].text = <<>> /\ ~b.items[Len(c.items) + 1].closed
    BY <2>2, <2>3, <2>5, <2>7, <2>9
  <2>13. \A i \in 1..Len(c.items) : Alike(b.items[i], c.items[i])
    <3>1. \A i \in 1..Len(c.items) : i \in 1..Len(d.items) /\ i # n + 1 /\ i \in 1..n
      BY <2>2, <2>3
    <3>2. \A i \in 1..Len(c.items) : b.items[i] = c.items[i]
      BY <2>3, <2>7, <2>9, <3>1, Zenon
    <3>. QED  BY <3>2, Zenon DEF Alike
  <2>14. Carried(s, Added(b, FALSE), {})
    BY <2>2, <2>11, <2>12, <2>13, AddedIsCarried, Zenon
  <2>15. Added(b, FALSE).current = NoItem /\ Added(b, FALSE).calls = m
    <3>1. Added(b, FALSE).current = b.current /\ Added(b, FALSE).calls = b.calls
      BY <2>11, AddedKeeps, Zenon
    <3>. QED  BY <2>2, <2>3, <2>7, <2>9, <3>1, Zenon
  <2>16. openCall(e, index, call1) = Added(b, FALSE)
    <3>1. b = [d EXCEPT !.items[n + 1].call = call1, !.calls = Put(@, index, n + 1)]
      BY <2>3, <2>4, <2>6, <2>8, Zenon DEF Replaced, IsEmitter
    <3>. QED  BY <1>2, <2>1, <3>1, Zenon DEF openCall
  <2>17. Voices(Added(b, FALSE).out)
    <3>1. PICK note : note = [index |-> Len(b.items), kind |-> b.items[Len(b.items)].kind,
                              id |-> b.items[Len(b.items)].id, own |-> FALSE]
      BY Zenon
    <3>2. Added(b, FALSE) = event(b, "item_added", note)
      BY <3>1, Zenon DEF Added
    <3>3. b.items[Len(b.items)] = x
      BY <2>3, <2>7, <2>9
    <3>4. note.kind = "function_call"
      BY <2>5, <3>1, <3>3
    <3>. QED  BY <2>11, <3>2, <3>4, EventVoices, Zenon
  <2>. QED  BY <2>10, <2>14, <2>15, <2>16, <2>17, Zenon DEF Ready
<1>. QED  BY <1>1, <1>2

\* What the client is not told of may change, and leaves the emitter ready.
LEMMA SignedIsReady ==
    ASSUME NEW s, NEW e, Ready(s, e), NEW i \in 1..Len(e.items), NEW sig
    PROVE  /\ Ready(s, [e EXCEPT !.items[i].sig = sig])
           /\ [e EXCEPT !.items[i].sig = sig].calls = e.calls /\ [e EXCEPT !.items[i].sig = sig].out = e.out
           /\ Len([e EXCEPT !.items[i].sig = sig].items) = Len(e.items)
<1>1. PICK w, x, d : w = e.items[i] /\ x = [w EXCEPT !.sig = sig] /\ d = Replaced(e, i, x)
  BY Zenon
<1>2. IsEmitter(e) /\ IsItem(w)
  BY <1>1 DEF Ready, Carried, IsEmitter
<1>3. IsItem(x) /\ x.kind = w.kind /\ x.id = w.id /\ x.text = w.text /\ (x.closed <=> w.closed)
  BY <1>1, <1>2 DEF IsItem
<1>4. d = [e EXCEPT !.items[i].sig = sig]
  BY <1>1, <1>2, Zenon DEF Replaced, IsEmitter
<1>5. /\ IsEmitter(d) /\ d.out = e.out /\ d.nextSeq = e.nextSeq /\ d.current = e.current /\ d.calls = e.calls
      /\ Len(d.items) = Len(e.items) /\ d.items[i] = x
      /\ \A j \in 1..Len(e.items) : j # i => d.items[j] = e.items[j]
  <2>1. IsEmitter(e) /\ IsItem(x) /\ d = Replaced(e, i, x)
    BY <1>1, <1>2, <1>3
  <2>2. /\ IsEmitter(d) /\ d.out = e.out /\ d.nextSeq = e.nextSeq /\ d.current = e.current /\ d.calls = e.calls
        /\ d.nextID = e.nextID /\ Len(d.items) = Len(e.items) /\ d.items[i] = x
        /\ \A j \in 1..Len(e.items) : j # i => d.items[j] = e.items[j]
    BY <2>1, ItemChanges, SMTT(30)
  <2>. QED  BY <2>2
<1>6. \A j \in 1..Len(e.items) :
          /\ d.items[j].kind = e.items[j].kind /\ d.items[j].id = e.items[j].id /\ d.items[j].text = e.items[j].text
          /\ (d.items[j].closed /\ j \notin {}) <=> (e.items[j].closed /\ j \notin {})
          /\ d.items[j].closed <=> e.items[j].closed
  <2>. TAKE j \in 1..Len(e.items)
  <2>1. CASE j = i
    BY <1>1, <1>3, <1>5, <2>1, Zenon
  <2>2. CASE j # i
    <3>1. d.items[j] = e.items[j]
      BY <1>5, <2>2
    <3>. QED  BY <3>1, Zenon
  <2>. QED  BY <2>1, <2>2
<1>7. Carried(s, d, {})
  <2>1. Carried(s, e, {})
    BY DEF Ready
  <2>. QED  BY <1>5, <1>6, <2>1, CarriedAlike
<1>8. ASSUME d.current # NoItem
      PROVE  ~d.items[d.current].closed
  <2>1. e.current \in 1..Len(e.items) /\ ~e.items[e.current].closed
    BY <1>2, <1>5, <1>8 DEF IsEmitter, Ready, NoItem
  <2>. QED  BY <1>5, <1>6, <2>1
<1>9. Ready(s, d)
  BY <1>7, <1>8 DEF Ready
<1>. QED  BY <1>4, <1>5, <1>9

LEMMA CallIsReady ==
    ASSUME NEW s, NEW e, Ready(s, e), NEW index, NEW call1, NEW delta, IsList(delta), NEW sig
    PROVE  /\ Ready(s, toolCall(e, index, call1, delta, sig))
           /\ Tells(e, toolCall(e, index, call1, delta, sig)) /\ Heard(e, toolCall(e, index, call1, delta, sig))
<1>1. PICK d, i : d = openCall(e, index, call1) /\ i = d.calls[index]
  OBVIOUS
<1>2. /\ Ready(s, d) /\ index \in DOMAIN d.calls /\ DOMAIN d.calls = DOMAIN e.calls \cup {index}
      /\ index \notin DOMAIN e.calls => Voices(d.out)
  BY <1>1, CallIsOpened
<1>13. index \in DOMAIN e.calls => d = e
  BY <1>1 DEF openCall
<1>3. i \in 1..Len(d.items)
  BY <1>1, <1>2 DEF Ready, Carried, IsEmitter
<1>4. PICK b : b = IF sig = Missing THEN d ELSE [d EXCEPT !.items[i].sig = sig]
  BY Zenon
<1>5. Ready(s, b) /\ i \in 1..Len(b.items) /\ b.out = d.out
  <2>1. CASE sig = Missing
    BY <1>2, <1>3, <1>4, <2>1
  <2>2. CASE sig # Missing
    <3>1. PICK c : c = [d EXCEPT !.items[i].sig = sig]
      BY Zenon
    <3>2. /\ Ready(s, [d EXCEPT !.items[i].sig = sig]) /\ [d EXCEPT !.items[i].sig = sig].out = d.out
          /\ Len([d EXCEPT !.items[i].sig = sig].items) = Len(d.items)
      <4>1. Ready(s, d) /\ i \in 1..Len(d.items)
        BY <1>2, <1>3
      <4>. QED  BY <4>1, SignedIsReady, ZenonT(30)
    <3>3. b = c
      BY <1>4, <2>2, <3>1
    <3>. QED  BY <1>3, <3>1, <3>2, <3>3
  <2>. QED  BY <2>1, <2>2
<1>6. Ready(s, growCall(b, i, delta)) /\ (Voices(b.out) => Voices(growCall(b, i, delta).out))
  <2>1. CASE delta = <<>> \/ b.items[i].closed
    BY <1>5, <2>1 DEF growCall
  <2>2. CASE ~(delta = <<>> \/ b.items[i].closed)
    <3>1. growCall(b, i, delta) = grow(b, i, delta)
      BY <2>2 DEF growCall
    <3>. QED  BY <1>5, <2>2, <3>1, GrownIsReady
  <2>. QED  BY <2>1, <2>2
<1>7. toolCall(e, index, call1, delta, sig) = growCall(b, i, delta)
  BY <1>1, <1>4, Zenon DEF toolCall, addPiece, signCall
<1>8. PICK g : g = toolCall(e, index, call1, delta, sig)
  OBVIOUS
<1>9. Ready(s, g) /\ (Voices(d.out) => Voices(g.out))
  BY <1>5, <1>6, <1>7, <1>8
<1>10. Voices(e.out) => Voices(d.out)
  BY <1>2, <1>13
<1>11. Heard(e, g)
  BY <1>2, <1>9, Zenon DEF Heard
<1>. QED  BY <1>8, <1>9, <1>10, <1>11 DEF Tells

\* An item of the provider's own, added and done at once.
LEMMA ItemIsReady ==
    ASSUME NEW s, NEW e, Carried(s, e, {}), NEW kind
    PROVE  Ready(s, item(e, kind))
<1>1. PICK c, d, b, n : c = closeAll(e) /\ d = open(c, kind) /\ b = Added(d, TRUE) /\ n = Len(b.items)
  BY Zenon
<1>2. Carried(s, c, {}) /\ c.current = NoItem /\ IsEmitter(c)
  <2>1. Carried(s, c, {}) /\ c.current = NoItem
    BY <1>1, AllIsClosed
  <2>. QED  BY <2>1 DEF Carried
<1>3. IsEmitter(d) /\ d.current = NoItem /\ Len(c.items) \in Nat /\ Len(d.items) = Len(c.items) + 1
      /\ ~d.items[Len(c.items) + 1].closed
  <2>1. IsEmitter(c) /\ d = open(c, kind)
    BY <1>1, <1>2
  <2>2. IsEmitter(d) /\ d.current = c.current /\ Len(c.items) \in Nat /\ Len(d.items) = Len(c.items) + 1
        /\ ~d.items[Len(c.items) + 1].closed
    BY <2>1, OpenAdds
  <2>. QED  BY <1>2, <2>2
<1>4. Carried(s, b, {}) /\ IsEmitter(b)
  <2>1. Carried(s, b, {})
    BY <1>1, <1>2, OpenedIsCarried, Zenon
  <2>. QED  BY <2>1 DEF Carried
<1>5. b.items = d.items /\ b.current = NoItem
  <2>1. b.items = d.items /\ b.current = d.current
    BY <1>1, <1>3, AddedKeeps, Zenon
  <2>. QED  BY <1>3, <2>1
<1>6. n \in 1..Len(b.items) /\ ~b.items[n].closed
  <2>1. n = Len(d.items) /\ n = Len(b.items)
    BY <1>1, <1>5, Zenon
  <2>2. n = Len(c.items) + 1 /\ n \in Nat /\ n \in 1..n
    BY <1>3, <2>1
  <2>3. ~d.items[n].closed
    BY <1>3, <2>2
  <2>. QED  BY <1>5, <2>1, <2>2, <2>3
<1>7. PICK w, x, r : w = b.items[n] /\ x = [w EXCEPT !.closed = TRUE, !.own = TRUE] /\ r = Replaced(b, n, x)
  OBVIOUS
<1>8. IsItem(w)
  BY <1>4, <1>6, <1>7 DEF IsEmitter
<1>9. IsItem(x) /\ x.kind = w.kind /\ x.id = w.id /\ x.text = w.text /\ x.closed
  BY <1>7, <1>8 DEF IsItem
<1>10. /\ IsEmitter(r) /\ r.out = b.out /\ r.nextSeq = b.nextSeq /\ r.current = b.current
       /\ Len(r.items) = Len(b.items) /\ r.items[n] = x
       /\ \A j \in 1..Len(b.items) : j # n => r.items[j] = b.items[j]
  <2>1. IsEmitter(b) /\ IsItem(x) /\ r = Replaced(b, n, x)
    BY <1>4, <1>7, <1>9
  <2>. QED  BY <1>6, <2>1, ItemChanges
<1>11. \A j \in 1..Len(b.items) :
           /\ r.items[j].kind = b.items[j].kind /\ r.items[j].id = b.items[j].id /\ r.items[j].text = b.items[j].text
           /\ (r.items[j].closed /\ j \notin {n}) <=> (b.items[j].closed /\ j \notin {})
  <2>. TAKE j \in 1..Len(b.items)
  <2>1. CASE j = n
    BY <1>6, <1>7, <1>9, <1>10, <2>1, Zenon
  <2>2. CASE j # n
    <3>1. r.items[j] = b.items[j]
      BY <1>10, <2>2
    <3>. QED  BY <2>2, <3>1, Zenon
  <2>. QED  BY <2>1, <2>2
<1>12. Carried(s, r, {n})
  BY <1>4, <1>10, <1>11, CarriedAlike
<1>13. Carried(s, itemDone(r, n), {}) /\ Keeps(itemDone(r, n), r, {})
  <2>1. n \in 1..Len(r.items) /\ r.items[n].closed
    BY <1>6, <1>9, <1>10
  <2>. QED  BY <1>12, <2>1, DoneIsCarried, Zenon
<1>14. itemDone(r, n).current = NoItem
  BY <1>5, <1>10, <1>13 DEF Keeps
<1>15. item(e, kind) = itemDone(r, n)
  <2>1. r = [b EXCEPT !.items[n].closed = TRUE, !.items[n].own = TRUE]
    <3>1. [b EXCEPT !.items[n].closed = TRUE, !.items[n].own = TRUE] = [b EXCEPT !.items[n] = x]
      BY <1>4, <1>6, <1>7, <1>8, ZenonT(30) DEF IsEmitter, IsItem
    <3>. QED  BY <1>4, <1>7, <3>1, Zenon DEF Replaced, IsEmitter
  <2>. QED  BY <1>1, <2>1, Zenon DEF item, lastDone
<1>. QED  BY <1>13, <1>14, <1>15 DEF Ready

\* Whether an item keeps a form of its own is not told before it is done, nor is
\* the id the next one will have.
LEMMA OwnedIsReady ==
    ASSUME NEW s, NEW e, Ready(s, e)
    PROVE  Ready(s, owned(e))
<1>1. PICK n, w, v, d : n = Len(e.items) /\ w = e.items /\ v = [w EXCEPT ![n].own = TRUE] /\ d = owned(e)
  BY Zenon
<1>2. IsEmitter(e) /\ Carried(s, e, {}) /\ IsList(w)
  BY <1>1 DEF Ready, Carried, IsEmitter
<1>3. n \in Nat /\ DOMAIN w = 1..n
  BY <1>1, <1>2, ListHas
<1>4. d = [e EXCEPT !.items = v]
  BY <1>1, Zenon DEF owned
<1>5. /\ d.items = v /\ d.out = e.out /\ d.nextSeq = e.nextSeq /\ d.current = e.current
      /\ d.calls = e.calls /\ DOMAIN d = DOMAIN e
  BY <1>2, <1>4 DEF IsEmitter
<1>6. DOMAIN v = 1..n /\ v = [i \in 1..n |-> v[i]]
  BY <1>1, <1>3, Zenon
<1>7. IsList(v) /\ Len(v) = n
  BY <1>3, <1>6, ListIs
<1>8. ASSUME NEW i \in 1..n
      PROVE  /\ IsItem(v[i]) /\ v[i].kind = w[i].kind /\ v[i].id = w[i].id /\ v[i].text = w[i].text
             /\ v[i].closed <=> w[i].closed
  <2>1. v[i] = IF i = n THEN [w[i] EXCEPT !.own = TRUE] ELSE w[i]
    BY <1>1, <1>3, Zenon
  <2>2. IsItem(w[i])
    BY <1>1, <1>2 DEF IsEmitter
  <2>. QED  BY <2>1, <2>2 DEF IsItem
<1>9. IsEmitter(d)
  <2>1. /\ IsList(e.out) /\ DOMAIN e = {"nextSeq", "items", "current", "calls", "nextID", "out"}
        /\ \A k \in DOMAIN e.calls : e.calls[k] \in 1..n
        /\ e.current \in 0..n
    BY <1>1, <1>2 DEF IsEmitter
  <2>. QED  BY <1>5, <1>7, <1>8, <2>1 DEF IsEmitter
<1>10. \A i \in 1..Len(e.items) :
           /\ d.items[i].kind = e.items[i].kind /\ d.items[i].id = e.items[i].id /\ d.items[i].text = e.items[i].text
           /\ (d.items[i].closed /\ i \notin {}) <=> (e.items[i].closed /\ i \notin {})
  BY <1>1, <1>5, <1>8
<1>11. Carried(s, d, {})
  <2>1. Len(d.items) = Len(e.items)
    BY <1>1, <1>5, <1>7
  <2>. QED  BY <1>2, <1>5, <1>9, <1>10, <2>1, CarriedAlike
<1>12. ASSUME d.current # NoItem
       PROVE  ~d.items[d.current].closed
  <2>1. e.current \in 1..n /\ ~w[e.current].closed
    BY <1>1, <1>2, <1>5, <1>12 DEF IsEmitter, Ready, NoItem
  <2>. QED  BY <1>5, <1>8, <2>1
<1>. QED  BY <1>1, <1>11, <1>12 DEF Ready

LEMMA NamedIsReady ==
    ASSUME NEW s, NEW e, Ready(s, e), NEW o
    PROVE  Ready(s, named(e, o))
<1>1. PICK c, d : c = (IF o.kind \in {"reasoning", "message"} THEN closeAll(e) ELSE e) /\ d = [c EXCEPT !.nextID = o.id]
  BY Zenon
<1>2. Ready(s, c)
  <2>1. CASE c = e
    BY <2>1
  <2>2. CASE c = closeAll(e)
    <3>1. Carried(s, e, {})
      BY DEF Ready
    <3>. QED  BY <2>2, <3>1, AllIsClosed DEF Ready
  <2>. QED  BY <1>1, <2>1, <2>2
<1>3. Carried(s, c, {}) /\ IsEmitter(c)
  BY <1>2 DEF Ready, Carried
<1>4. /\ d.items = c.items /\ d.out = c.out /\ d.nextSeq = c.nextSeq /\ d.current = c.current
      /\ d.calls = c.calls /\ DOMAIN d = DOMAIN c
  BY <1>1, <1>3 DEF IsEmitter
<1>5. IsEmitter(d)
  BY <1>3, <1>4 DEF IsEmitter
<1>6. Carried(s, d, {})
  <2>1. Len(d.items) = Len(c.items)
    BY <1>4
  <2>2. \A i \in 1..Len(c.items) :
               /\ d.items[i].kind = c.items[i].kind /\ d.items[i].id = c.items[i].id
               /\ d.items[i].text = c.items[i].text
               /\ (d.items[i].closed /\ i \notin {}) <=> (c.items[i].closed /\ i \notin {})
    BY <1>4, Zenon
  <2>. QED  BY <1>3, <1>4, <1>5, <2>1, <2>2, CarriedAlike
<1>7. Ready(s, d)
  BY <1>2, <1>4, <1>6 DEF Ready
<1>. QED  BY <1>1, <1>7 DEF named

\* An item of a whole reply.
LEMMA PlacedIsReady ==
    ASSUME NEW s, NEW e, Ready(s, e), NEW p, IsList(p.item.text)
    PROVE  Ready(s, place(e, p))
<1>1. PICK k, o, c : k = p.at /\ o = p.item /\ c = named(e, o)
  OBVIOUS
<1>2. Ready(s, c) /\ IsList(o.text)
  BY <1>1, NamedIsReady
<1>3. Ready(s, wholeItem(c, k, o))
  <2>1. CASE o.kind = "function_call"
    <3>1. wholeItem(c, k, o) = owned(toolCall(c, k, o.call, o.text, o.sig))
      BY <2>1 DEF wholeItem
    <3>2. Ready(s, toolCall(c, k, o.call, o.text, o.sig))
      BY <1>2, CallIsReady
    <3>. QED  BY <3>1, <3>2, OwnedIsReady
  <2>2. CASE o.kind # "function_call" /\ o.kind \in {"reasoning", "message"} /\ o.text # <<>>
    <3>1. wholeItem(c, k, o) = owned(say(c, o.kind, o.text))
      BY <2>2 DEF wholeItem
    <3>2. Ready(s, say(c, o.kind, o.text))
      BY <1>2, <2>2, SaidIsReady
    <3>. QED  BY <3>1, <3>2, OwnedIsReady
  <2>3. CASE o.kind # "function_call" /\ ~(o.kind \in {"reasoning", "message"} /\ o.text # <<>>)
    <3>1. wholeItem(c, k, o) = item(c, o.kind)
      BY <2>3 DEF wholeItem
    <3>2. Carried(s, c, {})
      BY <1>2 DEF Ready
    <3>. QED  BY <3>1, <3>2, ItemIsReady
  <2>. QED  BY <2>1, <2>2, <2>3
<1>. QED  BY <1>1, <1>3 DEF place

LEMMA PieceIsAList == \A f, n : IsList(Piece(f, n)) /\ Piece(f, n) # <<>>
<1>. TAKE f, n
<1>1. PICK x : x = <<f, n>>
  BY Zenon
<1>2. <<x>> = Append(<<>>, x)
  OBVIOUS
<1>3. IsList(Append(<<>>, x)) /\ Append(<<>>, x) # <<>>
  BY NothingIsAList, ListGrows, Zenon
<1>. QED  BY <1>1, <1>2, <1>3 DEF Piece

\* A piece of text, and one of a call.
LEMMA FieldIsReady ==
    ASSUME NEW s, NEW e, Ready(s, e), NEW field, NEW kind, NEW c
    PROVE  /\ Ready(s, sayField(e, field, kind, c)) /\ Tells(e, sayField(e, field, kind, c))
           /\ field \in c.says => Heard(e, sayField(e, field, kind, c))
<1>1. PICK p, d : p = Piece(field, c.n) /\ d = say(e, kind, p)
  OBVIOUS
<1>2. IsList(p) /\ p # <<>>
  BY <1>1, PieceIsAList
<1>3. Ready(s, d) /\ d.calls = e.calls /\ Voices(d.out)
  BY <1>1, <1>2, SaidIsReady
<1>4. Tells(e, d) /\ Heard(e, d)
  BY <1>3, Zenon DEF Tells, Heard
<1>5. sayField(e, field, kind, c) = IF field \in c.says THEN d ELSE e
  BY <1>1 DEF sayField
<1>6. CASE field \in c.says
  <2>1. sayField(e, field, kind, c) = d
    BY <1>5, <1>6
  <2>. QED  BY <1>3, <1>4, <2>1
<1>7. CASE field \notin c.says
  <2>1. sayField(e, field, kind, c) = e
    BY <1>5, <1>7
  <2>. QED  BY <1>7, <2>1, TellsItself
<1>. QED  BY <1>6, <1>7

LEMMA FieldsAreReady ==
    ASSUME NEW s, NEW e, Ready(s, e), NEW c
    PROVE  /\ Ready(s, sayFields(e, c)) /\ Tells(e, sayFields(e, c))
           /\ \A f \in Fields : f \in c.says => Heard(e, sayFields(e, c))
<1>1. PICK d, g, h : /\ d = sayField(e, "reasoning", "reasoning", c)
                     /\ g = sayField(d, "content", "message", c)
                     /\ h = sayField(g, "refusal", "message", c)
  OBVIOUS
<1>2. Ready(s, d) /\ Tells(e, d) /\ ("reasoning" \in c.says => Heard(e, d))
  BY <1>1, FieldIsReady
<1>3. Ready(s, g) /\ Tells(d, g) /\ ("content" \in c.says => Heard(d, g))
  BY <1>1, <1>2, FieldIsReady
<1>4. Ready(s, h) /\ Tells(g, h) /\ ("refusal" \in c.says => Heard(g, h))
  BY <1>1, <1>3, FieldIsReady
<1>5. Tells(e, g) /\ (Heard(e, d) \/ Heard(d, g) => Heard(e, g))
  BY <1>2, <1>3, TellsOn
<1>6. Tells(e, h) /\ (Heard(e, g) \/ Heard(g, h) => Heard(e, h))
  BY <1>4, <1>5, TellsOn
<1>7. sayFields(e, c) = h
  BY <1>1 DEF sayFields
<1>8. \A f \in Fields : f \in c.says => Heard(e, h)
  BY <1>2, <1>3, <1>4, <1>5, <1>6 DEF Fields
<1>. QED  BY <1>4, <1>6, <1>7, <1>8

\* A chunk of a Chat stream: its calls are a list and its fields are known. It
\* speaks when it has output for the first choice.
IsChunk(c) == IsList(c.calls) /\ c.says \subseteq Fields
Speaks(c) == c.choice = 0 /\ CarriesOutput(c)

LEMMA CallsAreReady ==
    ASSUME NEW s, NEW e, Ready(s, e), NEW c, IsChunk(c)
    PROVE  /\ Ready(s, FoldLeft(callPiece, e, callPieces(c))) /\ Tells(e, FoldLeft(callPiece, e, callPieces(c)))
           /\ c.calls # <<>> => Heard(e, FoldLeft(callPiece, e, callPieces(c)))
<1>1. PICK n, q : n = Len(c.calls) /\ q = callPieces(c)
  BY Zenon
<1>2. n \in Nat /\ DOMAIN c.calls = 1..n
  BY <1>1, ListHas DEF IsChunk
<1>3. DOMAIN q = 1..n
  BY <1>1, <1>2 DEF callPieces
<1>4. \A i \in 1..n : IsList(q[i].delta)
  <2>. TAKE i \in 1..n
  <2>1. q[i].delta = IF c.calls[i].args THEN Piece("args", c.n) ELSE <<>>
    BY <1>1, <1>2 DEF callPieces
  <2>. QED  BY <2>1, PieceIsAList, NothingIsAList
<1>5. PICK f : Calling!Goes(f, e, q, n) /\ Calling!Run(e, q) = f[n]
  BY <1>2, <1>3, Calling!RunIs
<1>6. FoldLeft(callPiece, e, q) = f[n]
  <2>1. FoldLeft(callPiece, e, q) = Calling!FoldLeft(callPiece, e, q)
    BY Zenon DEF FoldLeft, MapThenFoldSet, Max, Calling!FoldLeft, Calling!MapThenFoldSet, Calling!Max
  <2>. QED  BY <1>5, <2>1, Zenon DEF Calling!Run
<1>. DEFINE T == {i \in Nat : Ready(s, f[i]) /\ Tells(e, f[i]) /\ (i > 0 => Heard(e, f[i]))}
<1>7. 0 \in T
  BY <1>5, TellsItself DEF Calling!Goes
<1>8. ASSUME NEW i \in 1..n, i - 1 \in T
      PROVE  i \in T
  <2>1. PICK d, g, p : d = f[i - 1] /\ g = f[i] /\ p = q[i]
    OBVIOUS
  <2>2. Ready(s, d) /\ Tells(e, d) /\ g = callPiece(d, p) /\ i \in Nat
    BY <1>5, <1>8, <2>1 DEF Calling!Goes
  <2>3. g = toolCall(d, p.index, p.id, p.delta, p.sig) /\ IsList(p.delta)
    BY <1>4, <2>1, <2>2 DEF callPiece
  <2>4. Ready(s, g) /\ Tells(d, g) /\ Heard(d, g)
    BY <2>2, <2>3, CallIsReady
  <2>5. Tells(e, g) /\ Heard(e, g)
    BY <2>2, <2>4, TellsOn
  <2>. QED  BY <2>1, <2>2, <2>4, <2>5, Zenon
<1>. HIDE DEF T
<1>9. \A i \in 1..n : i - 1 \in T => i \in T
  BY <1>8
<1>10. n \in T
  <2>1. \A i \in 0..n : i \in T
    BY <1>2, <1>7, <1>9, Calling!Upwards, Zenon
  <2>. QED  BY <1>2, <2>1
<1>11. c.calls # <<>> => n > 0
  <2>1. ASSUME n = 0
        PROVE  c.calls = <<>>
    <3>1. PICK S, x : x = c.calls /\ x \in Seq(S)
      BY DEF IsChunk, IsList
    <3>2. Len(x) = 0
      BY <1>1, <2>1, <3>1, Zenon
    <3>3. x = <<>>
      BY <3>1, <3>2
    <3>. QED  BY <3>1, <3>3
  <2>. QED  BY <1>2, <2>1
<1>. QED  BY <1>1, <1>6, <1>10, <1>11 DEF T

LEMMA TranslatedIsReady ==
    ASSUME NEW s, NEW e, Ready(s, e), NEW c, IsChunk(c)
    PROVE  /\ Ready(s, translate(e, c)) /\ Tells(e, translate(e, c))
           /\ Speaks(c) => Heard(e, translate(e, c))
<1>1. PICK d, g : d = sayFields(e, c) /\ g = FoldLeft(callPiece, d, callPieces(c))
  OBVIOUS
<1>2. /\ Ready(s, d) /\ Tells(e, d) /\ \A f \in Fields : f \in c.says => Heard(e, d)
  BY <1>1, FieldsAreReady
<1>3. Ready(s, g) /\ Tells(d, g) /\ (c.calls # <<>> => Heard(d, g))
  BY <1>1, <1>2, CallsAreReady
<1>4. Tells(e, g) /\ (Heard(e, d) \/ Heard(d, g) => Heard(e, g))
  BY <1>2, <1>3, TellsOn
<1>5. translate(e, c) = IF c.choice # 0 THEN e ELSE g
  BY <1>1, Zenon DEF translate
<1>6. CASE c.choice # 0
  <2>1. translate(e, c) = e /\ ~Speaks(c)
    BY <1>5, <1>6 DEF Speaks
  <2>. QED  BY <2>1, TellsItself
<1>7. CASE c.choice = 0
  <2>1. translate(e, c) = g
    BY <1>5, <1>7
  <2>2. Speaks(c) => c.calls # <<>> \/ \E f \in Fields : f \in c.says
    BY DEF Speaks, CarriesOutput, IsChunk
  <2>. QED  BY <1>2, <1>3, <1>4, <2>1, <2>2
<1>. QED  BY <1>6, <1>7

\* The events that open a response.
LEMMA StartIsReady ==
    IsClient(NothingSeen) /\ Ready(NothingSeen, start(newResponsesEmitter))
<1>1. IsClient(NothingSeen) /\ NothingSeen.next = 0 /\ NothingSeen.phase = "new" /\ NothingSeen.items = <<>>
  BY NothingIsAList DEF NothingSeen, IsClient, IsSeen, Phases
<1>2. PICK e : e = newResponsesEmitter
  OBVIOUS
<1>3. /\ IsEmitter(e) /\ e.out = <<>> /\ e.nextSeq = 0 /\ e.items = <<>> /\ e.current = NoItem
  BY <1>2, NothingIsAList DEF newResponsesEmitter, IsEmitter, NoItem
<1>4. PICK t, f, u, b : /\ t = NothingSeen /\ f = Sent(e, "created", NoFields) /\ u = TakeEvent(t, f)
                     /\ b = event(e, "created", NoFields)
  OBVIOUS
<1>5. Leads(t, e.out, t)
  BY <1>1, <1>3, <1>4, LeadsNowhere
<1>6. f.type = "created" /\ f.seq = 0
  BY <1>3, <1>4 DEF Sent
<1>7. Proper(t, f) /\ IsClient(t)
  BY <1>1, <1>4, <1>6 DEF Proper
<1>8. u.phase = "open" /\ u.items = <<>>
  BY <1>1, <1>4, <1>6, <1>7, Created
<1>9. Leads(t, b.out, u) /\ u.next = b.nextSeq /\ b.items = <<>> /\ IsEmitter(b) /\ b.current = NoItem
  <2>1. Proper(t, Sent(e, "created", NoFields))
    BY <1>4, <1>7
  <2>2. /\ Leads(t, event(e, "created", NoFields).out, TakeEvent(t, Sent(e, "created", NoFields)))
        /\ TakeEvent(t, Sent(e, "created", NoFields)).next = event(e, "created", NoFields).nextSeq
    <3>1. IsEmitter(e) /\ Leads(t, e.out, t)
      BY <1>3, <1>5
    <3>. QED  BY <2>1, <3>1, Sends
  <2>. QED  BY <1>3, <1>4, <2>2, EventIs
<1>10. Shows(u, b, {})
  BY <1>8, <1>9, NothingIsAList DEF Shows
<1>11. Carried(t, b, {})
  BY <1>9, <1>10 DEF Carried
<1>12. PICK c : c = event(b, "in_progress", NoFields)
  OBVIOUS
<1>13. Carried(t, c, {}) /\ c.current = NoItem
  <2>1. Carried(t, event(b, "in_progress", NoFields), {})
    BY <1>11, NotesAreCarried
  <2>. QED  BY <1>9, <1>12, <2>1, EventIs
<1>14. start(newResponsesEmitter) = c
  BY <1>2, <1>4, <1>12 DEF start
<1>. QED  BY <1>1, <1>4, <1>13, <1>14 DEF Ready

\* The end of a response: the client then has all of it.
Told(s, e) == IsEmitter(e) /\ \E t : Leads(s, e.out, t) /\ t.phase = "complete"
LEMMA FinishIsTold ==
    ASSUME NEW s, NEW e, Carried(s, e, {}), NEW final, final.status \in LastEvents
    PROVE  Told(s, finish(e, final))
<1>1. PICK d : d = closeAll(e)
  OBVIOUS
<1>2. Carried(s, d, {}) /\ Len(d.items) = Len(e.items) /\ \A i \in 1..Len(e.items) : d.items[i].closed
  BY <1>1, AllIsClosed
<1>3. PICK t : Leads(s, d.out, t) /\ Shows(t, d, {})
  BY <1>2 DEF Carried
<1>4. PICK type, fields : type = final.status /\ fields = [output |-> stampIDs(d.items, final.output)]
  BY Zenon
<1>5. PICK f, b : f = Sent(d, type, fields) /\ b = event(d, type, fields)
  OBVIOUS
<1>6. f.type = type /\ f.seq = d.nextSeq /\ type \in LastEvents
  BY <1>4, <1>5 DEF Sent
<1>7. \A i \in 1..Len(t.items) : t.items[i].done
  BY <1>2, <1>3 DEF Shows
<1>8. Proper(t, f)
  <2>1. f.seq = t.next /\ t.phase = "open"
    BY <1>3, <1>6 DEF Shows
  <2>. QED  BY <1>6, <1>7, <2>1 DEF Proper, Continues
<1>9. IsEmitter(d) /\ IsList(d.out)
  BY <1>2 DEF Carried, IsEmitter
<1>10. Leads(s, b.out, TakeEvent(t, f)) /\ IsEmitter(b)
  <2>1. Proper(t, Sent(d, type, fields))
    BY <1>5, <1>8
  <2>2. Leads(s, event(d, type, fields).out, TakeEvent(t, Sent(d, type, fields)))
    BY <1>3, <1>9, <2>1, Sends
  <2>. QED  BY <1>5, <1>9, <2>2, EventIs
<1>11. IsClient(t)
  BY <1>3, <1>9, LeadsToClients
<1>12. TakeEvent(t, f).phase = "complete"
  BY <1>6, <1>8, <1>11, Completed
<1>13. finish(e, final) = b
  BY <1>1, <1>4, <1>5, Zenon DEF finish, ended
<1>. QED  BY <1>10, <1>12, <1>13 DEF Told

\* A whole reply, item by item.
LEMMA OutputIsReady ==
    ASSUME NEW s, NEW e, Ready(s, e), NEW output, IsList(output),
           \A k \in DOMAIN output : IsList(output[k].text)
    PROVE  Ready(s, FoldLeft(place, e, places(output)))
<1>1. PICK n, q : n = Len(output) /\ q = places(output)
  BY Zenon
<1>2. n \in Nat /\ DOMAIN output = 1..n
  BY <1>1, ListHas
<1>3. DOMAIN q = 1..n
  BY <1>1, <1>2 DEF places
<1>4. \A i \in 1..n : IsList(q[i].item.text)
  <2>. TAKE i \in 1..n
  <2>1. q[i].item = output[i]
    BY <1>1, <1>2 DEF places
  <2>. QED  BY <1>2, <2>1
<1>5. PICK f : Placing!Goes(f, e, q, n) /\ Placing!Run(e, q) = f[n]
  BY <1>2, <1>3, Placing!RunIs
<1>6. FoldLeft(place, e, q) = f[n]
  <2>1. FoldLeft(place, e, q) = Placing!FoldLeft(place, e, q)
    BY Zenon DEF FoldLeft, MapThenFoldSet, Max, Placing!FoldLeft, Placing!MapThenFoldSet, Placing!Max
  <2>. QED  BY <1>5, <2>1, Zenon DEF Placing!Run
<1>. DEFINE T == {i \in Nat : Ready(s, f[i])}
<1>7. 0 \in T
  BY <1>5 DEF Placing!Goes
<1>8. ASSUME NEW i \in 1..n, i - 1 \in T
      PROVE  i \in T
  <2>1. Ready(s, f[i - 1]) /\ f[i] = place(f[i - 1], q[i]) /\ i \in Nat
    BY <1>5, <1>8 DEF Placing!Goes
  <2>2. Ready(s, place(f[i - 1], q[i]))
    BY <1>4, <2>1, PlacedIsReady
  <2>. QED  BY <2>1, <2>2
<1>. HIDE DEF T
<1>9. \A i \in 1..n : i - 1 \in T => i \in T
  BY <1>8
<1>10. n \in T
  <2>1. \A i \in 0..n : i \in T
    BY <1>2, <1>7, <1>9, Placing!Upwards, Zenon
  <2>. QED  BY <1>2, <2>1
<1>. QED  BY <1>1, <1>6, <1>10 DEF T

LEMMA WholeIsTold ==
    ASSUME NEW reply, reply.status \in LastEvents, IsList(reply.output),
           \A k \in DOMAIN reply.output : IsList(reply.output[k].text)
    PROVE  Told(NothingSeen, bufferedResponsesFrames(reply))
<1>1. PICK e, d : e = start(newResponsesEmitter) /\ d = FoldLeft(place, e, places(reply.output))
  OBVIOUS
<1>2. Ready(NothingSeen, e)
  BY <1>1, StartIsReady
<1>3. Ready(NothingSeen, d)
  BY <1>1, <1>2, OutputIsReady
<1>4. Carried(NothingSeen, d, {})
  BY <1>3 DEF Ready
<1>5. Told(NothingSeen, finish(d, reply))
  BY <1>4, FinishIsTold
<1>. QED  BY <1>1, <1>5 DEF bufferedResponsesFrames


\* A refusal: the response is created and ends.
LEMMA RefusalIsTold ==
    Told(NothingSeen, event(event(newResponsesEmitter, "created", NoFields), "incomplete", [output |-> <<>>]))
<1>1. IsClient(NothingSeen) /\ NothingSeen.next = 0 /\ NothingSeen.phase = "new" /\ NothingSeen.items = <<>>
  BY NothingIsAList DEF NothingSeen, IsClient, IsSeen, Phases
<1>2. PICK e, t : e = newResponsesEmitter /\ t = NothingSeen
  OBVIOUS
<1>3. /\ IsEmitter(e) /\ e.out = <<>> /\ e.nextSeq = 0
  BY <1>2, NothingIsAList DEF newResponsesEmitter, IsEmitter, NoItem
<1>4. PICK f, u, b : /\ f = Sent(e, "created", NoFields) /\ u = TakeEvent(t, f)
                     /\ b = event(e, "created", NoFields)
  OBVIOUS
<1>5. f.type = "created" /\ f.seq = 0
  BY <1>3, <1>4 DEF Sent
<1>6. Proper(t, f) /\ IsClient(t)
  BY <1>1, <1>2, <1>5 DEF Proper
<1>7. u.phase = "open" /\ u.items = <<>>
  BY <1>1, <1>2, <1>4, <1>5, <1>6, Created
<1>8. IsEmitter(b) /\ Leads(t, b.out, u) /\ u.next = b.nextSeq
  <2>1. Leads(t, e.out, t) /\ IsEmitter(e) /\ Proper(t, Sent(e, "created", NoFields))
    BY <1>3, <1>4, <1>6, LeadsNowhere
  <2>2. /\ Leads(t, event(e, "created", NoFields).out, TakeEvent(t, Sent(e, "created", NoFields)))
        /\ TakeEvent(t, Sent(e, "created", NoFields)).next = event(e, "created", NoFields).nextSeq
    BY <2>1, Sends
  <2>. QED  BY <1>4, <2>1, <2>2, EventIs
<1>9. PICK fields, c, g : /\ fields = [output |-> <<>>] /\ c = event(b, "incomplete", fields)
                          /\ g = Sent(b, "incomplete", fields)
  BY Zenon
<1>10. g.type = "incomplete" /\ g.seq = b.nextSeq
  BY <1>9 DEF Sent
<1>11. Proper(u, g)
  <2>1. g.type \in LastEvents /\ \A i \in 1..Len(u.items) : u.items[i].done
    BY <1>7, <1>10, NothingIsAList DEF LastEvents
  <2>. QED  BY <1>7, <1>8, <1>10, <2>1 DEF Proper, Continues
<1>12. IsEmitter(c) /\ Leads(t, c.out, TakeEvent(u, g))
  <2>1. IsEmitter(b) /\ Leads(t, b.out, u) /\ Proper(u, Sent(b, "incomplete", fields))
    BY <1>8, <1>9, <1>11
  <2>2. Leads(t, event(b, "incomplete", fields).out, TakeEvent(u, Sent(b, "incomplete", fields)))
    BY <2>1, Sends
  <2>. QED  BY <1>9, <2>1, <2>2, EventIs
<1>13. IsClient(u)
  <2>1. IsList(b.out)
    BY <1>8 DEF IsEmitter
  <2>. QED  BY <1>8, <2>1, LeadsToClients, Zenon
<1>14. TakeEvent(u, g).phase = "complete"
  BY <1>10, <1>11, <1>13, Completed DEF LastEvents
<1>15. c = event(event(newResponsesEmitter, "created", NoFields), "incomplete", [output |-> <<>>])
  BY <1>2, <1>4, <1>9
<1>16. Told(t, c)
  BY <1>12, <1>14 DEF Told
<1>. QED  BY <1>2, <1>15, <1>16

-----------------------------------------------------------------------------
(* The source that wraps a Chat stream *)

\* The events are handed out, and the emitter goes on from there.
LEMMA ReadyIsDrained ==
    ASSUME NEW s, NEW e, Ready(s, e)
    PROVE  \E t : Leads(s, e.out, t) /\ t.phase = "open" /\ Ready(t, [e EXCEPT !.out = <<>>])
<1>1. IsEmitter(e) /\ (e.current # NoItem => ~e.items[e.current].closed)
  BY DEF Ready, Carried
<1>2. PICK t : Leads(s, e.out, t) /\ Shows(t, e, {})
  BY DEF Ready, Carried
<1>3. PICK d : d = [e EXCEPT !.out = <<>>]
  BY Zenon
<1>4. /\ d.out = <<>> /\ d.items = e.items /\ d.nextSeq = e.nextSeq /\ d.calls = e.calls
      /\ d.current = e.current /\ DOMAIN d = DOMAIN e
  BY <1>1, <1>3 DEF IsEmitter
<1>5. IsEmitter(d)
  BY <1>1, <1>4, NothingIsAList DEF IsEmitter
<1>6. IsClient(t)
  <2>1. IsList(e.out)
    BY <1>1 DEF IsEmitter
  <2>. QED  BY <1>2, <2>1, LeadsToClients
<1>7. Leads(t, d.out, t)
  BY <1>4, <1>6, LeadsNowhere
<1>8. Shows(t, d, {})
  BY <1>2, <1>4, Zenon DEF Shows
<1>9. Carried(t, d, {})
  BY <1>5, <1>7, <1>8 DEF Carried
<1>10. Ready(t, d)
  BY <1>1, <1>4, <1>9 DEF Ready
<1>11. t.phase = "open"
  BY <1>2 DEF Shows
<1>. QED  BY <1>2, <1>3, <1>10, <1>11

\* A client that takes the queue is then ready for what the emitter sends next.
SourceFields == {"dialect", "queue", "em", "acc", "finished", "done", "role", "calls", "usage",
                 "lastSeq", "output", "final"}
Pending(s, r) ==
    /\ DOMAIN r = SourceFields /\ IsList(r.queue) /\ r.em.out = <<>>
    /\ \E t : Leads(s, r.queue, t) /\ t.phase = "open" /\ Ready(t, r.em)

\* What a source is beside its queue, its emitter and what it ends with.
Beside(r, q) ==
    /\ r.dialect = q.dialect /\ r.finished = q.finished /\ r.done = q.done /\ r.role = q.role
    /\ r.calls = q.calls /\ r.usage = q.usage /\ r.acc = q.acc

LEMMA ChunksAreEmitted ==
    ASSUME NEW t, NEW r, DOMAIN r = SourceFields, Ready(t, r.em),
           NEW frames, IsList(frames),
           \A k \in DOMAIN frames : frames[k].type = "chunk" /\ IsChunk(frames[k].chunk)
    PROVE  LET q == FoldLeft(ReEmitFrame, r, frames)
           IN  /\ DOMAIN q = SourceFields /\ Ready(t, q.em) /\ q.queue = r.queue /\ Beside(q, r)
               /\ Tells(r.em, q.em) /\ \A k \in DOMAIN frames : Speaks(frames[k].chunk) => Heard(r.em, q.em)
<1>1. PICK n, q : n = Len(frames) /\ q = FoldLeft(ReEmitFrame, r, frames)
  BY Zenon
<1>2. n \in Nat /\ DOMAIN frames = 1..n
  BY <1>1, ListHas
<1>3. PICK f : Emitting!Goes(f, r, frames, n) /\ Emitting!Run(r, frames) = f[n]
  BY <1>2, Emitting!RunIs
<1>4. q = f[n]
  <2>1. FoldLeft(ReEmitFrame, r, frames) = Emitting!FoldLeft(ReEmitFrame, r, frames)
    BY Zenon DEF FoldLeft, MapThenFoldSet, Max, Emitting!FoldLeft, Emitting!MapThenFoldSet, Emitting!Max
  <2>. QED  BY <1>1, <1>3, <2>1, Zenon DEF Emitting!Run
<1>. DEFINE Fine(p) == DOMAIN p = SourceFields /\ Ready(t, p.em) /\ p.queue = r.queue /\ Beside(p, r)
            Telling(p, i) == Tells(r.em, p.em) /\ \A k \in 1..i : Speaks(frames[k].chunk) => Heard(r.em, p.em)
            T == {i \in Nat : Fine(f[i]) /\ Telling(f[i], i)}
<1>5. 0 \in T
  BY <1>3, TellsItself DEF Emitting!Goes, Beside
<1>6. ASSUME NEW i \in 1..n, i - 1 \in T
      PROVE  i \in T
  <2>1. PICK p, g : p = f[i - 1] /\ g = frames[i]
    OBVIOUS
  <2>2. /\ Fine(p) /\ Telling(p, i - 1)
        /\ f[i] = ReEmitFrame(p, g) /\ i \in Nat /\ g.type = "chunk" /\ IsChunk(g.chunk)
    BY <1>2, <1>3, <1>6, <2>1 DEF Emitting!Goes
  <2>3. f[i] = [p EXCEPT !.em = translate(p.em, g.chunk)]
    BY <2>2, Zenon DEF ReEmitFrame
  <2>4. /\ Ready(t, translate(p.em, g.chunk)) /\ Tells(p.em, translate(p.em, g.chunk))
        /\ Speaks(g.chunk) => Heard(p.em, translate(p.em, g.chunk))
    BY <2>2, TranslatedIsReady
  <2>5. f[i].em = translate(p.em, g.chunk) /\ DOMAIN f[i] = SourceFields /\ f[i].queue = r.queue /\ Beside(f[i], r)
    BY <2>2, <2>3 DEF SourceFields, Beside
  <2>6. Tells(r.em, p.em) /\ Tells(p.em, f[i].em) /\ (Speaks(g.chunk) => Heard(p.em, f[i].em))
    BY <2>2, <2>4, <2>5
  <2>7. Tells(r.em, f[i].em) /\ (Heard(r.em, p.em) \/ Heard(p.em, f[i].em) => Heard(r.em, f[i].em))
    BY <2>6, TellsOn
  <2>8. Telling(f[i], i)
    <3>1. ASSUME NEW k \in 1..i, Speaks(frames[k].chunk)
          PROVE  Heard(r.em, f[i].em)
      <4>1. CASE k = i
        BY <2>1, <2>6, <2>7, <3>1, <4>1
      <4>2. CASE k \in 1..(i - 1)
        BY <2>2, <2>7, <3>1, <4>2
      <4>. QED  BY <2>2, <4>1, <4>2
    <3>. QED  BY <2>7, <3>1
  <2>. QED  BY <2>2, <2>4, <2>5, <2>8
<1>. HIDE DEF T
<1>7. \A i \in 1..n : i - 1 \in T => i \in T
  BY <1>6
<1>8. n \in T
  <2>1. \A i \in 0..n : i \in T
    BY <1>2, <1>5, <1>7, Emitting!Upwards, Zenon
  <2>. QED  BY <1>2, <2>1
<1>. QED  BY <1>1, <1>2, <1>4, <1>8 DEF T

\* What the frames of a Chat stream become is queued.
LEMMA FramesAreQueued ==
    ASSUME NEW s, NEW r, Pending(s, r), NEW frames, IsList(frames),
           \A k \in DOMAIN frames : frames[k].type = "chunk" /\ IsChunk(frames[k].chunk)
    PROVE  /\ Pending(s, ReEmit(r, frames)) /\ Beside(ReEmit(r, frames), r)
           /\ Voices(r.queue) => Voices(ReEmit(r, frames).queue)
           /\ \/ DOMAIN ReEmit(r, frames).em.calls # {}
              \/ \E k \in DOMAIN frames : Speaks(frames[k].chunk)
              => DOMAIN r.em.calls # {} \/ Voices(ReEmit(r, frames).queue)
<1>1. PICK t : Leads(s, r.queue, t) /\ Ready(t, r.em)
  BY DEF Pending
<1>2. PICK q, u : q = FoldLeft(ReEmitFrame, r, frames) /\ u = Queued(q)
  OBVIOUS
<1>3. DOMAIN r = SourceFields /\ IsList(r.queue)
  BY DEF Pending
<1>4. /\ DOMAIN q = SourceFields /\ Ready(t, q.em) /\ q.queue = r.queue /\ Beside(q, r)
      /\ Tells(r.em, q.em) /\ \A k \in DOMAIN frames : Speaks(frames[k].chunk) => Heard(r.em, q.em)
  BY <1>1, <1>2, <1>3, ChunksAreEmitted, Zenon
<1>5. PICK v : Leads(t, q.em.out, v) /\ v.phase = "open" /\ Ready(v, [q.em EXCEPT !.out = <<>>])
  BY <1>4, ReadyIsDrained
<1>6. IsEmitter(q.em) /\ IsList(q.em.out)
  BY <1>4 DEF Ready, Carried, IsEmitter
<1>7. u = [q EXCEPT !.queue = q.queue \o q.em.out, !.em = [q.em EXCEPT !.out = <<>>]]
  BY <1>2, <1>4, Zenon DEF Queued, SourceFields
<1>8. /\ u.queue = r.queue \o q.em.out /\ u.em = [q.em EXCEPT !.out = <<>>]
      /\ DOMAIN u = SourceFields /\ Beside(u, r)
  BY <1>4, <1>7, Zenon DEF SourceFields, Beside
<1>9. u.em.out = <<>>
  BY <1>6, <1>8 DEF IsEmitter
<1>10. IsList(u.queue) /\ Leads(s, u.queue, v)
  BY <1>1, <1>3, <1>5, <1>6, <1>8, ListsJoin, LeadsAcross
<1>11. Pending(s, u)
  BY <1>5, <1>8, <1>9, <1>10 DEF Pending
<1>12. (Voices(r.queue) => Voices(u.queue)) /\ (Voices(q.em.out) => Voices(u.queue))
  BY <1>3, <1>6, <1>8, VoicesJoin
<1>13. u.em.calls = q.em.calls
  BY <1>6, <1>8 DEF IsEmitter
<1>14. DOMAIN u.em.calls # {} \/ (\E k \in DOMAIN frames : Speaks(frames[k].chunk))
           => DOMAIN r.em.calls # {} \/ Voices(u.queue)
  BY <1>4, <1>12, <1>13 DEF Tells, Heard
<1>15. u = ReEmit(r, frames)
  BY <1>2 DEF ReEmit
<1>. QED  BY <1>8, <1>11, <1>12, <1>14, <1>15, Zenon

\* The end of a Chat stream: what is queued then tells the client everything.
Completing(s, r) == IsList(r.queue) /\ \E t : Leads(s, r.queue, t) /\ t.phase = "complete"

LEMMA EndIsQueued ==
    ASSUME NEW s, NEW r, Pending(s, r)
    PROVE  /\ DOMAIN ReEmit(r, <<DoneFrame>>) = SourceFields
           /\ Completing(s, ReEmit(r, <<DoneFrame>>)) /\ Beside(ReEmit(r, <<DoneFrame>>), r)
<1>1. PICK t : Leads(s, r.queue, t) /\ Ready(t, r.em)
  BY DEF Pending
<1>2. PICK frames, q, u : /\ frames = <<DoneFrame>> /\ q = FoldLeft(ReEmitFrame, r, frames)
                          /\ u = Queued(q)
  BY Zenon
<1>3. DOMAIN r = SourceFields /\ IsList(r.queue)
  BY DEF Pending
<1>4. DOMAIN frames = 1..1 /\ frames[1] = DoneFrame /\ 1 \in Nat
  BY <1>2
<1>5. PICK f : Emitting!Goes(f, r, frames, 1) /\ Emitting!Run(r, frames) = f[1]
  BY <1>4, Emitting!RunIs, Zenon
<1>6. q = f[1]
  <2>1. FoldLeft(ReEmitFrame, r, frames) = Emitting!FoldLeft(ReEmitFrame, r, frames)
    BY Zenon DEF FoldLeft, MapThenFoldSet, Max, Emitting!FoldLeft, Emitting!MapThenFoldSet, Emitting!Max
  <2>. QED  BY <1>2, <1>5, <2>1, Zenon DEF Emitting!Run
<1>7. q = ReEmitFrame(r, DoneFrame)
  <2>1. f[0] = r /\ f[1] = ReEmitFrame(f[1 - 1], frames[1])
    BY <1>5 DEF Emitting!Goes
  <2>. QED  BY <1>4, <1>6, <2>1
<1>8. PICK end1, fin : end1 = replyEnds(r) /\ fin = responsesFinal(FirstChoice(r.acc))
  OBVIOUS
<1>9. q = [r EXCEPT !.em = end1, !.final = fin]
  BY <1>7, <1>8, Zenon DEF ReEmitFrame, DoneFrame
<1>10. q.em = end1 /\ q.queue = r.queue /\ DOMAIN q = SourceFields /\ Beside(q, r)
  BY <1>3, <1>9 DEF SourceFields, Beside
<1>11. Told(t, end1)
  <2>1. fin.status \in LastEvents
    BY <1>8 DEF responsesFinal, LastEvents
  <2>2. Carried(t, r.em, {})
    BY <1>1 DEF Ready
  <2>3. Told(t, finish(r.em, fin))
    BY <2>1, <2>2, FinishIsTold
  <2>. QED  BY <1>8, <2>3 DEF replyEnds
<1>12. PICK v : Leads(t, end1.out, v) /\ v.phase = "complete" /\ IsList(end1.out)
  BY <1>11 DEF Told, IsEmitter
<1>13. u = [q EXCEPT !.queue = q.queue \o q.em.out, !.em = [q.em EXCEPT !.out = <<>>]]
  BY <1>2, <1>10, Zenon DEF Queued, SourceFields
<1>14. u.queue = r.queue \o end1.out /\ DOMAIN u = SourceFields /\ Beside(u, r)
  BY <1>10, <1>13, Zenon DEF SourceFields, Beside
<1>15. IsList(u.queue) /\ Leads(s, u.queue, v)
  BY <1>1, <1>3, <1>12, <1>14, ListsJoin, LeadsAcross
<1>. QED  BY <1>2, <1>12, <1>14, <1>15 DEF ReEmit, Completing

LEMMA OneIsAList ==
    ASSUME NEW x
    PROVE  IsList(<<x>>) /\ Len(<<x>>) = 1 /\ DOMAIN <<x>> = 1..1 /\ <<x>>[1] = x
<1>1. PICK q : q = <<x>>
  BY Zenon
<1>2. q = Append(<<>>, x) /\ Len(q) = 1 /\ DOMAIN q = 1..1 /\ q[1] = x
  BY <1>1
<1>3. IsList(Append(<<>>, x))
  BY NothingIsAList, ListGrows, Zenon
<1>. QED  BY <1>1, <1>2, <1>3

\* The chunks of one Gemini event, all of the first choice.
Chunks(q) == IsList(q) /\ \A k \in 1..Len(q) : IsChunk(q[k]) /\ q[k].choice = 0

LEMMA ChunksGrow ==
    ASSUME NEW q, Chunks(q), NEW c, IsChunk(c), c.choice = 0
    PROVE  Chunks(Append(q, c))
<1>1. PICK r : r = Append(q, c)
  BY Zenon
<1>2. /\ IsList(r) /\ Len(r) = Len(q) + 1 /\ Len(q) \in Nat /\ r[Len(q) + 1] = c
      /\ \A i \in 1..Len(q) : r[i] = q[i]
  BY <1>1, ListGrows DEF Chunks
<1>3. \A k \in 1..Len(r) : IsChunk(r[k]) /\ r[k].choice = 0
  <2>. TAKE k \in 1..Len(r)
  <2>1. k \in 1..Len(q) \/ k = Len(q) + 1
    BY <1>2
  <2>. QED  BY <1>2, <2>1 DEF Chunks
<1>. QED  BY <1>1, <1>2, <1>3 DEF Chunks

LEMMA ChunksJoin ==
    ASSUME NEW q, Chunks(q), NEW r, Chunks(r)
    PROVE  Chunks(q \o r)
<1>1. PICK j : j = q \o r
  BY Zenon
<1>2. /\ IsList(j) /\ Len(j) = Len(q) + Len(r) /\ Len(q) \in Nat /\ Len(r) \in Nat
      /\ \A i \in 1..Len(q) : j[i] = q[i]
      /\ \A i \in (Len(q) + 1)..(Len(q) + Len(r)) : j[i] = r[i - Len(q)]
  BY <1>1, ListsJoin DEF Chunks
<1>3. \A k \in 1..Len(j) : IsChunk(j[k]) /\ j[k].choice = 0
  <2>. TAKE k \in 1..Len(j)
  <2>1. CASE k \in 1..Len(q)
    BY <1>2, <2>1 DEF Chunks
  <2>2. CASE k \notin 1..Len(q)
    <3>1. k \in (Len(q) + 1)..(Len(q) + Len(r)) /\ k - Len(q) \in 1..Len(r)
      BY <1>2, <2>2
    <3>. QED  BY <1>2, <3>1 DEF Chunks
  <2>. QED  BY <2>1, <2>2
<1>. QED  BY <1>1, <1>2, <1>3 DEF Chunks

LEMMA ChunkAlone ==
    ASSUME NEW c, IsChunk(c), c.choice = 0
    PROVE  Chunks(<<c>>)
<1>1. PICK q : q = <<c>>
  BY Zenon
<1>2. IsList(q) /\ Len(q) = 1 /\ q[1] = c
  BY <1>1, OneIsAList
<1>. QED  BY <1>1, <1>2 DEF Chunks

LEMMA NoChunks == Chunks(<<>>)
<1>1. IsList(<<>>) /\ 1..Len(<<>>) = {}
  BY NothingIsAList
<1>. QED  BY <1>1 DEF Chunks

GeminiFields == {"n", "calls", "out"}
LEMMA PartGives ==
    ASSUME NEW g, DOMAIN g = GeminiFields, Chunks(g.out), NEW p
    PROVE  DOMAIN GeminiPart(g, p) = GeminiFields /\ Chunks(GeminiPart(g, p).out)
<1>1. CASE p.kind = "call"
  <2>1. PICK k, c : /\ k = <<CallPiece(g.calls, CallID(g.calls), TRUE, p.sig)>>
                    /\ c = Chunk(g.n, 0, {}, k, NoFinish, FALSE)
    BY Zenon
  <2>2. IsList(k)
    BY <2>1, OneIsAList
  <2>3. Chunks(Append(g.out, c))
    <3>1. IsChunk(c) /\ c.choice = 0
      BY <2>1, <2>2 DEF IsChunk, Chunk
    <3>. QED  BY <3>1, ChunksGrow
  <2>4. GeminiPart(g, p) = [g EXCEPT !.calls = g.calls + 1, !.out = Append(g.out, c)]
    BY <1>1, <2>1, Zenon DEF GeminiPart
  <2>. QED  BY <2>3, <2>4 DEF GeminiFields
<1>2. CASE p.kind # "call" /\ p.kind = "empty"
  BY <1>2 DEF GeminiPart
<1>3. CASE p.kind # "call" /\ p.kind # "empty"
  <2>1. PICK says, c : /\ says = {IF p.kind = "thought" THEN "reasoning" ELSE "content"}
                       /\ c = Chunk(g.n, 0, says, <<>>, NoFinish, FALSE)
    BY Zenon
  <2>2. Chunks(Append(g.out, c))
    <3>1. says \subseteq Fields
      BY <2>1 DEF Fields
    <3>2. IsChunk(c) /\ c.choice = 0
      BY <2>1, <3>1, NothingIsAList DEF IsChunk, Chunk
    <3>. QED  BY <3>2, ChunksGrow
  <2>3. GeminiPart(g, p) = [g EXCEPT !.out = Append(g.out, c)]
    BY <1>3, <2>1, Zenon DEF GeminiPart
  <2>. QED  BY <2>2, <2>3 DEF GeminiFields
<1>. QED  BY <1>1, <1>2, <1>3

LEMMA PartsGive ==
    ASSUME NEW g, DOMAIN g = GeminiFields, Chunks(g.out), NEW parts, IsList(parts)
    PROVE  /\ DOMAIN FoldLeft(GeminiPart, g, parts) = GeminiFields
           /\ Chunks(FoldLeft(GeminiPart, g, parts).out)
<1>1. PICK n, q : n = Len(parts) /\ q = FoldLeft(GeminiPart, g, parts)
  BY Zenon
<1>2. n \in Nat /\ DOMAIN parts = 1..n
  BY <1>1, ListHas
<1>3. PICK f : Parting!Goes(f, g, parts, n) /\ Parting!Run(g, parts) = f[n]
  BY <1>2, Parting!RunIs
<1>4. q = f[n]
  <2>1. FoldLeft(GeminiPart, g, parts) = Parting!FoldLeft(GeminiPart, g, parts)
    BY Zenon DEF FoldLeft, MapThenFoldSet, Max, Parting!FoldLeft, Parting!MapThenFoldSet, Parting!Max
  <2>. QED  BY <1>1, <1>3, <2>1, Zenon DEF Parting!Run
<1>. DEFINE T == {i \in Nat : DOMAIN f[i] = GeminiFields /\ Chunks(f[i].out)}
<1>5. 0 \in T
  BY <1>3 DEF Parting!Goes
<1>6. ASSUME NEW i \in 1..n, i - 1 \in T
      PROVE  i \in T
  <2>1. DOMAIN f[i - 1] = GeminiFields /\ Chunks(f[i - 1].out) /\ f[i] = GeminiPart(f[i - 1], parts[i]) /\ i \in Nat
    BY <1>3, <1>6 DEF Parting!Goes
  <2>2. DOMAIN GeminiPart(f[i - 1], parts[i]) = GeminiFields /\ Chunks(GeminiPart(f[i - 1], parts[i]).out)
    BY <2>1, PartGives
  <2>. QED  BY <2>1, <2>2
<1>. HIDE DEF T
<1>7. \A i \in 1..n : i - 1 \in T => i \in T
  BY <1>6
<1>8. n \in T
  <2>1. \A i \in 0..n : i \in T
    BY <1>2, <1>5, <1>7, Parting!Upwards, Zenon
  <2>. QED  BY <1>2, <2>1
<1>. QED  BY <1>1, <1>4, <1>8 DEF T

\* One that says nothing.
LEMMA QuietChunk == \A n, why : Chunks(<<Chunk(n, 0, {}, <<>>, why, FALSE)>>)
<1>. TAKE n, why
<1>1. PICK c : c = Chunk(n, 0, {}, <<>>, why, FALSE)
  BY Zenon
<1>2. IsChunk(c) /\ c.choice = 0
  BY <1>1, NothingIsAList DEF IsChunk, Chunk
<1>. QED  BY <1>1, <1>2, ChunkAlone, Zenon

LEMMA GeminiGivesChunks ==
    ASSUME NEW s, NEW ev, IsList(ev.parts)
    PROVE  Chunks(GeminiChunks(s, ev).out)
<1>1. PICK role : role = IF s.role THEN <<>> ELSE <<Chunk(ev.n, 0, {}, <<>>, NoFinish, FALSE)>>
  BY Zenon
<1>2. Chunks(role)
  <2>1. Chunks(<<Chunk(ev.n, 0, {}, <<>>, NoFinish, FALSE)>>)
    BY QuietChunk, Zenon
  <2>. QED  BY <1>1, <2>1, NoChunks
<1>3. PICK g, parts : /\ g = [n |-> ev.n, calls |-> s.calls, out |-> role]
                      /\ parts = FoldLeft(GeminiPart, g, ev.parts)
  BY Zenon
<1>4. DOMAIN parts = GeminiFields /\ Chunks(parts.out)
  <2>1. DOMAIN g = GeminiFields /\ Chunks(g.out)
    BY <1>2, <1>3 DEF GeminiFields
  <2>. QED  BY <1>3, <2>1, PartsGive
<1>5. \A why : Chunks(<<Chunk(ev.n, 0, {}, <<>>, why, FALSE)>>)
  BY QuietChunk, Zenon
<1>6. PICK why : why = IF parts.calls > 0 THEN "tool_calls" ELSE normalizeGeminiFinish(ev.finish)
  OBVIOUS
<1>7. PICK last : last = IF ev.finish = NoFinish THEN <<>> ELSE <<Chunk(ev.n, 0, {}, <<>>, why, FALSE)>>
  BY Zenon
<1>8. Chunks(last)
  BY <1>5, <1>7, NoChunks, Zenon
<1>9. CASE ev.block
  <2>1. GeminiChunks(s, ev) = [n |-> ev.n, calls |-> s.calls,
                               out |-> role \o <<Chunk(ev.n, 0, {}, <<>>, "content_filter", FALSE)>>]
    BY <1>1, <1>9, Zenon DEF GeminiChunks
  <2>2. Chunks(role \o <<Chunk(ev.n, 0, {}, <<>>, "content_filter", FALSE)>>)
    BY <1>2, <1>5, ChunksJoin, Zenon
  <2>. QED  BY <2>1, <2>2
<1>10. CASE ~ev.block
  <2>1. GeminiChunks(s, ev) = [parts EXCEPT !.out = parts.out \o last]
    BY <1>1, <1>3, <1>6, <1>7, <1>10, Zenon DEF GeminiChunks
  <2>2. Chunks(parts.out \o last)
    BY <1>4, <1>8, ChunksJoin
  <2>. QED  BY <1>4, <2>1, <2>2 DEF GeminiFields
<1>. QED  BY <1>9, <1>10

\* Chunks as frames.
LEMMA FramesOfChunks ==
    ASSUME NEW q, Chunks(q), NEW frames, frames = [k \in DOMAIN q |-> ChunkFrame(q[k])]
    PROVE  /\ IsList(frames) /\ DOMAIN frames = 1..Len(q) /\ Len(q) \in Nat
           /\ \A k \in DOMAIN frames :
                  /\ frames[k].type = "chunk" /\ IsChunk(frames[k].chunk)
                  /\ frames[k].chunk = q[k] /\ q[k].choice = 0
<1>1. Len(q) \in Nat /\ DOMAIN q = 1..Len(q)
  BY ListHas DEF Chunks
<1>2. frames = [k \in 1..Len(q) |-> frames[k]]
  BY <1>1
<1>3. IsList(frames) /\ DOMAIN frames = 1..Len(q)
  BY <1>1, <1>2, ListIs
<1>4. ASSUME NEW k \in DOMAIN frames
      PROVE  /\ frames[k].type = "chunk" /\ IsChunk(frames[k].chunk)
             /\ frames[k].chunk = q[k] /\ q[k].choice = 0
  <2>1. frames[k] = ChunkFrame(q[k]) /\ IsChunk(q[k]) /\ q[k].choice = 0
    BY <1>1, <1>3 DEF Chunks
  <2>. QED  BY <2>1 DEF ChunkFrame
<1>. QED  BY <1>1, <1>3, <1>4

-----------------------------------------------------------------------------
(* A provider's own events *)

\* After n events of the script its client has t.
At(script, n, t) ==
    \E f : /\ Reading!Goes(f, [seen |-> NothingSeen, ok |-> TRUE], script, Len(script))
           /\ f[Len(script)].ok /\ f[n].seen = t

LEMMA ScriptBegins ==
    ASSUME NEW script, IsList(script), FollowsProtocol(script)
    PROVE  At(script, 0, NothingSeen)
<1>1. PICK base, n : base = [seen |-> NothingSeen, ok |-> TRUE] /\ n = Len(script)
  BY Zenon
<1>2. n \in Nat /\ DOMAIN script = 1..n
  BY <1>1, ListHas
<1>3. PICK f : Reading!Goes(f, base, script, n) /\ Reading!Run(base, script) = f[n]
  BY <1>2, Reading!RunIs
<1>4. FoldLeft(Reads, base, script) = f[n]
  <2>1. FoldLeft(Reads, base, script) = Reading!FoldLeft(Reads, base, script)
    BY Zenon DEF FoldLeft, MapThenFoldSet, Max, Reading!FoldLeft, Reading!MapThenFoldSet, Reading!Max
  <2>. QED  BY <1>3, <2>1, Zenon DEF Reading!Run
<1>5. f[n].ok
  BY <1>1, <1>4, Zenon DEF FollowsProtocol
<1>6. f[0].seen = NothingSeen
  BY <1>1, <1>3 DEF Reading!Goes
<1>. QED  BY <1>1, <1>3, <1>5, <1>6, Zenon DEF At

\* What a client cannot take is not forgotten.
LEMMA ReadsKeeps ==
    ASSUME NEW c, ~c.ok, NEW ev
    PROVE  ~Reads(c, ev).ok
<1>1. CASE ev.type # "pass"
  BY <1>1, Zenon DEF Reads
<1>2. CASE ev.type = "pass"
  <2>1. Reads(c, ev) = [seen |-> TakeEvent(c.seen, ev.frame), ok |-> c.ok /\ CanTake(c.seen, ev.frame)]
    BY <1>2, Zenon DEF Reads
  <2>2. \A x : \A b \in BOOLEAN : [seen |-> x, ok |-> b].ok = b
    OBVIOUS
  <2>3. (c.ok /\ CanTake(c.seen, ev.frame)) \in BOOLEAN
    OBVIOUS
  <2>4. Reads(c, ev).ok = (c.ok /\ CanTake(c.seen, ev.frame))
    BY <2>1, <2>2, <2>3, Zenon
  <2>. QED  BY <2>4, Zenon
<1>. QED  BY <1>1, <1>2

LEMMA ScriptGoesOn ==
    ASSUME NEW script, IsList(script), NEW n \in Nat, n < Len(script), NEW t, At(script, n, t)
    PROVE  /\ script[n + 1].type # "pass" => At(script, n + 1, t)
           /\ script[n + 1].type = "pass" => /\ CanTake(t, script[n + 1].frame)
                                             /\ At(script, n + 1, TakeEvent(t, script[n + 1].frame))
<1>1. PICK m, ev, base : m = Len(script) /\ ev = script[n + 1] /\ base = [seen |-> NothingSeen, ok |-> TRUE]
  BY Zenon
<1>2. m \in Nat /\ n + 1 \in 1..m
  BY <1>1, ListHas
<1>3. PICK f : /\ Reading!Goes(f, base, script, m) /\ f[m].ok /\ f[n].seen = t
  BY <1>1, Zenon DEF At
<1>4. \A i \in 1..m : f[i] = Reads(f[i - 1], script[i])
  BY <1>3 DEF Reading!Goes
<1>5. f[n + 1] = Reads(f[n], ev)
  <2>1. (n + 1) - 1 = n
    OBVIOUS
  <2>2. f[n + 1] = Reads(f[(n + 1) - 1], script[n + 1])
    BY <1>2, <1>4
  <2>. QED  BY <1>1, <2>1, <2>2
<1>6. f[n + 1].ok
  <2>. SUFFICES ASSUME ~f[n + 1].ok PROVE FALSE
    OBVIOUS
  <2>. DEFINE T == {j \in Nat : j < n + 1 \/ ~f[j].ok}
  <2>1. 0 \in T
    OBVIOUS
  <2>2. ASSUME NEW i \in 1..m, i - 1 \in T
        PROVE  i \in T
    <3>1. CASE i - 1 < n + 1 /\ i = n + 1
      BY <3>1
    <3>2. CASE i < n + 1
      BY <3>2
    <3>3. CASE ~(i - 1 < n + 1) /\ ~f[i - 1].ok
      <4>1. ~Reads(f[i - 1], script[i]).ok
        BY <3>3, ReadsKeeps
      <4>2. f[i] = Reads(f[i - 1], script[i]) /\ i \in Nat
        BY <1>4
      <4>. QED  BY <4>1, <4>2
    <3>. QED  BY <1>2, <2>2, <3>1, <3>2, <3>3
  <2>. HIDE DEF T
  <2>3. \A i \in 1..m : i - 1 \in T => i \in T
    BY <2>2
  <2>4. \A i \in 0..m : i \in T
    BY <1>2, <2>1, <2>3, Reading!Upwards, Zenon
  <2>5. m \in T
    BY <1>2, <2>4
  <2>. QED  BY <1>2, <1>3, <2>5 DEF T
<1>7. CASE ev.type # "pass"
  <2>1. f[n + 1] = f[n]
    BY <1>5, <1>7, Zenon DEF Reads
  <2>2. At(script, n + 1, t)
    BY <1>1, <1>3, <2>1, Zenon DEF At
  <2>. QED  BY <1>1, <1>7, <2>2
<1>8. CASE ev.type = "pass"
  <2>1. f[n + 1] = [seen |-> TakeEvent(t, ev.frame), ok |-> f[n].ok /\ CanTake(t, ev.frame)]
    BY <1>3, <1>5, <1>8, Zenon DEF Reads
  <2>2. f[n + 1].seen = TakeEvent(t, ev.frame) /\ CanTake(t, ev.frame)
    <3>1. \A x : \A b \in BOOLEAN : [seen |-> x, ok |-> b].ok = b /\ [seen |-> x, ok |-> b].seen = x
      OBVIOUS
    <3>2. (f[n].ok /\ CanTake(t, ev.frame)) \in BOOLEAN
      OBVIOUS
    <3>3. f[n + 1].ok = (f[n].ok /\ CanTake(t, ev.frame)) /\ f[n + 1].seen = TakeEvent(t, ev.frame)
      BY <2>1, <3>1, <3>2, Zenon
    <3>. QED  BY <1>6, <3>3, Zenon
  <2>3. At(script, n + 1, TakeEvent(t, ev.frame))
    BY <1>1, <1>3, <2>2, Zenon DEF At
  <2>. QED  BY <1>1, <1>8, <2>2, <2>3
<1>. QED  BY <1>7, <1>8

-----------------------------------------------------------------------------
(* Calls in order *)

\* A finite set of numbers can be put in order.
InOrder(s, S, n) == s \in [1..n -> S] /\ \A i, j \in 1..n : i < j => s[i] < s[j]

LEMMA LeastFirst ==
    ASSUME NEW S, S \subseteq Nat, NEW n \in Nat, NEW m \in S, \A k \in S : m <= k,
           NEW g, InOrder(g, S \ {m}, n)
    PROVE  \E s : InOrder(s, S, n + 1)
<1>. DEFINE s == [i \in 1..(n + 1) |-> IF i = 1 THEN m ELSE g[i - 1]]
<1>1. ASSUME NEW i \in 1..(n + 1), i # 1
      PROVE  s[i] = g[i - 1] /\ i - 1 \in 1..n /\ g[i - 1] \in S \ {m}
  BY <1>1 DEF InOrder
<1>2. s[1] = m
  OBVIOUS
<1>3. s \in [1..(n + 1) -> S]
  BY <1>1 DEF InOrder
<1>. HIDE DEF s
<1>4. ASSUME NEW i \in 1..(n + 1), NEW j \in 1..(n + 1), i < j
      PROVE  s[i] < s[j]
  <2>1. s[j] = g[j - 1] /\ j - 1 \in 1..n /\ g[j - 1] \in S \ {m}
    BY <1>1, <1>4
  <2>2. CASE i = 1
    <3>1. g[j - 1] \in S /\ g[j - 1] # m /\ m \in Nat /\ g[j - 1] \in Nat
      BY <2>1, Zenon
    <3>2. m <= g[j - 1]
      BY <3>1
    <3>. QED  BY <1>2, <2>1, <2>2, <3>1, <3>2
  <2>3. CASE i # 1
    <3>1. s[i] = g[i - 1] /\ i - 1 \in 1..n /\ i - 1 < j - 1
      BY <1>1, <1>4, <2>3
    <3>. QED  BY <2>1, <3>1 DEF InOrder
  <2>. QED  BY <2>2, <2>3
<1>. QED  BY <1>3, <1>4 DEF InOrder

LEMMA OrderExists ==
    ASSUME NEW n \in Nat
    PROVE  \A S \in SUBSET Nat : IsFiniteSet(S) /\ Cardinality(S) = n => \E s : InOrder(s, S, n)
<1>. DEFINE Can(k) == \A S \in SUBSET Nat : IsFiniteSet(S) /\ Cardinality(S) = k => \E s : InOrder(s, S, k)
            T == {k \in Nat : Can(k)}
<1>1. 0 \in T
  <2>. SUFFICES ASSUME NEW S \in SUBSET Nat, IsFiniteSet(S), Cardinality(S) = 0
                PROVE  \E s : InOrder(s, S, 0)
    OBVIOUS
  <2>1. InOrder([i \in 1..0 |-> 0], S, 0)
    BY DEF InOrder
  <2>. QED  BY <2>1
<1>2. ASSUME NEW i \in 1..n, i - 1 \in T
      PROVE  i \in T
  <2>. SUFFICES ASSUME NEW S \in SUBSET Nat, IsFiniteSet(S), Cardinality(S) = i
                PROVE  \E s : InOrder(s, S, i)
    OBVIOUS
  <2>1. S # {}
    BY FS_EmptySet
  <2>2. PICK m \in S : \A k \in S : m <= k
    BY <2>1, Closing!LeastNumber, Zenon
  <2>3. IsFiniteSet(S \ {m}) /\ Cardinality(S \ {m}) = i - 1
    BY FS_RemoveElement
  <2>4. \E g : InOrder(g, S \ {m}, i - 1)
    <3>1. Can(i - 1) /\ S \ {m} \in SUBSET Nat
      BY <1>2
    <3>. QED  BY <2>3, <3>1
  <2>5. PICK g : InOrder(g, S \ {m}, i - 1)
    BY <2>4
  <2>6. i - 1 \in Nat /\ (i - 1) + 1 = i
    OBVIOUS
  <2>7. \E s : InOrder(s, S, (i - 1) + 1)
    BY <2>2, <2>5, <2>6, LeastFirst, Zenon
  <2>. QED  BY <2>6, <2>7
<1>. HIDE DEF T
<1>3. \A i \in 1..n : i - 1 \in T => i \in T
  BY <1>2
<1>4. \A i \in 0..n : i \in T
  BY <1>1, <1>3, Closing!Upwards, Zenon
<1>5. n \in T
  BY <1>4
<1>. QED  BY <1>5 DEF T

LEMMA SortedIs ==
    ASSUME NEW S, S \subseteq Nat, IsFiniteSet(S)
    PROVE  IsList(Sorted(S)) /\ Sorted(S) \in [1..Len(Sorted(S)) -> S]
<1>1. PICK n : n = Cardinality(S) /\ n \in Nat
  BY FS_CardinalityType
<1>2. \E s : InOrder(s, S, n)
  BY <1>1, OrderExists
<1>3. \E s \in [1..n -> S] : \A i, j \in DOMAIN s : i < j => s[i] < s[j]
  <2>1. PICK s : s \in [1..n -> S] /\ \A i, j \in 1..n : i < j => s[i] < s[j]
    BY <1>2, Zenon DEF InOrder
  <2>2. DOMAIN s = 1..n
    BY <2>1
  <2>. QED  BY <2>1, <2>2, Zenon
<1>4. PICK s : s = Sorted(S)
  OBVIOUS
<1>5. s \in [1..n -> S]
  BY <1>1, <1>3, <1>4, Zenon DEF Sorted
<1>6. s = [i \in 1..n |-> s[i]]
  BY <1>5
<1>7. IsList(s) /\ Len(s) = n
  BY <1>1, <1>6, ListIs
<1>. QED  BY <1>4, <1>5, <1>7

\* A Chat reply as a Responses object.
WholeChat(choice) ==
    /\ \A f \in Fields : IsList(choice.text[f])
    /\ DOMAIN choice.calls \subseteq Nat /\ IsFiniteSet(DOMAIN choice.calls)
    /\ \A k \in DOMAIN choice.calls : IsList(choice.calls[k].args)
Whole(reply) ==
    /\ reply.status \in LastEvents /\ IsList(reply.output)
    /\ \A k \in DOMAIN reply.output : IsList(reply.output[k].text)

LEMMA FirstIsWhole ==
    ASSUME NEW reply, DOMAIN reply.choices \subseteq Nat,
           \A i \in DOMAIN reply.choices : WholeChat(reply.choices[i])
    PROVE  WholeChat(FirstChoice(reply))
<1>1. CASE DOMAIN reply.choices = {}
  <2>1. FirstChoice(reply) = NewChoice
    BY <1>1 DEF FirstChoice
  <2>2. DOMAIN NewChoice.calls = {} /\ \A f \in Fields : NewChoice.text[f] = <<>>
    BY DEF NewChoice
  <2>. QED  BY <2>1, <2>2, NothingIsAList, FS_EmptySet DEF WholeChat
<1>2. CASE DOMAIN reply.choices # {}
  <2>1. \E i \in DOMAIN reply.choices : \A j \in DOMAIN reply.choices : i <= j
    BY <1>2, Closing!LeastNumber
  <2>2. PICK i : i = CHOOSE h \in DOMAIN reply.choices : \A j \in DOMAIN reply.choices : h <= j
    OBVIOUS
  <2>3. i \in DOMAIN reply.choices
    BY <2>1, <2>2, Zenon
  <2>4. FirstChoice(reply) = reply.choices[i]
    BY <1>2, <2>2, Zenon DEF FirstChoice
  <2>. QED  BY <2>3, <2>4
<1>. QED  BY <1>1, <1>2

LEMMA ItemsAreWhole ==
    ASSUME NEW choice, WholeChat(choice)
    PROVE  /\ IsList(ChatToResponses(choice))
           /\ \A k \in DOMAIN ChatToResponses(choice) : IsList(ChatToResponses(choice)[k].text)
<1>1. PICK order, text : order = Sorted(DOMAIN choice.calls) /\ text = choice.text["content"]
  OBVIOUS
<1>2. IsList(order) /\ order \in [1..Len(order) -> DOMAIN choice.calls] /\ Len(order) \in Nat
  <2>1. IsList(order) /\ order \in [1..Len(order) -> DOMAIN choice.calls]
    BY <1>1, SortedIs DEF WholeChat
  <2>. QED  BY <2>1, ListHas
<1>3. PICK said, called :
         /\ said = IF text = <<>> THEN <<>> ELSE <<OutputItem("message", NoID, Missing, text, Missing)>>
         /\ called = [k \in 1..Len(order) |->
                        LET c == choice.calls[order[k]]
                        IN  OutputItem("function_call", NoID, c.id, c.args, c.sig)]
  BY Zenon
<1>4. IsList(said) /\ \A k \in 1..Len(said) : IsList(said[k].text)
  <2>1. CASE text = <<>>
    <3>1. said = <<>> /\ 1..Len(said) = {}
      BY <1>3, <2>1, NothingIsAList
    <3>. QED  BY <3>1, NothingIsAList
  <2>2. CASE text # <<>>
    <3>1. said = <<OutputItem("message", NoID, Missing, text, Missing)>>
      BY <1>3, <2>2
    <3>2. IsList(said) /\ Len(said) = 1 /\ said[1] = OutputItem("message", NoID, Missing, text, Missing)
      BY <3>1, OneIsAList
    <3>3. said[1].text = text
      BY <3>2 DEF OutputItem
    <3>4. IsList(text)
      BY <1>1 DEF WholeChat, Fields
    <3>. QED  BY <3>2, <3>3, <3>4
  <2>. QED  BY <2>1, <2>2
<1>5. IsList(called) /\ Len(called) = Len(order) /\ \A k \in 1..Len(order) : IsList(called[k].text)
  <2>1. called = [k \in 1..Len(order) |-> called[k]]
    BY <1>3
  <2>2. ASSUME NEW k \in 1..Len(order)
        PROVE  IsList(called[k].text)
    <3>1. PICK c : c = choice.calls[order[k]]
      OBVIOUS
    <3>2. called[k] = OutputItem("function_call", NoID, c.id, c.args, c.sig)
      BY <1>3, <3>1
    <3>3. called[k].text = c.args
      BY <3>2 DEF OutputItem
    <3>4. order[k] \in DOMAIN choice.calls
      BY <1>2
    <3>. QED  BY <3>1, <3>3, <3>4 DEF WholeChat
  <2>. QED  BY <1>2, <2>1, <2>2, ListIs
<1>6. PICK all : all = said \o called
  BY Zenon
<1>7. /\ IsList(all) /\ Len(all) = Len(said) + Len(called) /\ Len(said) \in Nat
      /\ \A i \in 1..Len(said) : all[i] = said[i]
      /\ \A i \in (Len(said) + 1)..(Len(said) + Len(called)) : all[i] = called[i - Len(said)]
  BY <1>4, <1>5, <1>6, ListsJoin, Zenon
<1>8. DOMAIN all = 1..Len(all)
  BY <1>7, ListHas
<1>9. ASSUME NEW k \in DOMAIN all
      PROVE  IsList(all[k].text)
  <2>1. CASE k \in 1..Len(said)
    BY <1>4, <1>7, <2>1
  <2>2. CASE k \notin 1..Len(said)
    <3>1. k \in (Len(said) + 1)..(Len(said) + Len(called)) /\ k - Len(said) \in 1..Len(order)
      BY <1>2, <1>5, <1>7, <1>8, <2>2
    <3>. QED  BY <1>5, <1>7, <3>1
  <2>. QED  BY <2>1, <2>2
<1>10. all = ChatToResponses(choice)
  BY <1>1, <1>3, <1>6, Zenon DEF ChatToResponses
<1>. QED  BY <1>7, <1>9, <1>10

LEMMA WrappedIsWhole ==
    ASSUME NEW reply \in Replies.chat
    PROVE  Whole(wrapChatReplyAsResponses(reply))
<1>1. PICK choice : choice = FirstChoice(reply)
  OBVIOUS
<1>2. WholeChat(choice)
  <2>1. DOMAIN reply.choices \subseteq Nat /\ \A i \in DOMAIN reply.choices : WholeChat(reply.choices[i])
    BY RepliesAssumption DEF WholeChat
  <2>. QED  BY <1>1, <2>1, FirstIsWhole
<1>3. PICK status, output : /\ status = IF choice.finish = "length" THEN "incomplete" ELSE "completed"
                            /\ output = ChatToResponses(choice)
  OBVIOUS
<1>4. wrapChatReplyAsResponses(reply) = [status |-> status, output |-> output]
  BY <1>1, <1>3, Zenon DEF wrapChatReplyAsResponses
<1>5. status \in LastEvents
  BY <1>3 DEF LastEvents
<1>. QED  BY <1>2, <1>3, <1>4, <1>5, ItemsAreWhole DEF Whole
=============================================================================
