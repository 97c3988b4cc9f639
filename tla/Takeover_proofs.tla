--------------------------- MODULE Takeover_proofs ---------------------------
(***************************************************************************)
(* What holds of takeovers for any conversations, clients and calls: the   *)
(* inductive invariant, and the properties that follow from it.            *)
(***************************************************************************)
EXTENDS Takeover, FiniteSetTheorems, SequenceTheorems, TLAPS

-----------------------------------------------------------------------------
(* The inductive invariant.                                                *)

JobStates == {"none", "queued", "ready", "turn", "over", "done"}
AskStates == {"none", "open", "taken", "sent", "closed", "over"}
Seated == {"reserved", "confirmed", "first"}
Waiting == {"placed", "reserved", "confirmed", "first"}
Owning == {"open", "start"}
Locked == Waiting \cup Owning \cup {"started"}
Phases == Locked \cup {"idle", "wait"}

SomeConv == Convs \cup {CHOOSE c \in Convs : TRUE}
SomeClient == Clients \cup {CHOOSE k \in Clients : TRUE}
SomeJob == Jobs \cup {CHOOSE j \in Jobs : TRUE}

Places == {<<"take", k>> : k \in Clients}
          \cup {<<kind, j>> : kind \in {"job", "call"}, j \in Jobs}

JobRecords == [st : JobStates, conv : SomeConv, kind : {"job", "call"},
               cancelled : BOOLEAN, waits : BOOLEAN]
AskRecords == [st : AskStates, said : {"none", "yes", "no"},
               got : {"none", "yes", "no", "cancelled"}, n : Nat]
HeldRecords == [on : BOOLEAN, lease : BOOLEAN, by : SomeClient, finished : BOOLEAN]
Requests == [pc : Phases, conv : SomeConv, interrupt : BOOLEAN, stops : BOOLEAN,
             job : SomeJob]

TypedLane == lane \in [Convs -> Seq(Places)]
TypedStore ==
    /\ busy \in [Convs -> {"none", "turn", "own", "taken"}]
    /\ sess \in [Convs -> BOOLEAN] /\ review \in [Convs -> BOOLEAN]
    /\ kept \in [Convs -> BOOLEAN]
TypedJob ==
    /\ job \in [Jobs -> JobRecords]
    /\ \A j \in Jobs : job[j].st # "none" => job[j].conv \in Convs
TypedAsk == ask \in [Jobs -> AskRecords]
TypedTerm == term \in [Convs -> {"none", "running", "exited"}]
TypedHeld == held \in [Convs -> HeldRecords]
TypedReq ==
    /\ req \in [Clients -> Requests]
    /\ \A k \in Clients : req[k].pc # "idle" => req[k].conv \in Convs
TypedFlags ==
    lock \in BOOLEAN /\ live \in BOOLEAN /\ stop \in {"no", "cancelled", "closing"}

Typed ==
    /\ TypedLane /\ TypedStore /\ TypedJob /\ TypedAsk /\ TypedTerm /\ TypedHeld
    /\ TypedReq /\ TypedFlags

\* One request at a time is past the attaching lock.
LockOK ==
    /\ \A k \in Clients : req[k].pc \in Locked => lock
    /\ \A k, l \in Clients : req[k].pc \in Locked /\ req[l].pc \in Locked => k = l

\* The store and the calls agree on the turn.
TurnOK ==
    /\ \A j \in Jobs : job[j].st = "turn" => busy[job[j].conv] = "turn"
    /\ \A i, j \in Jobs :
          job[i].st = "turn" /\ job[j].st = "turn" /\ job[i].conv = job[j].conv => i = j
    /\ \A c \in Convs : busy[c] = "turn" =>
          \E j \in Jobs : job[j].st = "turn" /\ job[j].conv = c

OwnOK == \A c \in Convs : busy[c] = "own" => review[c] \/ ~sess[c]

\* A terminal has its conversation, and nothing kept beside it.
DrivenOK == \A c \in Convs : term[c] # "none" => busy[c] = "taken" /\ ~kept[c]

\* So has the request that is about to start one.
ClosedOK == \A k \in Clients : req[k].pc \in Waiting \cup Owning => term[req[k].conv] = "none"
OwningOK == \A k \in Clients : req[k].pc \in Owning => busy[req[k].conv] = "taken"
KeptOK == \A k \in Clients : req[k].pc = "start" => ~kept[req[k].conv]

TakenOK ==
    \A c \in Convs : busy[c] = "taken" =>
        term[c] # "none" \/ \E k \in Clients : req[k].conv = c /\ req[k].pc \in Owning

In(p, s) == \E i \in DOMAIN s : s[i] = p
OneTake(s) == \A i, j \in DOMAIN s : IsTake(s[i]) /\ IsTake(s[j]) => i = j

\* Whose place it is.
Owned(p, c) ==
    IF IsTake(p)
    THEN \/ term[c] # "none"
         \/ \E k \in Clients : /\ p = Take(k) /\ req[k].conv = c
                               /\ req[k].pc \in Waiting \cup Owning
    ELSE \E j \in Jobs : p = Place(j) /\ job[j].conv = c /\ Active(j)

\* A lane has each place once, at most one of them a takeover's, and each is
\* somebody's.
ShapeOK == \A c \in Convs : IsInjective(lane[c]) /\ OneTake(lane[c])
OwnersOK == \A c \in Convs : \A p \in Places : In(p, lane[c]) => Owned(p, c)

\* The call that is up is the first of its lane.
HeadOK ==
    \A j \in Jobs : job[j].st \in {"ready", "turn", "over"} =>
        lane[job[j].conv] # << >> /\ lane[job[j].conv][1] = Place(j)

\* A reserved takeover is the first of its lane, or right behind the call it
\* has stopped.
Next2(s, p) == Len(s) >= 2 /\ s[2] = p
BehindOK ==
    \A k \in Clients : req[k].pc \in Seated =>
        LET c == req[k].conv
        IN  /\ lane[c] # << >>
            /\ \/ lane[c][1] = Take(k)
               \/ /\ Next2(lane[c], Take(k))
                  /\ \E j \in Jobs : /\ lane[c][1] = Place(j) /\ job[j].conv = c
                                     /\ job[j].st \in {"turn", "over"}

\* Before it is seen whether a turn runs, the call ahead may be any, and
\* nothing else is in the way.
PlacedOK ==
    \A k \in Clients : req[k].pc = "placed" =>
        LET c == req[k].conv
        IN  /\ ~review[c] /\ sess[c] /\ lane[c] # << >>
            /\ lane[c][1] = Take(k) \/ (req[k].stops /\ Next2(lane[c], Take(k)))

\* A conversation that is taken has the takeover's place in its lane.
LentOK ==
    \A c \in Convs : busy[c] = "taken" => \E k \in Clients : In(Take(k), lane[c])

\* There is room for the terminal the request will start.
RoomOK ==
    /\ Capped
    /\ \A k \in Clients : req[k].pc \in Locked => RunningTakeovers < MAX_TAKEOVERS

AnswersOK ==
    \A j \in Jobs :
        /\ ask[j].st \in {"none", "open", "taken", "closed"} => ask[j].said = "none"
        /\ ask[j].st = "over" /\ ask[j].said # "none" => ask[j].got = ask[j].said

IInv ==
    /\ Typed /\ LockOK /\ TurnOK /\ OwnOK /\ DrivenOK /\ ClosedOK /\ OwningOK
    /\ KeptOK /\ TakenOK /\ ShapeOK /\ OwnersOK /\ HeadOK /\ BehindOK /\ PlacedOK
    /\ LentOK /\ RoomOK /\ AnswersOK

-----------------------------------------------------------------------------
(* Lanes.                                                                  *)

\* What removing the n-th place leaves.
Removed(r, s, n) ==
    /\ r \in Seq(Places) /\ Len(r) = Len(s) - 1
    /\ \A i \in 1..Len(r) : r[i] = s[IF i < n THEN i ELSE i + 1]

\* RemoveAt, by index.
LEMMA RemoveAtIs ==
    ASSUME NEW s \in Seq(Places), NEW n \in 1..Len(s)
    PROVE  Removed(RemoveAt(s, n), s, n)
<1> DEFINE a == SubSeq(s, 1, n - 1)
           b == SubSeq(s, n + 1, Len(s))
<1>1. a \in Seq(Places) /\ Len(a) = n - 1 /\ \A i \in 1..(n - 1) : a[i] = s[i]
  OBVIOUS
<1>2. b \in Seq(Places) /\ Len(b) = Len(s) - n
      /\ \A i \in 1..(Len(s) - n) : b[i] = s[i + n]
  OBVIOUS
<1>3. RemoveAt(s, n) = a \o b
  BY DEF RemoveAt
<1> HIDE DEF a, b
<1>0. Len(s) \in Nat /\ n \in Nat
  OBVIOUS
<1>4a. a \o b \in Seq(Places) /\ Len(a \o b) = Len(a) + Len(b)
  BY <1>1, <1>2, ConcatProperties
<1>4. a \o b \in Seq(Places) /\ Len(a \o b) = Len(s) - 1
  BY <1>0, <1>1, <1>2, <1>4a
<1>5. \A i \in 1..(Len(s) - 1) : (a \o b)[i] = IF i < n THEN a[i] ELSE b[i - (n - 1)]
  BY <1>1, <1>2
<1>6. \A i \in 1..(Len(s) - 1) : (a \o b)[i] = s[IF i < n THEN i ELSE i + 1]
  <2> TAKE i \in 1..(Len(s) - 1)
  <2>1. CASE i < n
    BY <2>1, <1>1, <1>5
  <2>2. CASE ~(i < n)
    <3>1. i - (n - 1) \in 1..(Len(s) - n) /\ (i - (n - 1)) + n = i + 1
      BY <2>2
    <3> QED
      BY <2>2, <3>1, <1>2, <1>5
  <2> QED
    BY <2>1, <2>2
<1> QED
  BY <1>3, <1>4, <1>6 DEF Removed


\* RemoveFirst, of a place the lane has once, or not at all.
LEMMA RemoveFirstIs ==
    ASSUME NEW s \in Seq(Places), IsInjective(s), NEW p
    PROVE  /\ \A n \in 1..Len(s) : s[n] = p => Removed(RemoveFirst(s, p), s, n)
           /\ ~In(p, s) => RemoveFirst(s, p) = s
<1>1. ASSUME NEW n \in 1..Len(s), s[n] = p
      PROVE  Removed(RemoveFirst(s, p), s, n)
  <2>1. {i \in 1..Len(s) : s[i] = p} = {n}
    BY <1>1 DEF IsInjective
  <2>2. Min({n}) = n
    BY DEF Min
  <2>3. SelectInSeq(s, LAMBDA v : v = p) = n
    BY <2>1, <2>2 DEF SelectInSeq
  <2>4. RemoveFirst(s, p) = RemoveAt(s, n)
    BY <1>1, <2>3 DEF RemoveFirst
  <2> QED
    BY <2>4, RemoveAtIs
<1>2. ~In(p, s) => RemoveFirst(s, p) = s
  BY DEF In, RemoveFirst
<1> QED
  BY <1>1, <1>2

\* RemoveFirstMatch, of the place of a takeover.
LEMMA RemoveTakeIs ==
    ASSUME NEW s \in Seq(Places), OneTake(s)
    PROVE  /\ \A n \in 1..Len(s) : IsTake(s[n]) => Removed(RemoveFirstMatch(s, IsTake), s, n)
           /\ (\A n \in 1..Len(s) : ~IsTake(s[n])) => RemoveFirstMatch(s, IsTake) = s
<1>1. ASSUME NEW n \in 1..Len(s), IsTake(s[n])
      PROVE  Removed(RemoveFirstMatch(s, IsTake), s, n)
  <2>1. {i \in 1..Len(s) : IsTake(s[i])} = {n}
    BY <1>1 DEF OneTake
  <2>2. Min({n}) = n
    BY DEF Min
  <2>3. SelectInSeq(s, IsTake) = n
    BY <2>1, <2>2 DEF SelectInSeq
  <2>4. RemoveFirstMatch(s, IsTake) = RemoveAt(s, n)
    BY <1>1, <2>3 DEF RemoveFirstMatch
  <2> QED
    BY <2>4, RemoveAtIs
<1>2. (\A n \in 1..Len(s) : ~IsTake(s[n])) => RemoveFirstMatch(s, IsTake) = s
  BY DEF RemoveFirstMatch
<1> QED
  BY <1>1, <1>2

\* What the removal of a place keeps.
LEMMA RemovedKeeps ==
    ASSUME NEW s \in Seq(Places), IsInjective(s), OneTake(s),
           NEW r, NEW n \in 1..Len(s), Removed(r, s, n)
    PROVE  /\ r \in Seq(Places) /\ IsInjective(r) /\ OneTake(r)
           /\ ~In(s[n], r) /\ \A p : In(p, r) => In(p, s)
           /\ \A p : In(p, s) /\ p # s[n] => In(p, r)
           /\ n # 1 => r # << >> /\ r[1] = s[1]
           /\ n = 1 => \A p : Next2(s, p) => r # << >> /\ r[1] = p
           /\ \A p : n > 2 /\ Next2(s, p) => Next2(r, p)
<1> DEFINE at(i) == IF i < n THEN i ELSE i + 1
<1>1. r \in Seq(Places) /\ Len(r) = Len(s) - 1 /\ Len(s) \in Nat /\ n \in Nat
      /\ DOMAIN r = 1..Len(r) /\ DOMAIN s = 1..Len(s)
  BY DEF Removed
<1>2. \A i \in 1..Len(r) : at(i) \in 1..Len(s) /\ at(i) # n /\ r[i] = s[at(i)]
  BY <1>1 DEF Removed
<1>3. \A i, j \in 1..Len(r) : at(i) = at(j) => i = j
  BY <1>1
<1> HIDE DEF at
<1>4. IsInjective(r) /\ OneTake(r)
  <2>1. \A i, j \in 1..Len(r) : r[i] = r[j] => i = j
    BY <1>1, <1>2, <1>3 DEF IsInjective
  <2>2. \A i, j \in 1..Len(r) : IsTake(r[i]) /\ IsTake(r[j]) => i = j
    BY <1>1, <1>2, <1>3 DEF OneTake
  <2> QED
    BY <1>1, <2>1, <2>2 DEF IsInjective, OneTake
<1>5. ~In(s[n], r) /\ \A p : In(p, r) => In(p, s)
  BY <1>1, <1>2 DEF In, IsInjective
<1> USE DEF at
<1>6. n # 1 => r # << >> /\ r[1] = s[1]
  BY <1>1, <1>2
<1>7. n = 1 => \A p : Next2(s, p) => r # << >> /\ r[1] = p
  BY <1>1, <1>2 DEF Next2
<1>8. \A p : n > 2 /\ Next2(s, p) => Next2(r, p)
  BY <1>1, <1>2 DEF Next2
<1>9. \A p : In(p, s) /\ p # s[n] => In(p, r)
  <2> SUFFICES ASSUME NEW p, In(p, s), p # s[n] PROVE In(p, r)
    OBVIOUS
  <2>1. PICK m \in 1..Len(s) : s[m] = p /\ m # n
    BY <1>1 DEF In
  <2>2. CASE m < n
    BY <1>1, <1>2, <2>1, <2>2 DEF In
  <2>3. CASE m > n
    <3>1. m - 1 \in 1..Len(r) /\ at(m - 1) = m
      BY <1>1, <2>1, <2>3
    <3> QED
      BY <1>1, <1>2, <2>1, <3>1 DEF In
  <2> QED
    BY <1>1, <2>1, <2>2, <2>3
<1> QED
  BY <1>1, <1>4, <1>5, <1>6, <1>7, <1>8, <1>9

\* A place at the end of a lane.
LEMMA AppendKeeps ==
    ASSUME NEW s \in Seq(Places), IsInjective(s), OneTake(s), NEW p \in Places, ~In(p, s),
           ~IsTake(p) \/ s = << >>
    PROVE  LET r == Append(s, p)
           IN  /\ r \in Seq(Places) /\ IsInjective(r) /\ OneTake(r)
               /\ \A q : In(q, r) <=> In(q, s) \/ q = p
               /\ r # << >> /\ (s = << >> => r[1] = p)
               /\ s # << >> => r[1] = s[1]
               /\ \A q : Next2(s, q) => Next2(r, q)
<1> DEFINE r == Append(s, p)
<1>1. /\ r \in Seq(Places) /\ Len(r) = Len(s) + 1 /\ Len(s) \in Nat
      /\ DOMAIN r = 1..Len(r) /\ DOMAIN s = 1..Len(s)
      /\ \A i \in 1..Len(s) : r[i] = s[i]
      /\ r[Len(s) + 1] = p
  OBVIOUS
<1> HIDE DEF r
<1>2. \A i \in 1..Len(r) : i \in 1..Len(s) \/ i = Len(s) + 1
  BY <1>1
<1>3. IsInjective(r)
  BY <1>1, <1>2 DEF IsInjective, In
<1>4. OneTake(r)
  <2>1. CASE ~IsTake(p)
    BY <1>1, <1>2, <2>1 DEF OneTake
  <2>2. CASE s = << >>
    <3>1. Len(s) = 0
      BY <2>2
    <3>2. \A i \in 1..Len(r) : i = 1
      BY <1>1, <3>1
    <3> QED
      BY <1>1, <3>2 DEF OneTake
  <2> QED
    BY <2>1, <2>2
<1>5. \A q : In(q, r) <=> In(q, s) \/ q = p
  BY <1>1, <1>2 DEF In
<1>6. r # << >> /\ (s = << >> => r[1] = p) /\ (s # << >> => r[1] = s[1])
  BY <1>1
<1>7. \A q : Next2(s, q) => Next2(r, q)
  BY <1>1 DEF Next2
<1> QED
  BY <1>1, <1>3, <1>4, <1>5, <1>6, <1>7 DEF r

\* A takeover's place right behind the first, in a lane that has none.
LEMMA ReservedKeeps ==
    ASSUME NEW s \in Seq(Places), IsInjective(s), NEW p \in Places, IsTake(p),
           \A i \in 1..Len(s) : ~IsTake(s[i])
    PROVE  LET r == IF s = << >> THEN <<p>> ELSE <<Head(s), p>> \o Tail(s)
           IN  /\ r \in Seq(Places) /\ IsInjective(r) /\ OneTake(r)
               /\ \A q : In(q, r) <=> In(q, s) \/ q = p
               /\ r # << >> /\ (s = << >> => r[1] = p)
               /\ s # << >> => r[1] = s[1] /\ Next2(r, p)
<1>1. CASE s = << >>
  <2>1. <<p>> \in Seq(Places) /\ Len(<<p>>) = 1 /\ <<p>>[1] = p /\ DOMAIN <<p>> = {1}
        /\ <<p>> # << >>
    OBVIOUS
  <2>2. \A q : ~In(q, s)
    BY <1>1 DEF In
  <2>3. \A q : In(q, <<p>>) <=> q = p
    BY <2>1 DEF In
  <2> QED
    BY <1>1, <2>1, <2>2, <2>3 DEF IsInjective, OneTake
<1>2. CASE s # << >>
  <2> DEFINE a == <<Head(s), p>>
             r == a \o Tail(s)
  <2>1. /\ a \in Seq(Places) /\ Len(a) = 2 /\ a[1] = s[1] /\ a[2] = p
        /\ Tail(s) \in Seq(Places) /\ Len(Tail(s)) = Len(s) - 1 /\ Len(s) \in Nat \ {0}
        /\ \A i \in 1..(Len(s) - 1) : Tail(s)[i] = s[i + 1]
        /\ DOMAIN s = 1..Len(s)
    BY <1>2
  <2> HIDE DEF a
  <2>2. /\ r \in Seq(Places) /\ Len(r) = Len(s) + 1
        /\ \A i \in 1..Len(r) : r[i] = IF i <= 2 THEN a[i] ELSE Tail(s)[i - 2]
    <3> DEFINE t == Tail(s)
    <3>1. t \in Seq(Places) /\ Len(t) = Len(s) - 1
      BY <2>1
    <3> HIDE DEF t
    <3>2. /\ a \o t \in Seq(Places) /\ Len(a \o t) = Len(a) + Len(t)
          /\ \A i \in 1..(Len(a) + Len(t)) :
                (a \o t)[i] = IF i <= Len(a) THEN a[i] ELSE t[i - Len(a)]
      BY <2>1, <3>1, ConcatProperties
    <3>3. Len(a) = 2 /\ Len(a) + Len(t) = Len(s) + 1
      BY <2>1, <3>1
    <3> QED
      BY <3>2, <3>3 DEF t
  <2>3. DOMAIN r = 1..Len(r)
    BY <2>2
  <2> HIDE DEF r
  <2>4. r[1] = s[1] /\ r[2] = p
    BY <2>1, <2>2
  <2>5. \A i \in 1..Len(r) : i > 2 => i - 1 \in 1..Len(s) /\ i - 1 # 1 /\ r[i] = s[i - 1]
    <3> TAKE i \in 1..Len(r)
    <3> HAVE i > 2
    <3>1. i - 2 \in 1..(Len(s) - 1) /\ (i - 2) + 1 = i - 1
      BY <2>1, <2>2
    <3> QED
      BY <2>1, <2>2, <3>1
  <2>6. \A i \in 1..Len(r) : i = 2 \/ (i # 2 /\ ~IsTake(r[i]))
    BY <2>1, <2>4, <2>5
  <2>7. OneTake(r)
    BY <2>3, <2>6 DEF OneTake
  <2>8. IsInjective(r)
    <3>1. ASSUME NEW i \in 1..Len(r), NEW j \in 1..Len(r), r[i] = r[j] PROVE i = j
      <4>1. CASE i = 2 \/ j = 2
        BY <2>4, <2>6, <3>1, <4>1
      <4>2. CASE i # 2 /\ j # 2
        <5>1. \A n \in 1..Len(r) : n # 2 =>
                 \E m \in 1..Len(s) : r[n] = s[m] /\ m = (IF n = 1 THEN 1 ELSE n - 1)
          BY <2>1, <2>2, <2>4, <2>5
        <5> QED
          BY <3>1, <4>2, <5>1, <2>1, <2>2 DEF IsInjective
      <4> QED
        BY <4>1, <4>2
    <3> QED
      BY <2>3, <3>1 DEF IsInjective
  <2>9. \A q : In(q, r) <=> In(q, s) \/ q = p
    <3>1. ASSUME NEW q, In(q, r) PROVE In(q, s) \/ q = p
      <4>1. PICK m \in 1..Len(r) : r[m] = q
        BY <2>3, <3>1 DEF In
      <4>2. CASE m = 1
        BY <2>1, <2>4, <4>1, <4>2 DEF In
      <4>3. CASE m = 2
        BY <2>4, <4>1, <4>3
      <4>4. CASE m > 2
        <5>1. m - 1 \in 1..Len(s) /\ s[m - 1] = q
          BY <2>5, <4>1, <4>4
        <5> QED
          BY <2>1, <5>1 DEF In
      <4> QED
        BY <2>1, <2>2, <4>1, <4>2, <4>3, <4>4
    <3>2. ASSUME NEW q, In(q, s) PROVE In(q, r)
      <4>1. PICK m \in 1..Len(s) : s[m] = q
        BY <2>1, <3>2 DEF In
      <4>2. CASE m = 1
        BY <2>1, <2>2, <2>3, <2>4, <4>1, <4>2 DEF In
      <4>3. CASE m # 1
        <5>1. m + 1 \in 1..Len(r) /\ m + 1 > 2 /\ (m + 1) - 1 = m
          BY <2>1, <2>2, <4>3
        <5> QED
          BY <2>3, <2>5, <4>1, <5>1 DEF In
      <4> QED
        BY <4>2, <4>3
    <3>3. In(p, r)
      BY <2>1, <2>2, <2>3, <2>4 DEF In
    <3> QED
      BY <3>1, <3>2, <3>3
  <2>10. r # << >> /\ Next2(r, p)
    BY <2>1, <2>2, <2>4 DEF Next2
  <2> QED
    BY <1>2, <2>2, <2>4, <2>7, <2>8, <2>9, <2>10 DEF r, a
<1> QED
  BY <1>1, <1>2

\* The lane a place was dropped from.
LEMMA LeftKeeps ==
    ASSUME TypedLane, ShapeOK, NEW c \in Convs, NEW p
    PROVE  LET L == Left(c, p)
           IN  /\ L \in [Convs -> Seq(Places)]
               /\ \A d \in Convs \ {c} : L[d] = lane[d]
               /\ IsInjective(L[c]) /\ OneTake(L[c])
               /\ ~In(p, L[c]) /\ \A q : In(q, L[c]) => In(q, lane[c])
               /\ \A q : In(q, lane[c]) /\ q # p => In(q, L[c])
               /\ lane[c] # << >> /\ lane[c][1] # p => L[c] # << >> /\ L[c][1] = lane[c][1]
               /\ \A q : lane[c][1] = p /\ Next2(lane[c], q) => L[c] # << >> /\ L[c][1] = q
               /\ \A q : lane[c][1] # p /\ q # p /\ Next2(lane[c], q) => Next2(L[c], q)
<1> DEFINE L == Left(c, p)
           s == lane[c]
           r == RemoveFirst(s, p)
<1>1. /\ s \in Seq(Places) /\ IsInjective(s) /\ OneTake(s)
      /\ L = [lane EXCEPT ![c] = r] /\ lane \in [Convs -> Seq(Places)]
      /\ DOMAIN s = 1..Len(s) /\ Len(s) \in Nat
  BY DEF TypedLane, ShapeOK, Left
<1>2. /\ r \in Seq(Places) /\ IsInjective(r) /\ OneTake(r)
      /\ ~In(p, r) /\ \A q : In(q, r) => In(q, s)
      /\ \A q : In(q, s) /\ q # p => In(q, r)
      /\ s # << >> /\ s[1] # p => r # << >> /\ r[1] = s[1]
      /\ \A q : s[1] = p /\ Next2(s, q) => r # << >> /\ r[1] = q
      /\ \A q : s[1] # p /\ q # p /\ Next2(s, q) => Next2(r, q)
  <2>1. CASE In(p, s)
    <3>1. PICK n \in 1..Len(s) : s[n] = p
      BY <1>1, <2>1 DEF In
    <3>2. Removed(r, s, n)
      BY <1>1, <3>1, RemoveFirstIs
    <3> HIDE DEF r, s
    <3>3. /\ r \in Seq(Places) /\ IsInjective(r) /\ OneTake(r)
          /\ ~In(s[n], r) /\ \A q : In(q, r) => In(q, s)
          /\ \A q : In(q, s) /\ q # s[n] => In(q, r)
          /\ n # 1 => r # << >> /\ r[1] = s[1]
          /\ n = 1 => \A q : Next2(s, q) => r # << >> /\ r[1] = q
          /\ \A q : n > 2 /\ Next2(s, q) => Next2(r, q)
      BY <1>1, <3>1, <3>2, RemovedKeeps
    <3>4. s # << >> => 1 \in 1..Len(s)
      BY <1>1
    <3>5. s[1] = p <=> n = 1
      BY <1>1, <3>1 DEF IsInjective
    <3>6. \A q : q # p /\ Next2(s, q) => n # 2
      BY <3>1 DEF Next2
    <3>7. n # 1 /\ n # 2 => n > 2
      BY <3>1
    <3> QED
      BY <3>1, <3>3, <3>5, <3>6, <3>7
  <2>2. CASE ~In(p, s)
    <3>1. r = s
      BY <1>1, <2>2, RemoveFirstIs
    <3>2. Len(s) >= 1 => s[1] # p
      BY <1>1, <2>2 DEF In
    <3>3. \A q : Next2(s, q) => Len(s) >= 1
      BY <1>1 DEF Next2
    <3> QED
      BY <1>1, <2>2, <3>1, <3>2, <3>3
  <2> QED
    BY <2>1, <2>2
<1>3. L \in [Convs -> Seq(Places)] /\ L[c] = r /\ \A d \in Convs \ {c} : L[d] = lane[d]
  BY <1>1, <1>2
<1> QED
  BY <1>2, <1>3

\* The lane a terminal's place was dropped from.
LEMMA ReapedKeeps ==
    ASSUME TypedLane, ShapeOK, NEW c \in Convs
    PROVE  LET L == [lane EXCEPT ![c] = RemoveFirstMatch(@, IsTake)]
           IN  /\ L \in [Convs -> Seq(Places)]
               /\ \A d \in Convs \ {c} : L[d] = lane[d]
               /\ IsInjective(L[c]) /\ OneTake(L[c])
               /\ \A q : In(q, L[c]) => In(q, lane[c]) /\ ~IsTake(q)
               /\ lane[c] # << >> /\ ~IsTake(lane[c][1])
                  => L[c] # << >> /\ L[c][1] = lane[c][1]
<1> DEFINE L == [lane EXCEPT ![c] = RemoveFirstMatch(@, IsTake)]
           s == lane[c]
           r == RemoveFirstMatch(s, IsTake)
<1>1. /\ s \in Seq(Places) /\ IsInjective(s) /\ OneTake(s)
      /\ lane \in [Convs -> Seq(Places)]
      /\ DOMAIN s = 1..Len(s) /\ Len(s) \in Nat
  BY DEF TypedLane, ShapeOK
<1>2. /\ r \in Seq(Places) /\ IsInjective(r) /\ OneTake(r)
      /\ \A q : In(q, r) => In(q, s) /\ ~IsTake(q)
      /\ s # << >> /\ ~IsTake(s[1]) => r # << >> /\ r[1] = s[1]
  <2>1. CASE \E n \in 1..Len(s) : IsTake(s[n])
    <3>1. PICK n \in 1..Len(s) : IsTake(s[n])
      BY <2>1
    <3>2. Removed(r, s, n)
      BY <1>1, <3>1, RemoveTakeIs
    <3> HIDE DEF r, s
    <3>3. /\ r \in Seq(Places) /\ IsInjective(r) /\ OneTake(r)
          /\ ~In(s[n], r) /\ \A q : In(q, r) => In(q, s)
          /\ n # 1 => r # << >> /\ r[1] = s[1]
      BY <1>1, <3>1, <3>2, RemovedKeeps
    <3>4. \A q : In(q, s) /\ IsTake(q) => q = s[n]
      BY <1>1, <3>1 DEF In, OneTake
    <3>5. ~IsTake(s[1]) => n # 1
      BY <3>1
    <3> QED
      BY <3>3, <3>4, <3>5
  <2>2. CASE \A n \in 1..Len(s) : ~IsTake(s[n])
    <3>1. r = s
      BY <1>1, <2>2, RemoveTakeIs
    <3> QED
      BY <1>1, <2>2, <3>1 DEF In
  <2> QED
    BY <2>1, <2>2
<1>3. L \in [Convs -> Seq(Places)] /\ L[c] = r /\ \A d \in Convs \ {c} : L[d] = lane[d]
  BY <1>1, <1>2
<1> QED
  BY <1>2, <1>3
-----------------------------------------------------------------------------
(* What the steps have in common.                                          *)

LEMMA NonesTyped ==
    NoJob \in JobRecords /\ NoAsk \in AskRecords /\ NotHeld \in HeldRecords /\ NoReq \in Requests
<1>1. NoJob \in JobRecords
  BY DEF NoJob, JobRecords, JobStates, SomeConv
<1>2. NoAsk \in AskRecords
  BY DEF NoAsk, AskRecords, AskStates
<1>3. NotHeld \in HeldRecords
  BY DEF NotHeld, HeldRecords, SomeClient
<1>4. NoReq \in Requests
  BY DEF NoReq, Requests, Phases, SomeConv, SomeJob
<1> QED
  BY <1>1, <1>2, <1>3, <1>4

\* Places differ as their owners do.
LEMMA PlacesApart ==
    ASSUME TypedJob
    PROVE  /\ \A k \in Clients : Take(k) \in Places /\ IsTake(Take(k))
           /\ \A k, l \in Clients : Take(k) = Take(l) => k = l
           /\ \A j \in Jobs : Place(j) \in Places /\ ~IsTake(Place(j))
           /\ \A i, j \in Jobs : Place(i) = Place(j) => i = j
           /\ \A k \in Clients, j \in Jobs : Take(k) # Place(j)
           /\ \A p \in Places : ~IsTake(p) => p[1] \in {"job", "call"} /\ p[2] \in Jobs
<1>1. \A j \in Jobs : job[j].kind \in {"job", "call"}
  BY DEF TypedJob, JobRecords
<1>2. \A j \in Jobs : Place(j) \in Places
  BY <1>1 DEF Places, Place
<1>3. \A p \in Places : ~IsTake(p) => p[1] \in {"job", "call"} /\ p[2] \in Jobs
  BY DEF Places, IsTake
<1> QED
  BY <1>1, <1>2, <1>3 DEF Places, Take, Place, IsTake

\* What depends on nothing that changes.
LEMMA UnchangedKeeps ==
    /\ UNCHANGED lane /\ TypedLane => TypedLane'
    /\ UNCHANGED <<busy, sess, review, kept>> /\ TypedStore => TypedStore'
    /\ UNCHANGED job /\ TypedJob => TypedJob'
    /\ UNCHANGED ask /\ TypedAsk => TypedAsk'
    /\ UNCHANGED term /\ TypedTerm => TypedTerm'
    /\ UNCHANGED held /\ TypedHeld => TypedHeld'
    /\ UNCHANGED req /\ TypedReq => TypedReq'
    /\ UNCHANGED <<lock, live, stop>> /\ TypedFlags => TypedFlags'
    /\ UNCHANGED <<req, lock>> /\ LockOK => LockOK'
    /\ UNCHANGED <<job, busy>> /\ TurnOK => TurnOK'
    /\ UNCHANGED <<busy, review, sess>> /\ OwnOK => OwnOK'
    /\ UNCHANGED <<term, busy, kept>> /\ DrivenOK => DrivenOK'
    /\ UNCHANGED <<req, term>> /\ ClosedOK => ClosedOK'
    /\ UNCHANGED <<req, busy>> /\ OwningOK => OwningOK'
    /\ UNCHANGED <<req, kept>> /\ KeptOK => KeptOK'
    /\ UNCHANGED <<busy, term, req>> /\ TakenOK => TakenOK'
    /\ UNCHANGED lane /\ ShapeOK => ShapeOK'
    /\ UNCHANGED <<lane, term, req, job>> /\ OwnersOK => OwnersOK'
    /\ UNCHANGED <<job, lane>> /\ HeadOK => HeadOK'
    /\ UNCHANGED <<req, lane, job>> /\ BehindOK => BehindOK'
    /\ UNCHANGED <<req, lane, review, sess>> /\ PlacedOK => PlacedOK'
    /\ UNCHANGED <<lane, busy>> /\ LentOK => LentOK'
    /\ UNCHANGED <<held, req>> /\ RoomOK => RoomOK'
    /\ UNCHANGED ask /\ AnswersOK => AnswersOK'
<1>1. /\ UNCHANGED lane /\ TypedLane => TypedLane'
      /\ UNCHANGED <<busy, sess, review, kept>> /\ TypedStore => TypedStore'
      /\ UNCHANGED job /\ TypedJob => TypedJob'
      /\ UNCHANGED ask /\ TypedAsk => TypedAsk'
      /\ UNCHANGED term /\ TypedTerm => TypedTerm'
      /\ UNCHANGED held /\ TypedHeld => TypedHeld'
      /\ UNCHANGED req /\ TypedReq => TypedReq'
      /\ UNCHANGED <<lock, live, stop>> /\ TypedFlags => TypedFlags'
  BY DEF TypedLane, TypedStore, TypedJob, TypedAsk, TypedTerm, TypedHeld, TypedReq, TypedFlags
<1>2. UNCHANGED <<req, lock>> /\ LockOK => LockOK'
  BY DEF LockOK
<1>3. UNCHANGED <<job, busy>> /\ TurnOK => TurnOK'
  BY DEF TurnOK
<1>4. /\ UNCHANGED <<busy, review, sess>> /\ OwnOK => OwnOK'
      /\ UNCHANGED <<term, busy, kept>> /\ DrivenOK => DrivenOK'
      /\ UNCHANGED <<req, term>> /\ ClosedOK => ClosedOK'
      /\ UNCHANGED <<req, busy>> /\ OwningOK => OwningOK'
      /\ UNCHANGED <<req, kept>> /\ KeptOK => KeptOK'
  BY DEF OwnOK, DrivenOK, ClosedOK, OwningOK, KeptOK
<1>5. UNCHANGED <<busy, term, req>> /\ TakenOK => TakenOK'
  BY DEF TakenOK
<1>6. UNCHANGED lane /\ ShapeOK => ShapeOK'
  BY DEF ShapeOK
<1>7. UNCHANGED <<lane, term, req, job>> /\ OwnersOK => OwnersOK'
  BY DEF OwnersOK, Owned, Place, Active
<1>8. UNCHANGED <<job, lane>> /\ HeadOK => HeadOK'
  BY DEF HeadOK, Place
<1>9. UNCHANGED <<req, lane, job>> /\ BehindOK => BehindOK'
  BY DEF BehindOK, Waiting, Seated, Place
<1>10. UNCHANGED <<held, req>> /\ RoomOK => RoomOK'
  BY DEF RoomOK, Capped, RunningTakeovers
<1>11. UNCHANGED ask /\ AnswersOK => AnswersOK'
  BY DEF AnswersOK
<1>12. UNCHANGED <<req, lane, review, sess>> /\ PlacedOK => PlacedOK'
  BY DEF PlacedOK
<1>13. UNCHANGED <<lane, busy>> /\ LentOK => LentOK'
  BY DEF LentOK
<1> QED
  BY <1>1, <1>2, <1>3, <1>4, <1>5, <1>6, <1>7, <1>8, <1>9, <1>10, <1>11, <1>12, <1>13

\* A place at the end of a lane, and one dropped from it.
LaneJoined(c, p) ==
    /\ lane' \in [Convs -> Seq(Places)]
    /\ \A d \in Convs \ {c} : lane'[d] = lane[d]
    /\ IsInjective(lane'[c]) /\ OneTake(lane'[c])
    /\ \A q : In(q, lane'[c]) <=> In(q, lane[c]) \/ q = p
    /\ lane'[c] # << >> /\ (lane[c] = << >> => lane'[c][1] = p)
    /\ lane[c] # << >> => lane'[c][1] = lane[c][1]
    /\ \A q : Next2(lane[c], q) => Next2(lane'[c], q)

LEMMA JoinedLane ==
    ASSUME TypedLane, ShapeOK, NEW c \in Convs, NEW p \in Places, ~In(p, lane[c]),
           ~IsTake(p) \/ lane[c] = << >>, lane' = Joined(c, p)
    PROVE  LaneJoined(c, p)
<1> DEFINE s == lane[c]
           r == Append(s, p)
<1>1. /\ s \in Seq(Places) /\ IsInjective(s) /\ OneTake(s)
      /\ lane \in [Convs -> Seq(Places)] /\ lane' = [lane EXCEPT ![c] = r]
  BY DEF TypedLane, ShapeOK, Joined
<1>2. ~In(p, s) /\ (~IsTake(p) \/ s = << >>)
  OBVIOUS
<1> HIDE DEF s
<1>3. /\ r \in Seq(Places) /\ IsInjective(r) /\ OneTake(r)
      /\ \A q : In(q, r) <=> In(q, s) \/ q = p
      /\ r # << >> /\ (s = << >> => r[1] = p)
      /\ s # << >> => r[1] = s[1]
      /\ \A q : Next2(s, q) => Next2(r, q)
  BY <1>1, <1>2, AppendKeeps
<1> HIDE DEF r
<1>4. lane' \in [Convs -> Seq(Places)] /\ lane'[c] = r /\ \A d \in Convs \ {c} : lane'[d] = lane[d]
  BY <1>1, <1>3
<1> QED
  BY <1>3, <1>4 DEF LaneJoined, s

LaneLeft(c, p) ==
    /\ lane' \in [Convs -> Seq(Places)]
    /\ \A d \in Convs \ {c} : lane'[d] = lane[d]
    /\ IsInjective(lane'[c]) /\ OneTake(lane'[c])
    /\ ~In(p, lane'[c]) /\ \A q : In(q, lane'[c]) => In(q, lane[c])
    /\ \A q : In(q, lane[c]) /\ q # p => In(q, lane'[c])
    /\ lane[c] # << >> /\ lane[c][1] # p => lane'[c] # << >> /\ lane'[c][1] = lane[c][1]
    /\ \A q : lane[c][1] = p /\ Next2(lane[c], q) => lane'[c] # << >> /\ lane'[c][1] = q
    /\ \A q : lane[c][1] # p /\ q # p /\ Next2(lane[c], q) => Next2(lane'[c], q)

LEMMA LeftLane ==
    ASSUME TypedLane, ShapeOK, NEW c \in Convs, NEW p, lane' = Left(c, p)
    PROVE  LaneLeft(c, p)
<1> DEFINE L == Left(c, p)
<1>1. /\ L \in [Convs -> Seq(Places)]
      /\ \A d \in Convs \ {c} : L[d] = lane[d]
      /\ IsInjective(L[c]) /\ OneTake(L[c])
      /\ ~In(p, L[c]) /\ \A q : In(q, L[c]) => In(q, lane[c])
      /\ \A q : In(q, lane[c]) /\ q # p => In(q, L[c])
      /\ lane[c] # << >> /\ lane[c][1] # p => L[c] # << >> /\ L[c][1] = lane[c][1]
      /\ \A q : lane[c][1] = p /\ Next2(lane[c], q) => L[c] # << >> /\ L[c][1] = q
      /\ \A q : lane[c][1] # p /\ q # p /\ Next2(lane[c], q) => Next2(L[c], q)
  BY LeftKeeps
<1>2. lane' = L
  OBVIOUS
<1> HIDE DEF L
<1> QED
  BY <1>1, <1>2 DEF LaneLeft

LaneReaped(c) ==
    /\ lane' \in [Convs -> Seq(Places)]
    /\ \A d \in Convs \ {c} : lane'[d] = lane[d]
    /\ IsInjective(lane'[c]) /\ OneTake(lane'[c])
    /\ \A q : In(q, lane'[c]) => In(q, lane[c]) /\ ~IsTake(q)
    /\ lane[c] # << >> /\ ~IsTake(lane[c][1])
       => lane'[c] # << >> /\ lane'[c][1] = lane[c][1]

LEMMA ReapedLane ==
    ASSUME TypedLane, ShapeOK, NEW c \in Convs,
           lane' = [lane EXCEPT ![c] = RemoveFirstMatch(@, IsTake)]
    PROVE  LaneReaped(c)
BY ReapedKeeps DEF LaneReaped

\* Each lane keeps its shape.
LEMMA ShapeStays ==
    ASSUME ShapeOK, NEW c \in Convs,
           \A d \in Convs \ {c} : lane'[d] = lane[d],
           IsInjective(lane'[c]), OneTake(lane'[c])
    PROVE  ShapeOK'
BY DEF ShapeOK

\* Fewer terminals run.
LEMMA FewerRun ==
    ASSUME TakeoverAssumption, \A c \in Convs : Runs(c)' => Runs(c)
    PROVE  RunningTakeovers \in Nat /\ RunningTakeovers' \in Nat
           /\ RunningTakeovers' <= RunningTakeovers
<1> DEFINE R == {c \in Convs : held[c].on /\ ~held[c].finished}
           S == {c \in Convs : held'[c].on /\ ~held'[c].finished}
<1>1. IsFiniteSet(Convs) /\ R \subseteq Convs /\ S \subseteq R
  BY DEF TakeoverAssumption, Runs
<1>2. RunningTakeovers = Cardinality(R) /\ RunningTakeovers' = Cardinality(S)
  BY DEF RunningTakeovers
<1> HIDE DEF R, S
<1>3. IsFiniteSet(R)
  BY <1>1, FS_Subset
<1>4. IsFiniteSet(S) /\ Cardinality(S) <= Cardinality(R)
  BY <1>1, <1>3, FS_Subset
<1> QED
  BY <1>2, <1>3, <1>4, FS_CardinalityType

\* One more runs.
LEMMA OneMoreRuns ==
    ASSUME TakeoverAssumption, NEW c \in Convs,
           \A d \in Convs \ {c} : Runs(d)' => Runs(d)
    PROVE  RunningTakeovers \in Nat /\ RunningTakeovers' \in Nat
           /\ RunningTakeovers' <= RunningTakeovers + 1
<1> DEFINE R == {d \in Convs : held[d].on /\ ~held[d].finished}
           S == {d \in Convs : held'[d].on /\ ~held'[d].finished}
           T == R \cup {c}
<1>1. IsFiniteSet(Convs) /\ R \subseteq Convs /\ S \subseteq T
  BY DEF TakeoverAssumption, Runs
<1>2. RunningTakeovers = Cardinality(R) /\ RunningTakeovers' = Cardinality(S)
  BY DEF RunningTakeovers
<1> HIDE DEF R, S
<1>3. IsFiniteSet(R)
  BY <1>1, FS_Subset
<1>4. IsFiniteSet(T) /\ Cardinality(T) <= Cardinality(R) + 1
  <2>1. Cardinality(R) \in Nat
    BY <1>3, FS_CardinalityType
  <2>2. IsFiniteSet(T) /\ Cardinality(T) = IF c \in R THEN Cardinality(R) ELSE Cardinality(R) + 1
    BY <1>3, FS_AddElement
  <2> QED
    BY <2>1, <2>2
<1> HIDE DEF T
<1>5. IsFiniteSet(S) /\ Cardinality(S) <= Cardinality(T)
  BY <1>1, <1>4, FS_Subset
<1>6. Cardinality(R) \in Nat /\ Cardinality(S) \in Nat /\ Cardinality(T) \in Nat
  BY <1>3, <1>4, <1>5, FS_CardinalityType
<1> QED
  BY <1>2, <1>4, <1>5, <1>6

-----------------------------------------------------------------------------
(* Calls.                                                                  *)

\* A call takes its place.
LEMMA SendKeeps ==
    ASSUME IInv, NEW j \in Jobs, NEW c \in Convs, NEW kind \in {"job", "call"},
           Send(j, c, kind)
    PROVE  IInv'
<1> USE DEF IInv, Typed
<1>0. UNCHANGED <<busy, sess, review, kept, ask, term, ending, held, req, lock, live,
      stop>>
  BY DEF Send, convVars, termVars
<1>1. /\ job[j].st = "none" /\ \A i \in Jobs \ {j} : job'[i] = job[i]
      /\ job'[j].st \in {"queued", "ready"} /\ job'[j].conv = c /\ job'[j].kind = kind
      /\ job'[j].st = "ready" => lane[c] = << >>
      /\ job' \in [Jobs -> JobRecords]
  <2>1. /\ job[j].st = "none" /\ lane[c] \in Seq(Places)
        /\ job' = [job EXCEPT ![j] = [NoJob EXCEPT !.conv = c, !.kind = kind,
              !.waits = ~(lane[c] = << >> /\ busy[c] = "none"),
              !.st = IF lane[c] = << >> /\ busy[c] = "none" THEN "ready" ELSE "queued"]]
    BY DEF Send, TypedLane
  <2> DEFINE new == [NoJob EXCEPT !.conv = c, !.kind = kind,
              !.waits = ~(lane[c] = << >> /\ busy[c] = "none"),
              !.st = IF lane[c] = << >> /\ busy[c] = "none" THEN "ready" ELSE "queued"]
  <2>2. /\ new.st \in {"queued", "ready"} /\ new.conv = c /\ new.kind = kind
        /\ new.st = "ready" => lane[c] = << >>
        /\ new \in JobRecords
    BY NonesTyped DEF JobRecords, JobStates, SomeConv, NoJob
  <2>3. job' = [job EXCEPT ![j] = new] /\ job \in [Jobs -> JobRecords]
    BY <2>1 DEF TypedJob
  <2> HIDE DEF new
  <2> QED
    BY <2>1, <2>2, <2>3
<1>2. /\ \A m, n \in Clients : Take(m) = Take(n) => m = n
      /\ \A i \in Jobs : Place(i) \in Places /\ ~IsTake(Place(i))
      /\ \A i, l \in Jobs : Place(i) = Place(l) => i = l
      /\ \A m \in Clients : Take(m) \in Places /\ IsTake(Take(m))
      /\ \A m \in Clients, i \in Jobs : Take(m) # Place(i)
  BY PlacesApart
<1>3. /\ <<kind, j>> \in Places /\ ~IsTake(<<kind, j>>)
      /\ ~In(<<kind, j>>, lane[c])
  <2>1. <<kind, j>> \in Places /\ ~IsTake(<<kind, j>>)
    BY DEF Places, IsTake
  <2>2. \A i \in Jobs : <<kind, j>> = Place(i) => i = j
    BY DEF Place
  <2> QED
    BY <1>1, <2>1, <2>2 DEF OwnersOK, Owned, Active
<1>4. LaneJoined(c, <<kind, j>>)
  BY <1>3, JoinedLane DEF Send
<1>5. Place(j)' = <<kind, j>> /\ \A i \in Jobs \ {j} : Place(i)' = Place(i)
  BY <1>1 DEF Place
<1>same. /\ TypedStore' /\ TypedAsk' /\ TypedTerm' /\ TypedHeld' /\ TypedReq' /\ TypedFlags'
         /\ LockOK' /\ OwnOK' /\ DrivenOK' /\ ClosedOK' /\ OwningOK' /\ KeptOK'
         /\ TakenOK' /\ RoomOK' /\ AnswersOK'
  BY <1>0, UnchangedKeeps
<1>TypedLane. TypedLane'
  BY <1>4 DEF LaneJoined, TypedLane
<1>TypedJob. TypedJob'
  BY <1>1 DEF TypedJob
<1>TurnOK. TurnOK'
  BY <1>0, <1>1 DEF TurnOK
<1>ShapeOK. ShapeOK'
  BY <1>4, ShapeStays DEF LaneJoined
<1>OwnersOK. OwnersOK'
  <2>1. \A d \in Convs, p \in Places : Owned(p, d) => Owned(p, d)'
    BY <1>0, <1>1, <1>5 DEF Owned, Active
  <2>2. Owned(<<kind, j>>, c)'
    BY <1>1, <1>3, <1>5 DEF Owned, Active
  <2> QED
    BY <1>4, <2>1, <2>2 DEF OwnersOK, LaneJoined
<1>HeadOK. HeadOK'
  <2> SUFFICES ASSUME NEW i \in Jobs, job'[i].st \in {"ready", "turn", "over"}
               PROVE  lane'[job'[i].conv] # << >> /\ lane'[job'[i].conv][1] = Place(i)'
    BY DEF HeadOK
  <2>1. CASE i = j
    BY <1>1, <1>4, <1>5, <2>1 DEF LaneJoined
  <2>2. CASE i # j
    <3>1. /\ lane[job[i].conv] # << >> /\ lane[job[i].conv][1] = Place(i)
          /\ job'[i] = job[i] /\ job[i].conv \in Convs /\ Place(i)' = Place(i)
      BY <1>1, <1>5, <2>2 DEF HeadOK, TypedJob
    <3>2. CASE job[i].conv = c
      BY <1>4, <3>1, <3>2 DEF LaneJoined
    <3>3. CASE job[i].conv # c
      BY <1>4, <3>1, <3>3 DEF LaneJoined
    <3> QED
      BY <3>2, <3>3
  <2> QED
    BY <2>1, <2>2
<1>BehindOK. BehindOK'
  <2>1. \A d \in Convs : lane[d] # << >> => lane'[d] # << >> /\ lane'[d][1] = lane[d][1]
    BY <1>4 DEF LaneJoined
  <2>2. \A d \in Convs : \A q : Next2(lane[d], q) => Next2(lane'[d], q)
    BY <1>4 DEF LaneJoined
  <2>3. \A k \in Clients : req[k].pc \in Waiting => req[k].conv \in Convs
    BY DEF TypedReq, Waiting
  <2> QED
    BY <1>0, <1>1, <1>5, <2>1, <2>2, <2>3 DEF BehindOK, Waiting, Seated
<1>PlacedOK. PlacedOK'
  <2>1. \A d \in Convs : lane[d] # << >> => lane'[d] # << >> /\ lane'[d][1] = lane[d][1]
    BY <1>4 DEF LaneJoined
  <2>2. \A d \in Convs : \A q : Next2(lane[d], q) => Next2(lane'[d], q)
    BY <1>4 DEF LaneJoined
  <2>3. \A k \in Clients : req[k].pc = "placed" => req[k].conv \in Convs
    BY DEF TypedReq
  <2> QED
    BY <1>0, <2>1, <2>2, <2>3 DEF PlacedOK
<1>LentOK. LentOK'
  BY <1>0, <1>4 DEF LentOK, LaneJoined
<1> QED
  BY <1>PlacedOK, <1>LentOK,
     <1>same, <1>TypedLane, <1>TypedJob, <1>TurnOK, <1>ShapeOK, <1>OwnersOK, <1>HeadOK,
     <1>BehindOK

\* A call that waits is the first of its lane.
LEMMA FirstKeeps ==
    ASSUME IInv, NEW j \in Jobs, First(j)
    PROVE  IInv'
<1> USE DEF IInv, Typed
<1>0. UNCHANGED <<lane, busy, sess, review, kept, ask, term, ending, held, req, lock,
      live, stop>>
  BY DEF First, convVars, termVars
<1>1. /\ job[j].st = "queued" /\ job'[j].st = "ready"
      /\ lane[job[j].conv] # << >> /\ lane[job[j].conv][1] = Place(j)
      /\ \A i \in Jobs \ {j} : job'[i] = job[i]
      /\ job'[j].conv = job[j].conv /\ job'[j].kind = job[j].kind
      /\ job' \in [Jobs -> JobRecords]
      /\ \A i \in Jobs : Place(i)' = Place(i)
  BY DEF First, IsFirst, TypedJob, TypedLane, JobRecords, JobStates, Place
<1>same. /\ TypedLane' /\ TypedStore' /\ TypedAsk' /\ TypedTerm' /\ TypedHeld' /\ TypedReq'
         /\ TypedFlags' /\ LockOK' /\ OwnOK' /\ DrivenOK' /\ ClosedOK' /\ OwningOK'
         /\ KeptOK' /\ TakenOK' /\ ShapeOK' /\ RoomOK' /\ AnswersOK' /\ PlacedOK' /\ LentOK'
  BY <1>0, UnchangedKeeps
<1>TypedJob. TypedJob'
  BY <1>1 DEF TypedJob
<1>TurnOK. TurnOK'
  BY <1>0, <1>1 DEF TurnOK
<1>OwnersOK. OwnersOK'
  BY <1>0, <1>1 DEF OwnersOK, Owned, Active
<1>HeadOK. HeadOK'
  BY <1>0, <1>1 DEF HeadOK
<1>BehindOK. BehindOK'
  BY <1>0, <1>1 DEF BehindOK, Waiting, Seated
<1> QED
  BY <1>same, <1>TypedJob, <1>TurnOK, <1>OwnersOK, <1>HeadOK, <1>BehindOK

\* A turn begins, where none runs and nobody else has the conversation.
LEMMA BeginKeeps ==
    ASSUME IInv, NEW j \in Jobs, Begin(j)
    PROVE  IInv'
<1> USE DEF IInv, Typed
<1>0. UNCHANGED <<lane, sess, review, kept, ask, term, ending, held, req, lock, live,
      stop>>
  BY DEF Begin, convVars, termVars
<1>1. /\ job[j].st = "ready" /\ job'[j].st \in {"turn", "over"}
      /\ \A i \in Jobs \ {j} : job'[i] = job[i]
      /\ job'[j].conv = job[j].conv /\ job'[j].kind = job[j].kind
      /\ job' \in [Jobs -> JobRecords]
      /\ \A i \in Jobs : Place(i)' = Place(i)
      /\ job'[j].st = "over" => busy' = busy
      /\ job'[j].st = "turn" => busy[job[j].conv] = "none"
                                /\ busy' = [busy EXCEPT ![job[j].conv] = "turn"]
  BY DEF Begin, TypedJob, JobRecords, JobStates, Place
<1>2. /\ busy' \in [Convs -> {"none", "turn", "own", "taken"}] /\ job[j].conv \in Convs
      /\ \A d \in Convs : d # job[j].conv \/ job'[j].st = "over" => busy'[d] = busy[d]
      /\ job'[j].st = "turn" => busy[job[j].conv] = "none" /\ busy'[job[j].conv] = "turn"
  BY <1>1 DEF TypedStore, TypedJob
<1>3. /\ \A m, n \in Clients : Take(m) = Take(n) => m = n
      /\ \A i \in Jobs : Place(i) \in Places /\ ~IsTake(Place(i))
      /\ \A i, l \in Jobs : Place(i) = Place(l) => i = l
      /\ \A m \in Clients : Take(m) \in Places /\ IsTake(Take(m))
      /\ \A m \in Clients, i \in Jobs : Take(m) # Place(i)
  BY PlacesApart
<1>same. /\ TypedLane' /\ TypedAsk' /\ TypedTerm' /\ TypedHeld' /\ TypedReq' /\ TypedFlags'
         /\ LockOK' /\ ClosedOK' /\ KeptOK' /\ ShapeOK' /\ RoomOK' /\ AnswersOK' /\ PlacedOK'
  BY <1>0, UnchangedKeeps
<1>TypedStore. TypedStore'
  BY <1>0, <1>2 DEF TypedStore
<1>TypedJob. TypedJob'
  BY <1>1 DEF TypedJob
<1>TurnOK. TurnOK'
  BY <1>0, <1>1, <1>2 DEF TurnOK, TypedJob
<1>OwnOK. OwnOK'
  BY <1>0, <1>1, <1>2 DEF OwnOK
<1>DrivenOK. DrivenOK'
  BY <1>0, <1>1, <1>2 DEF DrivenOK
<1>OwningOK. OwningOK'
  BY <1>0, <1>1, <1>2 DEF OwningOK, TypedReq, Owning
<1>TakenOK. TakenOK'
  BY <1>0, <1>1, <1>2 DEF TakenOK
<1>OwnersOK. OwnersOK'
  BY <1>0, <1>1 DEF OwnersOK, Owned, Active
<1>HeadOK. HeadOK'
  BY <1>0, <1>1 DEF HeadOK
<1>BehindOK. BehindOK'
  <2>1. \A k \in Clients : req[k].pc \in Seated => req[k].conv # job[j].conv
    BY <1>1, <1>3 DEF BehindOK, Waiting, Seated, HeadOK
  <2> QED
    BY <1>0, <1>1, <2>1 DEF BehindOK, Waiting, Seated
<1>LentOK. LentOK'
  BY <1>0, <1>1, <1>2 DEF LentOK
<1> QED
  BY <1>LentOK, <1>same, <1>TypedStore, <1>TypedJob, <1>TurnOK, <1>OwnOK, <1>DrivenOK, <1>OwningOK,
     <1>TakenOK, <1>OwnersOK, <1>HeadOK, <1>BehindOK

\* A turn ends.
LEMMA EndTurnKeeps ==
    ASSUME IInv, NEW j \in Jobs, NEW keeps \in BOOLEAN, EndTurn(j, keeps)
    PROVE  IInv'
<1> USE DEF IInv, Typed
<1>0. UNCHANGED <<lane, sess, review, ask, term, ending, held, req, lock, live, stop>>
  BY DEF EndTurn, convVars, termVars
<1>1. /\ job[j].st = "turn" /\ job'[j].st = "over"
      /\ \A i \in Jobs \ {j} : job'[i] = job[i]
      /\ job'[j].conv = job[j].conv /\ job'[j].kind = job[j].kind
      /\ job' \in [Jobs -> JobRecords]
      /\ \A i \in Jobs : Place(i)' = Place(i)
  BY DEF EndTurn, TypedJob, JobRecords, JobStates, Place
<1>2. /\ busy[job[j].conv] = "turn" /\ job[j].conv \in Convs
      /\ busy' = [busy EXCEPT ![job[j].conv] = "none"]
      /\ kept' = [kept EXCEPT ![job[j].conv] = keeps]
  BY <1>1 DEF EndTurn, TurnOK, TypedJob
<1>3. /\ busy' \in [Convs -> {"none", "turn", "own", "taken"}] /\ kept' \in [Convs -> BOOLEAN]
      /\ busy'[job[j].conv] = "none"
      /\ \A d \in Convs \ {job[j].conv} : busy'[d] = busy[d] /\ kept'[d] = kept[d]
  BY <1>2 DEF TypedStore
<1>same. /\ TypedLane' /\ TypedAsk' /\ TypedTerm' /\ TypedHeld' /\ TypedReq' /\ TypedFlags'
         /\ LockOK' /\ ClosedOK' /\ ShapeOK' /\ RoomOK' /\ AnswersOK' /\ PlacedOK'
  BY <1>0, UnchangedKeeps
<1>TypedStore. TypedStore'
  BY <1>0, <1>3 DEF TypedStore
<1>TypedJob. TypedJob'
  BY <1>1 DEF TypedJob
<1>TurnOK. TurnOK'
  BY <1>0, <1>1, <1>2, <1>3 DEF TurnOK, TypedJob
<1>OwnOK. OwnOK'
  BY <1>0, <1>2, <1>3 DEF OwnOK
<1>DrivenOK. DrivenOK'
  BY <1>0, <1>2, <1>3 DEF DrivenOK
<1>OwningOK. OwningOK'
  BY <1>0, <1>2, <1>3 DEF OwningOK, TypedReq, Owning
<1>KeptOK. KeptOK'
  BY <1>0, <1>2, <1>3 DEF KeptOK, OwningOK, TypedReq, Owning
<1>TakenOK. TakenOK'
  BY <1>0, <1>2, <1>3 DEF TakenOK
<1>OwnersOK. OwnersOK'
  BY <1>0, <1>1 DEF OwnersOK, Owned, Active
<1>HeadOK. HeadOK'
  BY <1>0, <1>1 DEF HeadOK
<1>BehindOK. BehindOK'
  BY <1>0, <1>1 DEF BehindOK, Waiting, Seated
<1>LentOK. LentOK'
  BY <1>0, <1>2, <1>3 DEF LentOK
<1> QED
  BY <1>LentOK, <1>same, <1>TypedStore, <1>TypedJob, <1>TurnOK, <1>OwnOK, <1>DrivenOK, <1>OwningOK,
     <1>KeptOK, <1>TakenOK, <1>OwnersOK, <1>HeadOK, <1>BehindOK

\* A call leaves its place.
LEMMA LeaveKeeps ==
    ASSUME IInv, NEW j \in Jobs, Leave(j)
    PROVE  IInv'
<1> USE DEF IInv, Typed
<1>0. UNCHANGED <<busy, sess, review, kept, ask, term, ending, held, req, lock, live,
      stop>>
  BY DEF Leave, convVars, termVars
<1>1. /\ job[j].st \in {"over", "queued"} /\ job'[j].st = "done" /\ job[j].conv \in Convs
      /\ \A i \in Jobs \ {j} : job'[i] = job[i]
      /\ job'[j].conv = job[j].conv /\ job'[j].kind = job[j].kind
      /\ job' \in [Jobs -> JobRecords]
      /\ \A i \in Jobs : Place(i)' = Place(i)
  BY DEF Leave, TypedJob, JobRecords, JobStates, Place
<1>2. LaneLeft(job[j].conv, Place(j))
  BY <1>1, LeftLane DEF Leave
<1>3. /\ \A m, n \in Clients : Take(m) = Take(n) => m = n
      /\ \A i \in Jobs : Place(i) \in Places /\ ~IsTake(Place(i))
      /\ \A i, l \in Jobs : Place(i) = Place(l) => i = l
      /\ \A m \in Clients : Take(m) \in Places /\ IsTake(Take(m))
      /\ \A m \in Clients, i \in Jobs : Take(m) # Place(i)
  BY PlacesApart
<1>same. /\ TypedStore' /\ TypedAsk' /\ TypedTerm' /\ TypedHeld' /\ TypedReq' /\ TypedFlags'
         /\ LockOK' /\ OwnOK' /\ DrivenOK' /\ ClosedOK' /\ OwningOK' /\ KeptOK'
         /\ TakenOK' /\ RoomOK' /\ AnswersOK'
  BY <1>0, UnchangedKeeps
<1>TypedLane. TypedLane'
  BY <1>2 DEF LaneLeft, TypedLane
<1>TypedJob. TypedJob'
  BY <1>1 DEF TypedJob
<1>TurnOK. TurnOK'
  BY <1>0, <1>1 DEF TurnOK
<1>ShapeOK. ShapeOK'
  BY <1>1, <1>2, ShapeStays DEF LaneLeft
<1>OwnersOK. OwnersOK'
  <2>1. \A d \in Convs, p \in Places :
          Owned(p, d) /\ (p = Place(j) => d # job[j].conv) => Owned(p, d)'
    BY <1>0, <1>1, <1>3 DEF Owned, Active
  <2> QED
    BY <1>2, <2>1 DEF OwnersOK, LaneLeft
<1>HeadOK. HeadOK'
  BY <1>1, <1>2, <1>3 DEF HeadOK, TypedJob, LaneLeft
<1>BehindOK. BehindOK'
  <2>1. ASSUME NEW k \in Clients, req[k].pc \in Seated
        PROVE  LET c == req[k].conv
               IN  /\ lane'[c] # << >>
                   /\ \/ lane'[c][1] = Take(k)
                      \/ /\ Next2(lane'[c], Take(k))
                         /\ \E i \in Jobs : /\ lane'[c][1] = Place(i) /\ job'[i].conv = c
                                            /\ job'[i].st \in {"turn", "over"}
    <3>1. CASE req[k].conv = job[j].conv
      <4>1. CASE lane[req[k].conv][1] = Take(k)
        BY <1>2, <1>3, <2>1, <3>1, <4>1 DEF BehindOK, Waiting, Seated, LaneLeft
      <4>2. CASE lane[req[k].conv][1] # Take(k)
        <5>1. PICK i \in Jobs : /\ lane[req[k].conv][1] = Place(i) /\ job[i].conv = req[k].conv
                                /\ job[i].st \in {"turn", "over"}
          BY <2>1, <4>2 DEF BehindOK, Waiting, Seated
        <5>2. lane[req[k].conv] # << >> /\ Next2(lane[req[k].conv], Take(k))
          BY <2>1, <4>2 DEF BehindOK, Waiting, Seated
        <5>3. CASE i = j
          BY <1>2, <3>1, <5>1, <5>2, <5>3 DEF LaneLeft
        <5>4. CASE i # j
          BY <1>1, <1>2, <1>3, <3>1, <5>1, <5>2, <5>4 DEF LaneLeft
        <5> QED
          BY <5>3, <5>4
      <4> QED
        BY <4>1, <4>2
    <3>2. CASE req[k].conv # job[j].conv
      <4>1. lane'[req[k].conv] = lane[req[k].conv]
        BY <1>2, <2>1, <3>2 DEF LaneLeft, TypedReq, Seated
      <4> QED
        BY <1>1, <2>1, <3>2, <4>1 DEF BehindOK, Waiting, Seated
    <3> QED
      BY <3>1, <3>2
  <2> QED
    BY <1>0, <1>1, <2>1 DEF BehindOK, Waiting, Seated
<1>PlacedOK. PlacedOK'
  <2> SUFFICES ASSUME NEW k \in Clients, req[k].pc = "placed"
               PROVE  LET c == req[k].conv
                      IN  /\ ~review[c] /\ sess[c] /\ lane'[c] # << >>
                          /\ lane'[c][1] = Take(k) \/ (req[k].stops /\ Next2(lane'[c], Take(k)))
    BY <1>0 DEF PlacedOK
  <2>1. /\ ~review[req[k].conv] /\ sess[req[k].conv] /\ lane[req[k].conv] # << >>
        /\ \/ lane[req[k].conv][1] = Take(k)
           \/ req[k].stops /\ Next2(lane[req[k].conv], Take(k))
    BY DEF PlacedOK
  <2>2. CASE req[k].conv = job[j].conv
    BY <1>2, <1>3, <2>1, <2>2 DEF LaneLeft
  <2>3. CASE req[k].conv # job[j].conv
    BY <1>2, <2>1, <2>3 DEF LaneLeft, TypedReq
  <2> QED
    BY <2>2, <2>3
<1>LentOK. LentOK'
  <2>1. \A d \in Convs, k \in Clients : In(Take(k), lane[d]) => In(Take(k), lane'[d])
    BY <1>2, <1>3 DEF LaneLeft
  <2> QED
    BY <1>0, <2>1 DEF LentOK
<1> QED
  BY <1>PlacedOK, <1>LentOK,
     <1>same, <1>TypedLane, <1>TypedJob, <1>TurnOK, <1>ShapeOK, <1>OwnersOK, <1>HeadOK,
     <1>BehindOK

\* A call is cancelled.
LEMMA CancelKeeps ==
    ASSUME IInv, NEW j \in Jobs, Cancel(j)
    PROVE  IInv'
<1> USE DEF IInv, Typed
<1>0. UNCHANGED <<lane, busy, sess, review, kept, ask, term, ending, held, req, lock,
      live, stop>>
  BY DEF Cancel, convVars, termVars
<1>1. \A i \in Jobs : job'[i].st = job[i].st /\ job'[i].conv = job[i].conv
                           /\ job'[i].kind = job[i].kind /\ Place(i)' = Place(i)
  BY DEF Cancel, TypedJob, JobRecords, Place
<1>2. job' \in [Jobs -> JobRecords]
  BY DEF Cancel, TypedJob, JobRecords
<1>same. /\ TypedLane' /\ TypedStore' /\ TypedAsk' /\ TypedTerm' /\ TypedHeld' /\ TypedReq'
         /\ TypedFlags' /\ LockOK' /\ OwnOK' /\ DrivenOK' /\ ClosedOK' /\ OwningOK'
         /\ KeptOK' /\ TakenOK' /\ ShapeOK' /\ RoomOK' /\ AnswersOK' /\ PlacedOK' /\ LentOK'
  BY <1>0, UnchangedKeeps
<1>TypedJob. TypedJob'
  BY <1>1, <1>2 DEF TypedJob
<1>TurnOK. TurnOK'
  BY <1>0, <1>1 DEF TurnOK
<1>OwnersOK. OwnersOK'
  BY <1>0, <1>1 DEF OwnersOK, Owned, Active
<1>HeadOK. HeadOK'
  BY <1>0, <1>1 DEF HeadOK
<1>BehindOK. BehindOK'
  BY <1>0, <1>1 DEF BehindOK, Waiting, Seated
<1> QED
  BY <1>same, <1>TypedJob, <1>TurnOK, <1>OwnersOK, <1>HeadOK, <1>BehindOK

\* A turn outside the lane ends.
LEMMA OwnTurnEndsKeeps ==
    ASSUME IInv, NEW c \in Convs, OwnTurnEnds(c)
    PROVE  IInv'
<1> USE DEF IInv, Typed
<1>0. UNCHANGED <<lane, review, kept, job, ask, term, ending, held, req, lock, live,
      stop>>
  BY DEF OwnTurnEnds, convVars, termVars
<1>1. /\ busy[c] = "own" /\ busy' = [busy EXCEPT ![c] = "none"]
      /\ sess' = [sess EXCEPT ![c] = TRUE]
  BY DEF OwnTurnEnds
<1>2. /\ busy' \in [Convs -> {"none", "turn", "own", "taken"}] /\ sess' \in [Convs -> BOOLEAN]
      /\ busy'[c] = "none" /\ \A d \in Convs \ {c} : busy'[d] = busy[d] /\ sess'[d] = sess[d]
  BY <1>1 DEF TypedStore
<1>same. /\ TypedLane' /\ TypedJob' /\ TypedAsk' /\ TypedTerm' /\ TypedHeld' /\ TypedReq'
         /\ TypedFlags' /\ LockOK' /\ ClosedOK' /\ KeptOK' /\ ShapeOK' /\ OwnersOK'
         /\ HeadOK' /\ BehindOK' /\ RoomOK' /\ AnswersOK'
  BY <1>0, UnchangedKeeps
<1>TypedStore. TypedStore'
  BY <1>0, <1>1, <1>2
  DEF TypedStore
<1>TurnOK. TurnOK'
  BY <1>0, <1>1, <1>2 DEF TurnOK, TypedJob
<1>OwnOK. OwnOK'
  BY <1>0, <1>1, <1>2
  DEF OwnOK
<1>DrivenOK. DrivenOK'
  BY <1>0, <1>1, <1>2
  DEF DrivenOK
<1>OwningOK. OwningOK'
  BY <1>0, <1>1, <1>2 DEF OwningOK, TypedReq, Owning
<1>TakenOK. TakenOK'
  BY <1>0, <1>1, <1>2
  DEF TakenOK, Owning
<1>PlacedOK. PlacedOK'
  <2>1. sess'[c]
    BY <1>1 DEF TypedStore
  <2> QED
    BY <1>0, <1>2, <2>1 DEF PlacedOK, TypedReq
<1>LentOK. LentOK'
  BY <1>0, <1>2 DEF LentOK
<1> QED
  BY <1>PlacedOK, <1>LentOK,
     <1>same, <1>TypedStore, <1>TurnOK, <1>OwnOK, <1>DrivenOK, <1>OwningOK, <1>TakenOK

\* A reviewed job runs a turn outside the lane.
LEMMA ReviewTurnKeeps ==
    ASSUME IInv, NEW c \in Convs, ReviewTurn(c)
    PROVE  IInv'
<1> USE DEF IInv, Typed
<1>0. UNCHANGED <<lane, sess, review, kept, job, ask, term, ending, held, req, lock,
      live, stop>>
  BY DEF ReviewTurn, convVars, termVars
<1>1. /\ busy[c] = "none" /\ busy' = [busy EXCEPT ![c] = "own"] /\ review[c]
  BY DEF ReviewTurn
<1>2. /\ busy' \in [Convs -> {"none", "turn", "own", "taken"}]
      /\ busy'[c] = "own" /\ \A d \in Convs \ {c} : busy'[d] = busy[d]
  BY <1>1 DEF TypedStore
<1>same. /\ TypedLane' /\ TypedJob' /\ TypedAsk' /\ TypedTerm' /\ TypedHeld' /\ TypedReq'
         /\ TypedFlags' /\ LockOK' /\ ClosedOK' /\ KeptOK' /\ ShapeOK' /\ OwnersOK'
         /\ HeadOK' /\ BehindOK' /\ RoomOK' /\ AnswersOK' /\ PlacedOK'
  BY <1>0, UnchangedKeeps
<1>TypedStore. TypedStore'
  BY <1>0, <1>1, <1>2
  DEF TypedStore
<1>TurnOK. TurnOK'
  BY <1>0, <1>1, <1>2 DEF TurnOK, TypedJob
<1>OwnOK. OwnOK'
  BY <1>0, <1>1, <1>2
  DEF OwnOK
<1>DrivenOK. DrivenOK'
  BY <1>0, <1>1, <1>2
  DEF DrivenOK
<1>OwningOK. OwningOK'
  BY <1>0, <1>1, <1>2 DEF OwningOK, TypedReq, Owning
<1>TakenOK. TakenOK'
  BY <1>0, <1>1, <1>2
  DEF TakenOK, Owning
<1>LentOK. LentOK'
  BY <1>0, <1>2 DEF LentOK
<1> QED
  BY <1>LentOK, <1>same, <1>TypedStore, <1>TurnOK, <1>OwnOK, <1>DrivenOK, <1>OwningOK, <1>TakenOK

\* A reviewed job lets the conversation go.
LEMMA ReviewEndsKeeps ==
    ASSUME IInv, NEW c \in Convs, ReviewEnds(c)
    PROVE  IInv'
<1> USE DEF IInv, Typed
<1>0. UNCHANGED <<lane, busy, sess, kept, job, ask, term, ending, held, req, lock,
      live, stop>>
  BY DEF ReviewEnds, convVars, termVars
<1>1. /\ busy[c] # "own" /\ review' = [review EXCEPT ![c] = FALSE] /\ review \in [Convs -> BOOLEAN]
  BY DEF ReviewEnds, TypedStore
<1>2. /\ review' \in [Convs -> BOOLEAN]
      /\ \A d \in Convs \ {c} : review'[d] = review[d]
  BY <1>1
<1>same. /\ TypedLane' /\ TypedJob' /\ TypedAsk' /\ TypedTerm' /\ TypedHeld' /\ TypedReq'
         /\ TypedFlags' /\ LockOK' /\ TurnOK' /\ DrivenOK' /\ ClosedOK' /\ OwningOK'
         /\ KeptOK' /\ TakenOK' /\ ShapeOK' /\ OwnersOK' /\ HeadOK' /\ BehindOK'
         /\ RoomOK' /\ AnswersOK' /\ LentOK'
  BY <1>0, UnchangedKeeps
<1>TypedStore. TypedStore'
  BY <1>0, <1>1, <1>2
  DEF TypedStore
<1>OwnOK. OwnOK'
  BY <1>0, <1>1, <1>2
  DEF OwnOK
<1>PlacedOK. PlacedOK'
  BY <1>0, <1>2, <1>1 DEF PlacedOK, TypedReq
<1> QED
  BY <1>PlacedOK, <1>same, <1>TypedStore, <1>OwnOK
-----------------------------------------------------------------------------
(* Approvals.                                                              *)

\* A job asks for an approval.
LEMMA AskKeeps ==
    ASSUME IInv, NEW j \in Jobs, Ask(j)
    PROVE  IInv'
<1> USE DEF IInv, Typed
<1>0. UNCHANGED <<lane, busy, sess, review, kept, job, term, ending, held, req, lock,
      live, stop>>
  BY DEF Ask, convVars, termVars
<1>1. /\ ask' \in [Jobs -> AskRecords] /\ \A i \in Jobs \ {j} : ask'[i] = ask[i]
      /\ ask'[j].st = "open" /\ ask'[j].said = "none"
  <2> DEFINE new == [NoAsk EXCEPT !.st = "open", !.n = ask[j].n + 1]
  <2>1. ask[j].n \in Nat /\ ask[j].n + 1 \in Nat /\ ask \in [Jobs -> AskRecords]
    BY DEF TypedAsk, AskRecords
  <2>2. new \in AskRecords /\ new.st = "open" /\ new.said = "none"
    BY <2>1 DEF NoAsk, AskRecords, AskStates
  <2>3. ask' = [ask EXCEPT ![j] = new]
    BY DEF Ask
  <2> HIDE DEF new
  <2> QED
    BY <2>1, <2>2, <2>3
<1>same. /\ TypedLane' /\ TypedStore' /\ TypedJob' /\ TypedTerm' /\ TypedHeld' /\ TypedReq'
         /\ TypedFlags' /\ LockOK' /\ TurnOK' /\ OwnOK' /\ DrivenOK' /\ ClosedOK'
         /\ OwningOK' /\ KeptOK' /\ TakenOK' /\ ShapeOK' /\ OwnersOK' /\ HeadOK'
         /\ BehindOK' /\ RoomOK' /\ PlacedOK' /\ LentOK'
  BY <1>0, UnchangedKeeps
<1>TypedAsk. TypedAsk'
  BY <1>1 DEF TypedAsk
<1>AnswersOK. AnswersOK'
  BY <1>1 DEF AnswersOK
<1> QED
  BY <1>same, <1>TypedAsk, <1>AnswersOK

\* The owner's answer takes the request.
LEMMA ApproveKeeps ==
    ASSUME IInv, NEW j \in Jobs, Approve(j)
    PROVE  IInv'
<1> USE DEF IInv, Typed
<1>0. UNCHANGED <<lane, busy, sess, review, kept, job, term, ending, held, req, lock,
      live, stop>>
  BY DEF Approve, convVars, termVars
<1>1. /\ ask' \in [Jobs -> AskRecords] /\ \A i \in Jobs \ {j} : ask'[i] = ask[i]
      /\ ask[j].st = "open" /\ ask'[j].st = "taken" /\ ask'[j].said = ask[j].said
  BY DEF Approve, TypedAsk, AskRecords, AskStates
<1>same. /\ TypedLane' /\ TypedStore' /\ TypedJob' /\ TypedTerm' /\ TypedHeld' /\ TypedReq'
         /\ TypedFlags' /\ LockOK' /\ TurnOK' /\ OwnOK' /\ DrivenOK' /\ ClosedOK'
         /\ OwningOK' /\ KeptOK' /\ TakenOK' /\ ShapeOK' /\ OwnersOK' /\ HeadOK'
         /\ BehindOK' /\ RoomOK' /\ PlacedOK' /\ LentOK'
  BY <1>0, UnchangedKeeps
<1>TypedAsk. TypedAsk'
  BY <1>1 DEF TypedAsk
<1>AnswersOK. AnswersOK'
  BY <1>1 DEF AnswersOK
<1> QED
  BY <1>same, <1>TypedAsk, <1>AnswersOK

\* The answer is sent.
LEMMA AnswerKeeps ==
    ASSUME IInv, NEW j \in Jobs, NEW yes \in {"yes", "no"}, Answer(j, yes)
    PROVE  IInv'
<1> USE DEF IInv, Typed
<1>0. UNCHANGED <<lane, busy, sess, review, kept, job, term, ending, held, req, lock,
      live, stop>>
  BY DEF Answer, convVars, termVars
<1>a. ask \in [Jobs -> AskRecords] /\ [ask[j] EXCEPT !.st = "sent", !.said = yes] \in AskRecords
  BY DEF TypedAsk, AskRecords, AskStates
<1>b. ask' = [ask EXCEPT ![j] = [ask[j] EXCEPT !.st = "sent", !.said = yes]]
  BY DEF Answer
<1>c. [ask[j] EXCEPT !.st = "sent", !.said = yes].st = "sent"
  BY <1>a DEF AskRecords
<1>1. /\ ask' \in [Jobs -> AskRecords] /\ \A i \in Jobs \ {j} : ask'[i] = ask[i]
      /\ ask'[j].st = "sent"
  BY ONLY <1>a, <1>b, <1>c, j \in Jobs
<1>same. /\ TypedLane' /\ TypedStore' /\ TypedJob' /\ TypedTerm' /\ TypedHeld' /\ TypedReq'
         /\ TypedFlags' /\ LockOK' /\ TurnOK' /\ OwnOK' /\ DrivenOK' /\ ClosedOK'
         /\ OwningOK' /\ KeptOK' /\ TakenOK' /\ ShapeOK' /\ OwnersOK' /\ HeadOK'
         /\ BehindOK' /\ RoomOK' /\ PlacedOK' /\ LentOK'
  BY <1>0, UnchangedKeeps
<1>TypedAsk. TypedAsk'
  BY <1>1 DEF TypedAsk
<1>AnswersOK. AnswersOK'
  BY <1>1 DEF AnswersOK
<1> QED
  BY <1>same, <1>TypedAsk, <1>AnswersOK

\* The waiter is gone.
LEMMA AnswerRefusedKeeps ==
    ASSUME IInv, NEW j \in Jobs, AnswerRefused(j)
    PROVE  IInv'
<1> USE DEF IInv, Typed
<1>0. UNCHANGED <<lane, busy, sess, review, kept, job, term, ending, held, req, lock,
      live, stop>>
  BY DEF AnswerRefused, convVars, termVars
<1>1. /\ ask' \in [Jobs -> AskRecords] /\ \A i \in Jobs \ {j} : ask'[i] = ask[i]
      /\ ask[j].st = "closed" /\ ask'[j].st = "over" /\ ask'[j].said = ask[j].said
  BY DEF AnswerRefused, TypedAsk, AskRecords, AskStates
<1>same. /\ TypedLane' /\ TypedStore' /\ TypedJob' /\ TypedTerm' /\ TypedHeld' /\ TypedReq'
         /\ TypedFlags' /\ LockOK' /\ TurnOK' /\ OwnOK' /\ DrivenOK' /\ ClosedOK'
         /\ OwningOK' /\ KeptOK' /\ TakenOK' /\ ShapeOK' /\ OwnersOK' /\ HeadOK'
         /\ BehindOK' /\ RoomOK' /\ PlacedOK' /\ LentOK'
  BY <1>0, UnchangedKeeps
<1>TypedAsk. TypedAsk'
  BY <1>1 DEF TypedAsk
<1>AnswersOK. AnswersOK'
  BY <1>1 DEF AnswersOK
<1> QED
  BY <1>same, <1>TypedAsk, <1>AnswersOK

\* The waiter decides.
LEMMA DecideKeeps ==
    ASSUME IInv, NEW j \in Jobs, Decide(j)
    PROVE  IInv'
<1> USE DEF IInv, Typed
<1>0. UNCHANGED <<lane, busy, sess, review, kept, job, term, ending, held, req, lock,
      live, stop>>
  BY DEF Decide, convVars, termVars
<1>1. /\ ask' \in [Jobs -> AskRecords] /\ \A i \in Jobs \ {j} : ask'[i] = ask[i]
      /\ ask[j].st \in {"open", "taken", "sent"} /\ ask'[j].said = ask[j].said
      /\ ask'[j].st = IF ask[j].st = "taken" THEN "closed" ELSE "over"
      /\ ask[j].st = "sent" => ask'[j].got = ask[j].said
  <2>1. PICK got \in Decided(ask[j]) :
          ask' = [ask EXCEPT ![j].st = IF @ = "taken" THEN "closed" ELSE "over",
                             ![j].got = IF job[j].cancelled /\ ask[j].st # "sent"
                                        THEN "cancelled" ELSE got]
    BY DEF Decide
  <2>2. ask[j] \in AskRecords /\ ask \in [Jobs -> AskRecords] /\ ask[j].st \in {"open", "taken", "sent"}
    BY DEF Decide, TypedAsk
  <2>3. got \in {"none", "yes", "no"} /\ (ask[j].st = "sent" => got = ask[j].said)
    BY <2>1, <2>2 DEF Decided, AskRecords
  <2> QED
    BY <2>1, <2>2, <2>3 DEF AskRecords, AskStates
<1>same. /\ TypedLane' /\ TypedStore' /\ TypedJob' /\ TypedTerm' /\ TypedHeld' /\ TypedReq'
         /\ TypedFlags' /\ LockOK' /\ TurnOK' /\ OwnOK' /\ DrivenOK' /\ ClosedOK'
         /\ OwningOK' /\ KeptOK' /\ TakenOK' /\ ShapeOK' /\ OwnersOK' /\ HeadOK'
         /\ BehindOK' /\ RoomOK' /\ PlacedOK' /\ LentOK'
  BY <1>0, UnchangedKeeps
<1>TypedAsk. TypedAsk'
  BY <1>1 DEF TypedAsk
<1>AnswersOK. AnswersOK'
  BY <1>1 DEF AnswersOK
<1> QED
  BY <1>same, <1>TypedAsk, <1>AnswersOK

-----------------------------------------------------------------------------
(* Requests.                                                               *)

\* A request is over, or goes on.
ReqOff(k) ==
    /\ req' \in [Clients -> Requests] /\ req'[k].pc = "idle"
    /\ \A l \in Clients \ {k} : req'[l] = req[l]

ReqAt(k, pcs) ==
    /\ req' \in [Clients -> Requests] /\ req'[k].pc \in pcs /\ req'[k].conv = req[k].conv
    /\ \A l \in Clients \ {k} : req'[l] = req[l]

LEMMA Refused ==
    ASSUME TypedReq, NEW k \in Clients, req' = [req EXCEPT ![k] = NoReq]
    PROVE  ReqOff(k) /\ TypedReq'
<1>1. req' \in [Clients -> Requests]
  BY NonesTyped DEF TypedReq
<1>2. req'[k].pc = "idle" /\ \A l \in Clients \ {k} : req'[l] = req[l]
  BY DEF TypedReq, NoReq
<1> QED
  BY <1>1, <1>2 DEF ReqOff, TypedReq

\* Nobody else is past the lock.
LEMMA OthersOut ==
    ASSUME LockOK, NEW k \in Clients, req[k].pc \in Locked \/ ~lock
    PROVE  \A l \in Clients \ {k} : req[l].pc \notin Locked
BY DEF LockOK

\* So nobody is, when it is over.
LEMMA AllOut ==
    ASSUME LockOK, NEW k \in Clients, req[k].pc \in Locked \/ ~lock, ReqOff(k)
    PROVE  LockOK' /\ \A l \in Clients : req'[l].pc \notin Locked
<1>1. \A l \in Clients : req'[l].pc \notin Locked
  BY OthersOut DEF ReqOff, Locked, Waiting, Owning
<1> QED
  BY <1>1 DEF LockOK

LEMMA NothingHeld ==
    ASSUME \A l \in Clients : req'[l].pc \notin Locked
    PROVE  ClosedOK' /\ OwningOK' /\ KeptOK' /\ BehindOK' /\ PlacedOK'
BY DEF ClosedOK, OwningOK, KeptOK, BehindOK, PlacedOK, Seated, Locked, Waiting, Owning

\* A running terminal goes to another client.
LEMMA AttachesKeeps ==
    ASSUME TypedHeld, NEW k \in Clients, NEW c \in Convs, Attaches(k, c)
    PROVE  held' \in [Convs -> HeldRecords] /\ \A d \in Convs : Runs(d)' => Runs(d)
<1> DEFINE new == [held[c] EXCEPT !.lease = TRUE, !.by = k]
<1>1. held[c] \in HeldRecords /\ held \in [Convs -> HeldRecords]
  BY DEF TypedHeld
<1>2. new \in HeldRecords /\ new.on = held[c].on /\ new.finished = held[c].finished
  BY <1>1 DEF HeldRecords, SomeClient
<1>3. held' = [held EXCEPT ![c] = new]
  BY <1>1 DEF Attaches, HeldRecords
<1> HIDE DEF new
<1> QED
  BY <1>1, <1>2, <1>3 DEF Runs

\* A client attaches, or asks for the terminal.
LEMMA AttachKeeps ==
    ASSUME TakeoverAssumption, IInv, NEW k \in Clients, NEW c \in Convs,
           NEW interrupt \in BOOLEAN, Attach(k, c, interrupt)
    PROVE  IInv'
<1> USE DEF IInv, Typed
<1>0. UNCHANGED <<lane, busy, sess, review, kept, job, ask, term, ending, lock, live,
      stop>>
  BY DEF Attach, convVars, termVars
<1>1. /\ req[k].pc = "idle" /\ req' \in [Clients -> Requests]
      /\ \A l \in Clients \ {k} : req'[l] = req[l]
      /\ req'[k].pc \in {"idle", "wait"} /\ (req'[k].pc = "wait" => req'[k].conv = c)
  <2>1. req[k].pc = "idle" /\ req \in [Clients -> Requests]
    BY DEF Attach, TypedReq
  <2>2. CASE Runs(c)
    BY <2>1, <2>2 DEF Attach
  <2>3. CASE ~Runs(c)
    <3> DEFINE new == [NoReq EXCEPT !.pc = "wait", !.conv = c, !.interrupt = interrupt]
    <3>1. new \in Requests /\ new.pc = "wait" /\ new.conv = c
      BY NonesTyped DEF NoReq, Requests, Phases, SomeConv
    <3>2. req' = [req EXCEPT ![k] = new]
      BY <2>3 DEF Attach
    <3> HIDE DEF new
    <3> QED
      BY <2>1, <3>1, <3>2
  <2> QED
    BY <2>2, <2>3
<1>2. /\ held' \in [Convs -> HeldRecords]
      /\ \A d \in Convs : Runs(d)' => Runs(d)
  <2>1. CASE Runs(c)
    BY <2>1, AttachesKeeps DEF Attach
  <2>2. CASE ~Runs(c)
    BY <2>2, NonesTyped DEF Attach, Runs, TypedHeld, HeldRecords, NotHeld
  <2> QED
    BY <2>1, <2>2
<1>3. \A l \in Clients : req'[l].pc \in Locked => l # k /\ req'[l] = req[l]
  BY <1>1 DEF Locked, Waiting, Owning
<1>4. \A l \in Clients : req[l].pc \in Locked => l # k /\ req'[l] = req[l]
  BY <1>1 DEF Locked, Waiting, Owning
<1>same. /\ TypedLane' /\ TypedStore' /\ TypedJob' /\ TypedAsk' /\ TypedTerm' /\ TypedFlags'
         /\ TurnOK' /\ OwnOK' /\ DrivenOK' /\ ShapeOK' /\ HeadOK' /\ AnswersOK' /\ LentOK'
  BY <1>0, UnchangedKeeps
<1>TypedHeld. TypedHeld'
  BY <1>2 DEF TypedHeld
<1>TypedReq. TypedReq'
  BY <1>1 DEF TypedReq
<1>LockOK. LockOK'
  BY <1>0, <1>3 DEF LockOK
<1>ClosedOK. ClosedOK'
  BY <1>0, <1>3 DEF ClosedOK, Locked
<1>OwningOK. OwningOK'
  BY <1>0, <1>3 DEF OwningOK, Locked
<1>KeptOK. KeptOK'
  BY <1>0, <1>3 DEF KeptOK, Locked, Owning
<1>TakenOK. TakenOK'
  BY <1>0, <1>4 DEF TakenOK, Locked
<1>OwnersOK. OwnersOK'
  BY <1>0, <1>4 DEF OwnersOK, Owned, Active, Place, Locked
<1>BehindOK. BehindOK'
  <2>1. \A l \in Clients : req'[l].pc \in Seated => req'[l] = req[l]
    BY <1>3 DEF Seated, Waiting, Locked
  <2>2. \A i \in Jobs : Place(i)' = Place(i)
    BY <1>0 DEF Place
  <2> QED
    BY <1>0, <2>1, <2>2 DEF BehindOK
<1>RoomOK. RoomOK'
  <2>1. RunningTakeovers \in Nat /\ RunningTakeovers' \in Nat
        /\ RunningTakeovers' <= RunningTakeovers
    BY <1>2, FewerRun
  <2>2. MAX_TAKEOVERS \in Nat
    BY DEF TakeoverAssumption
  <2> QED
    BY <1>3, <2>1, <2>2 DEF RoomOK, Capped
<1>PlacedOK. PlacedOK'
  BY <1>0, <1>3 DEF PlacedOK, Locked, Waiting
<1> QED
  BY <1>PlacedOK, <1>same, <1>TypedHeld, <1>TypedReq, <1>LockOK, <1>ClosedOK, <1>OwningOK, <1>KeptOK,
     <1>TakenOK, <1>OwnersOK, <1>BehindOK, <1>RoomOK

\* A terminal runs already.
LEMMA ReserveRunningKeeps ==
    ASSUME TakeoverAssumption, IInv, NEW k \in Clients, Runs(req[k].conv), Reserve(k)
    PROVE  IInv'
<1> USE DEF IInv, Typed
<1>0. UNCHANGED <<lane, busy, sess, review, kept, job, ask, term, ending, live, stop>>
  BY DEF Reserve, convVars, termVars
<1>1. TypedReq' /\ ReqOff(k) /\ req[k].pc = "wait" /\ req[k].conv \in Convs /\ ~lock /\ lock' = FALSE
  BY Refused DEF Reserve, Refuse, TypedReq
<1>2. LockOK' /\ \A l \in Clients : req'[l].pc \notin Locked
  BY <1>1, AllOut
<1>3. held' \in [Convs -> HeldRecords] /\ \A d \in Convs : Runs(d)' => Runs(d)
  BY <1>1, AttachesKeeps DEF Reserve
<1>4. \A l \in Clients : req[l].pc \notin Locked
  BY <1>1, OthersOut DEF Locked, Waiting, Owning
<1>same. /\ TypedLane' /\ TypedStore' /\ TypedJob' /\ TypedAsk' /\ TypedTerm' /\ TurnOK'
         /\ OwnOK' /\ DrivenOK' /\ ShapeOK' /\ HeadOK' /\ AnswersOK' /\ LentOK'
  BY <1>0, UnchangedKeeps
<1>TypedHeld. TypedHeld'
  BY <1>3 DEF TypedHeld
<1>TypedReq. TypedReq'
  BY <1>1
<1>TypedFlags. TypedFlags'
  BY <1>0, <1>1 DEF TypedFlags
<1>LockOK. LockOK'
  BY <1>2
<1>ClosedOK. ClosedOK'
  BY <1>2, NothingHeld
<1>OwningOK. OwningOK'
  BY <1>2, NothingHeld
<1>KeptOK. KeptOK'
  BY <1>2, NothingHeld
<1>TakenOK. TakenOK'
  BY <1>0, <1>4 DEF TakenOK, Locked
<1>OwnersOK. OwnersOK'
  BY <1>0, <1>4 DEF OwnersOK, Owned, Active, Place, Locked
<1>BehindOK. BehindOK'
  BY <1>2, NothingHeld
<1>RoomOK. RoomOK'
  <2>1. RunningTakeovers \in Nat /\ RunningTakeovers' \in Nat
        /\ RunningTakeovers' <= RunningTakeovers
    BY <1>3, FewerRun
  <2>2. MAX_TAKEOVERS \in Nat
    BY DEF TakeoverAssumption
  <2> QED
    BY <1>0, <1>2, <2>1, <2>2 DEF RoomOK, Capped
<1>PlacedOK. PlacedOK'
  BY <1>2, NothingHeld
<1> QED
  BY <1>PlacedOK, <1>same, <1>TypedHeld, <1>TypedReq, <1>TypedFlags, <1>LockOK, <1>ClosedOK,
     <1>OwningOK, <1>KeptOK, <1>TakenOK, <1>OwnersOK, <1>BehindOK, <1>RoomOK

\* The conversation, or a terminal, is not to be had.
LEMMA ReserveRefusedKeeps ==
    ASSUME IInv, NEW k \in Clients, ~Runs(req[k].conv),
           ~(MayStart /\ IF req[k].interrupt THEN Placeable(req[k].conv)
                                            ELSE lane[req[k].conv] = << >>),
           Reserve(k)
    PROVE  IInv'
<1> USE DEF IInv, Typed
<1>0. UNCHANGED <<lane, busy, sess, review, kept, job, ask, term, ending, held, live,
      stop>>
  BY DEF Reserve, convVars, termVars
<1>1. TypedReq' /\ ReqOff(k) /\ req[k].pc = "wait" /\ req[k].conv \in Convs /\ ~lock /\ lock' = FALSE
  BY Refused DEF Reserve, Refuse, TypedReq
<1>2. LockOK' /\ \A l \in Clients : req'[l].pc \notin Locked
  BY <1>1, AllOut
<1>4. \A l \in Clients : req[l].pc \notin Locked
  BY <1>1, OthersOut DEF Locked, Waiting, Owning
<1>same. /\ TypedLane' /\ TypedStore' /\ TypedJob' /\ TypedAsk' /\ TypedTerm' /\ TypedHeld'
         /\ TurnOK' /\ OwnOK' /\ DrivenOK' /\ ShapeOK' /\ HeadOK' /\ AnswersOK' /\ LentOK'
  BY <1>0, UnchangedKeeps
<1>TypedReq. TypedReq'
  BY <1>1
<1>TypedFlags. TypedFlags'
  BY <1>0, <1>1 DEF TypedFlags
<1>LockOK. LockOK'
  BY <1>2
<1>ClosedOK. ClosedOK'
  BY <1>2, NothingHeld
<1>OwningOK. OwningOK'
  BY <1>2, NothingHeld
<1>KeptOK. KeptOK'
  BY <1>2, NothingHeld
<1>TakenOK. TakenOK'
  BY <1>0, <1>4 DEF TakenOK, Locked
<1>OwnersOK. OwnersOK'
  BY <1>0, <1>4 DEF OwnersOK, Owned, Active, Place, Locked
<1>BehindOK. BehindOK'
  BY <1>2, NothingHeld
<1>RoomOK. RoomOK'
  BY <1>0, <1>2 DEF RoomOK, Capped, RunningTakeovers
<1>PlacedOK. PlacedOK'
  BY <1>2, NothingHeld
<1> QED
  BY <1>PlacedOK, <1>same, <1>TypedReq, <1>TypedFlags, <1>LockOK, <1>ClosedOK, <1>OwningOK,
     <1>KeptOK, <1>TakenOK, <1>OwnersOK, <1>BehindOK, <1>RoomOK

\* A place is taken, behind the first call or in an empty lane.
LEMMA ReservePlacesKeeps ==
    ASSUME IInv, NEW k \in Clients, ~Runs(req[k].conv), MayStart,
           IF req[k].interrupt THEN Placeable(req[k].conv) ELSE lane[req[k].conv] = << >>,
           Reserve(k)
    PROVE  IInv'
<1> USE DEF IInv, Typed
<1>0. UNCHANGED <<busy, sess, review, kept, job, ask, term, ending, held, live, stop>>
  BY DEF Reserve, convVars, termVars
<1>1. /\ req[k].pc = "wait" /\ req[k].conv \in Convs /\ ~lock /\ lock' = TRUE
      /\ lane' = Reserved(req[k].conv, k)
      /\ req' = [req EXCEPT ![k].pc = IF req[k].interrupt THEN "placed" ELSE "reserved",
                   ![k].stops = Foremost(req[k].conv)[1] = "job",
                   ![k].job = IF Foremost(req[k].conv)[1] = "job" THEN Foremost(req[k].conv)[2] ELSE @]
      /\ req[k].interrupt \/ lane[req[k].conv] = << >>
  BY DEF Reserve, TypedReq
<1>2. /\ \A m, n \in Clients : Take(m) = Take(n) => m = n
      /\ \A i \in Jobs : Place(i) \in Places /\ ~IsTake(Place(i))
      /\ \A i, l \in Jobs : Place(i) = Place(l) => i = l
      /\ \A m \in Clients : Take(m) \in Places /\ IsTake(Take(m))
      /\ \A m \in Clients, i \in Jobs : Take(m) # Place(i)
      /\ \A p \in Places : ~IsTake(p) => p[1] \in {"job", "call"} /\ p[2] \in Jobs
  BY PlacesApart
<1>3. /\ lane[req[k].conv] \in Seq(Places) /\ lane \in [Convs -> Seq(Places)]
      /\ \A i \in 1..Len(lane[req[k].conv]) : ~IsTake(lane[req[k].conv][i])
      /\ lane[req[k].conv] # << >> =>
            /\ Foremost(req[k].conv) = lane[req[k].conv][1]
            /\ 1 \in 1..Len(lane[req[k].conv]) /\ lane[req[k].conv][1] \in Places
  BY <1>1 DEF Placeable, HasTakeover, TypedLane, Foremost
<1>4. Foremost(req[k].conv)[1] = "job" => Foremost(req[k].conv)[2] \in Jobs
  <2>1. CASE lane[req[k].conv] = << >>
    BY <2>1 DEF Foremost
  <2>2. CASE lane[req[k].conv] # << >>
    BY <1>2, <1>3, <2>2
  <2> QED
    BY <2>1, <2>2
<1>5. /\ ReqAt(k, {"placed", "reserved"})
      /\ req'[k].pc = "reserved" => lane[req[k].conv] = << >>
      /\ req'[k].stops = (Foremost(req[k].conv)[1] = "job")
  <2>1. req[k] \in Requests /\ req \in [Clients -> Requests]
    BY DEF TypedReq
  <2>2. req' \in [Clients -> Requests]
    BY <1>1, <1>4, <2>1 DEF Requests, Phases, Locked, Waiting, SomeJob
  <2> QED
    BY <1>1, <2>1, <2>2 DEF ReqAt, Requests
<1>6. /\ lane' \in [Convs -> Seq(Places)] /\ \A d \in Convs \ {req[k].conv} : lane'[d] = lane[d]
      /\ IsInjective(lane'[req[k].conv]) /\ OneTake(lane'[req[k].conv])
      /\ \A q : In(q, lane'[req[k].conv]) <=> In(q, lane[req[k].conv]) \/ q = Take(k)
      /\ lane'[req[k].conv] # << >> /\ (lane[req[k].conv] = << >> => lane'[req[k].conv][1] = Take(k))
      /\ lane[req[k].conv] # << >> => /\ lane'[req[k].conv][1] = lane[req[k].conv][1]
                                      /\ Next2(lane'[req[k].conv], Take(k))
  <2> DEFINE s == lane[req[k].conv]
             r == IF s = << >> THEN <<Take(k)>> ELSE <<Head(s), Take(k)>> \o Tail(s)
  <2>1. /\ s \in Seq(Places) /\ IsInjective(s) /\ \A i \in 1..Len(s) : ~IsTake(s[i])
        /\ Take(k) \in Places /\ IsTake(Take(k))
        /\ lane' = [lane EXCEPT ![req[k].conv] = r]
    BY <1>1, <1>2, <1>3 DEF ShapeOK, Reserved
  <2> HIDE DEF s
  <2>2. /\ r \in Seq(Places) /\ IsInjective(r) /\ OneTake(r)
        /\ \A q : In(q, r) <=> In(q, s) \/ q = Take(k)
        /\ r # << >> /\ (s = << >> => r[1] = Take(k))
        /\ s # << >> => r[1] = s[1] /\ Next2(r, Take(k))
    BY <2>1, ReservedKeeps
  <2> HIDE DEF r
  <2>3. lane' \in [Convs -> Seq(Places)] /\ lane'[req[k].conv] = r
        /\ \A d \in Convs \ {req[k].conv} : lane'[d] = lane[d]
    BY <1>1, <1>3, <2>1, <2>2
  <2> QED
    BY <2>2, <2>3 DEF s
<1>7. /\ \A l \in Clients : req[l].pc \notin Locked
      /\ \A l \in Clients \ {k} : req'[l].pc \notin Locked
      /\ req'[k].pc \in {"placed", "reserved"} /\ req'[k].conv = req[k].conv
  BY <1>1, <1>5, OthersOut DEF Locked, Waiting, Owning, ReqAt
<1>8. term[req[k].conv] = "none"
  <2>1. CASE req[k].interrupt
    BY <1>1, <2>1 DEF DrivenOK, Placeable, Others
  <2>2. CASE ~req[k].interrupt
    BY <1>1, <2>2 DEF DrivenOK, LentOK, In
  <2> QED
    BY <2>1, <2>2
<1>same. /\ TypedStore' /\ TypedJob' /\ TypedAsk' /\ TypedTerm' /\ TypedHeld' /\ TurnOK'
         /\ OwnOK' /\ DrivenOK' /\ AnswersOK'
  BY <1>0, UnchangedKeeps
<1>TypedLane. TypedLane'
  BY <1>6 DEF TypedLane
<1>TypedReq. TypedReq'
  BY <1>1, <1>5 DEF TypedReq, ReqAt
<1>TypedFlags. TypedFlags'
  BY <1>0, <1>1 DEF TypedFlags
<1>LockOK. LockOK'
  BY <1>1, <1>7 DEF LockOK
<1>ClosedOK. ClosedOK'
  BY <1>0, <1>7, <1>8 DEF ClosedOK, Locked
<1>OwningOK. OwningOK'
  BY <1>7 DEF OwningOK, Locked, Waiting, Owning
<1>KeptOK. KeptOK'
  BY <1>7 DEF KeptOK, Locked, Waiting, Owning
<1>TakenOK. TakenOK'
  BY <1>0, <1>7 DEF TakenOK, Locked
<1>ShapeOK. ShapeOK'
  BY <1>1, <1>6, ShapeStays
<1>OwnersOK. OwnersOK'
  BY <1>0, <1>2, <1>6, <1>7 DEF OwnersOK, Owned, Active, Place, Locked, Waiting
<1>HeadOK. HeadOK'
  BY <1>0, <1>6 DEF HeadOK, TypedJob, Place
<1>BehindOK. BehindOK'
  BY <1>5, <1>6, <1>7 DEF BehindOK, Seated, Locked, Waiting
<1>PlacedOK. PlacedOK'
  <2>1. ASSUME req'[k].pc = "placed"
        PROVE  /\ ~review[req[k].conv] /\ sess[req[k].conv]
               /\ \/ lane'[req[k].conv][1] = Take(k)
                  \/ req'[k].stops /\ Next2(lane'[req[k].conv], Take(k))
    <3>1. Placeable(req[k].conv)
      BY <1>1, <2>1 DEF TypedReq, Requests
    <3>2. lane[req[k].conv] # << >> => req'[k].stops
      BY <1>2, <1>3, <1>5, <3>1 DEF Placeable
    <3> QED
      BY <1>6, <3>1, <3>2 DEF Placeable, Others
  <2>2. \A l \in Clients : req'[l].pc = "placed" => l = k
    BY <1>7 DEF Locked, Waiting
  <2> QED
    BY <1>0, <1>6, <1>7, <2>1, <2>2 DEF PlacedOK
<1>RoomOK. RoomOK'
  BY <1>0, <1>7 DEF RoomOK, Capped, RunningTakeovers, MayStart
<1>LentOK. LentOK'
  <2>1. \A d \in Convs, q \in Places : In(q, lane[d]) => In(q, lane'[d])
    BY <1>6
  <2> QED
    BY <1>0, <1>2, <2>1 DEF LentOK
<1> QED
  BY <1>LentOK, <1>same, <1>TypedLane, <1>TypedReq, <1>TypedFlags, <1>LockOK, <1>ClosedOK,
     <1>OwningOK, <1>KeptOK, <1>TakenOK, <1>ShapeOK, <1>OwnersOK, <1>HeadOK,
     <1>BehindOK, <1>PlacedOK, <1>RoomOK

\* A request gives its place up, and the conversation, if it has it.
GiveUp(k) ==
    /\ req[k].pc \in Waiting \cup Owning
    /\ Refuse(k) /\ lane' = Left(req[k].conv, Take(k))
    /\ busy' = IF req[k].pc \in Owning THEN [busy EXCEPT ![req[k].conv] = "none"] ELSE busy
    /\ UNCHANGED <<sess, review, kept, job, ask, term, ending, held, live, stop>>

LEMMA GiveUpKeeps ==
    ASSUME IInv, NEW k \in Clients, GiveUp(k)
    PROVE  IInv'
<1> USE DEF IInv, Typed
<1>0. UNCHANGED <<sess, review, kept, job, ask, term, ending, held, live, stop>>
  BY DEF GiveUp, convVars, termVars
<1>1. /\ TypedReq' /\ ReqOff(k) /\ req[k].conv \in Convs /\ lock' = FALSE
      /\ req[k].pc \in Waiting \cup Owning /\ req[k].pc \in Locked
  BY Refused DEF GiveUp, Refuse, TypedReq, Locked, Waiting, Owning
<1>2. LockOK' /\ \A l \in Clients : req'[l].pc \notin Locked
  BY <1>1, AllOut
<1>3. /\ \A m, n \in Clients : Take(m) = Take(n) => m = n
      /\ \A i \in Jobs : Place(i) \in Places /\ ~IsTake(Place(i))
      /\ \A i, l \in Jobs : Place(i) = Place(l) => i = l
      /\ \A m \in Clients : Take(m) \in Places /\ IsTake(Take(m))
      /\ \A m \in Clients, i \in Jobs : Take(m) # Place(i)
  BY PlacesApart
<1>4. \A l \in Clients \ {k} : req[l].pc \notin Locked
  BY <1>1, OthersOut
<1>5. LaneLeft(req[k].conv, Take(k))
  BY <1>1, LeftLane DEF GiveUp
<1>6. /\ busy' \in [Convs -> {"none", "turn", "own", "taken"}]
      /\ \A d \in Convs \ {req[k].conv} : busy'[d] = busy[d]
      /\ req[k].pc \in Owning => busy[req[k].conv] = "taken" /\ busy'[req[k].conv] = "none"
      /\ req[k].pc \notin Owning => busy' = busy
      /\ term[req[k].conv] = "none"
  <2>1. CASE req[k].pc \in Owning
    BY <1>1, <2>1 DEF GiveUp, TypedStore, OwningOK, ClosedOK
  <2>2. CASE req[k].pc \notin Owning
    BY <1>1, <2>2 DEF GiveUp, TypedStore, ClosedOK
  <2> QED
    BY <2>1, <2>2
<1>same. TypedJob' /\ TypedAsk' /\ TypedTerm' /\ TypedHeld' /\ AnswersOK'
  BY <1>0, UnchangedKeeps
<1>TypedLane. TypedLane'
  BY <1>5 DEF LaneLeft, TypedLane
<1>TypedStore. TypedStore'
  BY <1>0, <1>6 DEF TypedStore
<1>TypedReq. TypedReq'
  BY <1>1
<1>TypedFlags. TypedFlags'
  BY <1>0, <1>1 DEF TypedFlags
<1>LockOK. LockOK'
  BY <1>2
<1>TurnOK. TurnOK'
  BY <1>0, <1>6 DEF TurnOK, TypedJob
<1>OwnOK. OwnOK'
  BY <1>0, <1>6 DEF OwnOK
<1>DrivenOK. DrivenOK'
  BY <1>0, <1>6 DEF DrivenOK
<1>ClosedOK. ClosedOK'
  BY <1>2, NothingHeld
<1>OwningOK. OwningOK'
  BY <1>2, NothingHeld
<1>KeptOK. KeptOK'
  BY <1>2, NothingHeld
<1>TakenOK. TakenOK'
  BY <1>0, <1>4, <1>6 DEF TakenOK, Locked
<1>ShapeOK. ShapeOK'
  BY <1>1, <1>5, ShapeStays DEF LaneLeft
<1>OwnersOK. OwnersOK'
  BY <1>0, <1>1, <1>3, <1>4, <1>5 DEF OwnersOK, Owned, Active, Place, Locked, LaneLeft
<1>HeadOK. HeadOK'
  <2>1. \A d \in Convs : lane[d] # << >> /\ lane[d][1] # Take(k) =>
          lane'[d] # << >> /\ lane'[d][1] = lane[d][1]
    BY <1>5 DEF LaneLeft
  <2> QED
    BY <1>0, <1>3, <2>1 DEF HeadOK, TypedJob, Place
<1>BehindOK. BehindOK'
  BY <1>2, NothingHeld
<1>RoomOK. RoomOK'
  BY <1>0, <1>2 DEF RoomOK, Capped, RunningTakeovers
<1>PlacedOK. PlacedOK'
  BY <1>2, NothingHeld
<1>LentOK. LentOK'
  <2>1. busy'[req[k].conv] # "taken"
    BY <1>1, <1>4, <1>6 DEF TakenOK, Locked
  <2>2. \A d \in Convs \ {req[k].conv} : lane'[d] = lane[d]
    BY <1>5 DEF LaneLeft
  <2> QED
    BY <1>6, <2>1, <2>2 DEF LentOK
<1> QED
  BY <1>PlacedOK, <1>LentOK,
     <1>same, <1>TypedLane, <1>TypedStore, <1>TypedReq, <1>TypedFlags, <1>LockOK,
     <1>TurnOK, <1>OwnOK, <1>DrivenOK, <1>ClosedOK, <1>OwningOK, <1>KeptOK, <1>TakenOK,
     <1>ShapeOK, <1>OwnersOK, <1>HeadOK, <1>BehindOK, <1>RoomOK

\* The turn to stop runs, or none does.
LEMMA SeatedKeeps ==
    ASSUME IInv, NEW k \in Clients, req[k].stops = (busy[req[k].conv] # "none"), Seat(k)
    PROVE  IInv'
<1> USE DEF IInv, Typed
<1>0. UNCHANGED <<lane, busy, sess, review, kept, job, ask, term, ending, held, lock,
      live, stop>>
  BY DEF Seat, convVars, termVars
<1>1. /\ req[k].pc = "placed" /\ req[k].conv \in Convs
      /\ ReqAt(k, {"reserved"})
  <2>1. /\ req[k].pc = "placed" /\ req[k].conv \in Convs /\ req \in [Clients -> Requests]
        /\ req' = [req EXCEPT ![k].pc = "reserved"]
    BY DEF Seat, TypedReq
  <2> QED
    BY <2>1 DEF Requests, Phases, Locked, Waiting, ReqAt
<1>2. \A l \in Clients \ {k} : req[l].pc \notin Locked /\ req'[l].pc \notin Locked
  BY <1>1, OthersOut DEF Locked, Waiting, Owning, ReqAt
<1>3. /\ ~review[req[k].conv] /\ sess[req[k].conv] /\ lane[req[k].conv] # << >>
      /\ \/ lane[req[k].conv][1] = Take(k)
         \/ req[k].stops /\ Next2(lane[req[k].conv], Take(k))
  BY <1>1 DEF PlacedOK
<1>4. busy[req[k].conv] \in {"none", "turn"}
  <2>1. term[req[k].conv] = "none"
    BY <1>1 DEF ClosedOK, Waiting
  <2>2. busy[req[k].conv] # "taken"
    BY <1>1, <1>2, <2>1 DEF TakenOK, Owning, Locked
  <2> QED
    BY <1>1, <1>3, <2>2 DEF OwnOK, TypedStore
<1>same. /\ TypedLane' /\ TypedStore' /\ TypedJob' /\ TypedAsk' /\ TypedTerm' /\ TypedHeld'
         /\ TypedFlags' /\ TurnOK' /\ OwnOK' /\ DrivenOK' /\ ShapeOK' /\ HeadOK'
         /\ AnswersOK' /\ LentOK'
  BY <1>0, UnchangedKeeps
<1>TypedReq. TypedReq'
  BY <1>1 DEF TypedReq, ReqAt
<1>LockOK. LockOK'
  BY <1>0, <1>1, <1>2 DEF LockOK, Locked, Waiting, Owning, ReqAt
<1>ClosedOK. ClosedOK'
  BY <1>0, <1>1, <1>2 DEF ClosedOK, Locked, Waiting, Owning, ReqAt
<1>OwningOK. OwningOK'
  BY <1>0, <1>1, <1>2 DEF OwningOK, Locked, Waiting, Owning, ReqAt
<1>KeptOK. KeptOK'
  BY <1>0, <1>1, <1>2 DEF KeptOK, Locked, Owning, ReqAt
<1>TakenOK. TakenOK'
  BY <1>0, <1>1, <1>2 DEF TakenOK, Locked, Waiting, Owning, ReqAt
<1>OwnersOK. OwnersOK'
  BY <1>0, <1>1, <1>2 DEF OwnersOK, Owned, Active, Place, Locked, Waiting, Owning, ReqAt
<1>BehindOK. BehindOK'
  <2>1. busy[req[k].conv] = "turn" =>
          \E j \in Jobs : /\ lane[req[k].conv][1] = Place(j) /\ job[j].conv = req[k].conv
                         /\ job[j].st = "turn"
    BY <1>1 DEF TurnOK, HeadOK
  <2>2. \/ lane[req[k].conv][1] = Take(k)
        \/ /\ Next2(lane[req[k].conv], Take(k))
           /\ \E j \in Jobs : /\ lane[req[k].conv][1] = Place(j)
                             /\ job[j].conv = req[k].conv /\ job[j].st \in {"turn", "over"}
    BY <1>3, <1>4, <2>1
  <2>3. \A l \in Clients : req'[l].pc \in Seated => l = k
    BY <1>2 DEF Seated, Locked, Waiting
  <2>4. \A i \in Jobs : Place(i)' = Place(i)
    BY <1>0 DEF Place
  <2> QED
    BY <1>0, <1>1, <1>3, <2>2, <2>3, <2>4 DEF BehindOK, ReqAt
<1>PlacedOK. PlacedOK'
  BY <1>1, <1>2 DEF PlacedOK, Locked, Waiting, ReqAt
<1>RoomOK. RoomOK'
  BY <1>0, <1>1, <1>2 DEF RoomOK, Capped, RunningTakeovers, Locked, Waiting, Owning, ReqAt
<1> QED
  BY <1>same, <1>TypedReq, <1>LockOK, <1>ClosedOK, <1>OwningOK, <1>KeptOK, <1>TakenOK,
     <1>OwnersOK, <1>BehindOK, <1>PlacedOK, <1>RoomOK

\* The reservation stands.
LEMMA ConfirmStaysKeeps ==
    ASSUME IInv, NEW k \in Clients, req'[k].pc # "idle", Confirm(k)
    PROVE  IInv'
<1> USE DEF IInv, Typed
<1>0. UNCHANGED <<lane, busy, sess, review, kept, job, ask, term, ending, held, lock,
      live, stop>>
  BY DEF Confirm, Refuse, TypedReq, NoReq, convVars, termVars
<1>1. /\ req[k].pc = "reserved" /\ req[k].conv \in Convs
      /\ ReqAt(k, {"confirmed"})
  <2>1. /\ req[k].pc = "reserved" /\ req[k].conv \in Convs /\ req \in [Clients -> Requests]
        /\ req' = [req EXCEPT ![k].pc = "confirmed"]
    BY DEF Confirm, Refuse, TypedReq, NoReq
  <2> QED
    BY <2>1 DEF Requests, Phases, Locked, Waiting, ReqAt
<1>2. \A l \in Clients \ {k} : req[l].pc \notin Locked /\ req'[l].pc \notin Locked
  BY <1>1, OthersOut DEF Locked, Waiting, Owning, ReqAt
<1>same. /\ TypedLane' /\ TypedStore' /\ TypedJob' /\ TypedAsk' /\ TypedTerm' /\ TypedHeld'
         /\ TypedFlags' /\ TurnOK' /\ OwnOK' /\ DrivenOK' /\ ShapeOK' /\ HeadOK'
         /\ AnswersOK' /\ LentOK'
  BY <1>0, UnchangedKeeps
<1>TypedReq. TypedReq'
  BY <1>1 DEF TypedReq, ReqAt
<1>LockOK. LockOK'
  BY <1>0, <1>1, <1>2 DEF LockOK, Locked, Waiting, Owning, ReqAt
<1>ClosedOK. ClosedOK'
  BY <1>0, <1>1, <1>2 DEF ClosedOK, Locked, Waiting, Owning, ReqAt
<1>OwningOK. OwningOK'
  BY <1>0, <1>1, <1>2 DEF OwningOK, Locked, Waiting, Owning, ReqAt
<1>KeptOK. KeptOK'
  BY <1>0, <1>1, <1>2 DEF KeptOK, Locked, Owning, ReqAt
<1>TakenOK. TakenOK'
  BY <1>0, <1>1, <1>2 DEF TakenOK, Locked, Waiting, Owning, ReqAt
<1>OwnersOK. OwnersOK'
  BY <1>0, <1>1, <1>2 DEF OwnersOK, Owned, Active, Place, Locked, Waiting, Owning, ReqAt
<1>BehindOK. BehindOK'
  <2>1. \A l \in Clients : req'[l].pc \in Seated =>
          req[l].pc \in Seated /\ req'[l].conv = req[l].conv
    BY <1>1, <1>2 DEF Locked, Waiting, Seated, ReqAt
  <2>2. \A i \in Jobs : Place(i)' = Place(i)
    BY <1>0 DEF Place
  <2> QED
    BY <1>0, <2>1, <2>2 DEF BehindOK, Waiting, Seated
<1>RoomOK. RoomOK'
  BY <1>0, <1>1, <1>2 DEF RoomOK, Capped, RunningTakeovers, Locked, Waiting, Owning, ReqAt
<1>PlacedOK. PlacedOK'
  BY <1>1, <1>2 DEF PlacedOK, Locked, Waiting, ReqAt
<1> QED
  BY <1>PlacedOK, <1>same, <1>TypedReq, <1>LockOK, <1>ClosedOK, <1>OwningOK, <1>KeptOK, <1>TakenOK,
     <1>OwnersOK, <1>BehindOK, <1>RoomOK

\* The job is cancelled.
LEMMA StopJobKeeps ==
    ASSUME IInv, NEW k \in Clients, StopJob(k)
    PROVE  IInv'
<1> USE DEF IInv, Typed
<1>0. UNCHANGED <<lane, busy, sess, review, kept, ask, term, ending, held, lock, live,
      stop>>
  BY DEF StopJob, convVars, termVars
<1>1. /\ req[k].pc = "confirmed" /\ req[k].conv \in Convs
      /\ ReqAt(k, {"first"})
  BY DEF StopJob, TypedReq, Requests, Phases, Locked, Waiting, ReqAt
<1>2. \A l \in Clients \ {k} : req[l].pc \notin Locked /\ req'[l].pc \notin Locked
  BY <1>1, OthersOut DEF Locked, Waiting, Owning, ReqAt
<1>3. \A i \in Jobs : job'[i].st = job[i].st /\ job'[i].conv = job[i].conv
                           /\ job'[i].kind = job[i].kind /\ Place(i)' = Place(i)
  <2>1. req[k].job \in Jobs \/ req[k].job \notin Jobs
    OBVIOUS
  <2> QED
    BY <2>1 DEF StopJob, TypedJob, JobRecords, Place
<1>4. job' \in [Jobs -> JobRecords]
  BY DEF StopJob, TypedJob, JobRecords
<1>same. /\ TypedLane' /\ TypedStore' /\ TypedAsk' /\ TypedTerm' /\ TypedHeld' /\ TypedFlags'
         /\ OwnOK' /\ DrivenOK' /\ ShapeOK' /\ AnswersOK' /\ LentOK'
  BY <1>0, UnchangedKeeps
<1>TypedJob. TypedJob'
  BY <1>3, <1>4 DEF TypedJob
<1>TypedReq. TypedReq'
  BY <1>1 DEF TypedReq, ReqAt
<1>LockOK. LockOK'
  BY <1>0, <1>1, <1>2 DEF LockOK, Locked, Waiting, Owning, ReqAt
<1>TurnOK. TurnOK'
  BY <1>0, <1>3 DEF TurnOK
<1>ClosedOK. ClosedOK'
  BY <1>0, <1>1, <1>2 DEF ClosedOK, Locked, Waiting, Owning, ReqAt
<1>OwningOK. OwningOK'
  BY <1>0, <1>1, <1>2 DEF OwningOK, Locked, Waiting, Owning, ReqAt
<1>KeptOK. KeptOK'
  BY <1>0, <1>1, <1>2 DEF KeptOK, Locked, Owning, ReqAt
<1>TakenOK. TakenOK'
  BY <1>0, <1>1, <1>2 DEF TakenOK, Locked, Waiting, Owning, ReqAt
<1>OwnersOK. OwnersOK'
  BY <1>0, <1>1, <1>2, <1>3 DEF OwnersOK, Owned, Active, Locked, Waiting, Owning, ReqAt
<1>HeadOK. HeadOK'
  BY <1>0, <1>3 DEF HeadOK
<1>BehindOK. BehindOK'
  BY <1>0, <1>1, <1>2, <1>3 DEF BehindOK, Seated, Locked, Waiting, ReqAt
<1>RoomOK. RoomOK'
  BY <1>0, <1>1, <1>2 DEF RoomOK, Capped, RunningTakeovers, Locked, Waiting, Owning, ReqAt
<1>PlacedOK. PlacedOK'
  BY <1>1, <1>2 DEF PlacedOK, Locked, Waiting, ReqAt
<1> QED
  BY <1>PlacedOK, <1>same, <1>TypedJob, <1>TypedReq, <1>LockOK, <1>TurnOK, <1>ClosedOK, <1>OwningOK,
     <1>KeptOK, <1>TakenOK, <1>OwnersOK, <1>HeadOK, <1>BehindOK, <1>RoomOK

\* The conversation is taken.
LEMMA TakeOverOpensKeeps ==
    ASSUME IInv, NEW k \in Clients, ~Obstacles(req[k].conv), TakeOver(k)
    PROVE  IInv'
<1> USE DEF IInv, Typed
<1>0. UNCHANGED <<lane, sess, review, kept, job, ask, term, ending, held, lock, live,
      stop>>
  BY DEF TakeOver, convVars, termVars
<1>1. /\ req[k].pc \in {"reserved", "first"} /\ req[k].conv \in Convs
      /\ ReqAt(k, {"open"})
  BY DEF TakeOver, TypedReq, Requests, Phases, Locked, Owning, ReqAt
<1>2. \A l \in Clients \ {k} : req[l].pc \notin Locked /\ req'[l].pc \notin Locked
  BY <1>1, OthersOut DEF Locked, Waiting, Owning, ReqAt
<1>3. /\ busy[req[k].conv] = "none" /\ busy'[req[k].conv] = "taken"
      /\ busy' \in [Convs -> {"none", "turn", "own", "taken"}]
      /\ \A d \in Convs \ {req[k].conv} : busy'[d] = busy[d]
  BY <1>1 DEF TakeOver, TypedStore, Obstacles
<1>4. ~review[req[k].conv] /\ sess[req[k].conv]
  BY DEF Obstacles, Others
<1>same. /\ TypedLane' /\ TypedJob' /\ TypedAsk' /\ TypedTerm' /\ TypedHeld' /\ TypedFlags'
         /\ ShapeOK' /\ HeadOK' /\ AnswersOK'
  BY <1>0, UnchangedKeeps
<1>TypedStore. TypedStore'
  BY <1>0, <1>3 DEF TypedStore
<1>TypedReq. TypedReq'
  BY <1>1 DEF TypedReq, ReqAt
<1>LockOK. LockOK'
  BY <1>0, <1>1, <1>2 DEF LockOK, Locked, Waiting, Owning, ReqAt
<1>TurnOK. TurnOK'
  BY <1>0, <1>3 DEF TurnOK, TypedJob
<1>OwnOK. OwnOK'
  BY <1>0, <1>3 DEF OwnOK
<1>DrivenOK. DrivenOK'
  BY <1>0, <1>3 DEF DrivenOK
<1>ClosedOK. ClosedOK'
  BY <1>0, <1>1, <1>2 DEF ClosedOK, Locked, Waiting, Owning, ReqAt
<1>OwningOK. OwningOK'
  BY <1>0, <1>1, <1>2, <1>3 DEF OwningOK, Locked, Waiting, Owning, ReqAt
<1>KeptOK. KeptOK'
  BY <1>0, <1>1, <1>2 DEF KeptOK, Locked, Owning, ReqAt
<1>TakenOK. TakenOK'
  BY <1>0, <1>1, <1>2, <1>3 DEF TakenOK, Locked, Waiting, Owning, ReqAt
<1>OwnersOK. OwnersOK'
  BY <1>0, <1>1, <1>2 DEF OwnersOK, Owned, Active, Place, Locked, Waiting, Owning, ReqAt
<1>BehindOK. BehindOK'
  BY <1>0, <1>1, <1>2 DEF BehindOK, Seated, Place, Locked, Waiting, ReqAt
<1>RoomOK. RoomOK'
  BY <1>0, <1>1, <1>2 DEF RoomOK, Capped, RunningTakeovers, Locked, Waiting, Owning, ReqAt
<1>PlacedOK. PlacedOK'
  BY <1>1, <1>2 DEF PlacedOK, Locked, Waiting, ReqAt
<1>LentOK. LentOK'
  <2>1. In(Take(k), lane[req[k].conv])
    <3>1. /\ lane[req[k].conv] # << >> /\ lane[req[k].conv] \in Seq(Places)
          /\ lane[req[k].conv][1] = Take(k) \/ Next2(lane[req[k].conv], Take(k))
      BY <1>1 DEF BehindOK, Seated, TypedLane
    <3> QED
      BY <3>1 DEF In, Next2
  <2> QED
    BY <1>0, <1>3, <2>1 DEF LentOK
<1> QED
  BY <1>PlacedOK, <1>LentOK,
     <1>same, <1>TypedStore, <1>TypedReq, <1>LockOK, <1>TurnOK, <1>OwnOK, <1>DrivenOK,
     <1>ClosedOK, <1>OwningOK, <1>KeptOK, <1>TakenOK, <1>OwnersOK, <1>BehindOK,
     <1>RoomOK

\* What is kept beside the terminal is stopped.
LEMMA StopKeptKeeps ==
    ASSUME IInv, NEW k \in Clients, StopKept(k)
    PROVE  IInv'
<1> USE DEF IInv, Typed
<1>0. UNCHANGED <<lane, busy, sess, review, job, ask, term, ending, held, lock, live,
      stop>>
  BY DEF StopKept, convVars, termVars
<1>1. /\ req[k].pc = "open" /\ req[k].conv \in Convs
      /\ ReqAt(k, {"start"})
  BY DEF StopKept, TypedReq, Requests, Phases, Locked, Owning, ReqAt
<1>2. \A l \in Clients \ {k} : req[l].pc \notin Locked /\ req'[l].pc \notin Locked
  BY <1>1, OthersOut DEF Locked, Waiting, Owning, ReqAt
<1>3. /\ kept' \in [Convs -> BOOLEAN] /\ ~kept'[req[k].conv]
      /\ \A d \in Convs \ {req[k].conv} : kept'[d] = kept[d]
  BY <1>1 DEF StopKept, TypedStore
<1>4. term[req[k].conv] = "none"
  BY <1>1 DEF ClosedOK, Waiting, Owning
<1>same. /\ TypedLane' /\ TypedJob' /\ TypedAsk' /\ TypedTerm' /\ TypedHeld' /\ TypedFlags'
         /\ TurnOK' /\ OwnOK' /\ ShapeOK' /\ HeadOK' /\ AnswersOK' /\ LentOK'
  BY <1>0, UnchangedKeeps
<1>TypedStore. TypedStore'
  BY <1>0, <1>3 DEF TypedStore
<1>TypedReq. TypedReq'
  BY <1>1 DEF TypedReq, ReqAt
<1>LockOK. LockOK'
  BY <1>0, <1>1, <1>2 DEF LockOK, Locked, Waiting, Owning, ReqAt
<1>DrivenOK. DrivenOK'
  BY <1>0, <1>3, <1>4 DEF DrivenOK
<1>ClosedOK. ClosedOK'
  BY <1>0, <1>1, <1>2 DEF ClosedOK, Locked, Waiting, Owning, ReqAt
<1>OwningOK. OwningOK'
  BY <1>0, <1>1, <1>2 DEF OwningOK, Locked, Waiting, Owning, ReqAt
<1>KeptOK. KeptOK'
  BY <1>0, <1>1, <1>2, <1>3 DEF KeptOK, Locked, Owning, ReqAt
<1>TakenOK. TakenOK'
  BY <1>0, <1>1, <1>2 DEF TakenOK, Locked, Waiting, Owning, ReqAt
<1>OwnersOK. OwnersOK'
  BY <1>0, <1>1, <1>2 DEF OwnersOK, Owned, Active, Place, Locked, Waiting, Owning, ReqAt
<1>BehindOK. BehindOK'
  BY <1>0, <1>1, <1>2 DEF BehindOK, Seated, Place, Locked, Waiting, ReqAt
<1>RoomOK. RoomOK'
  BY <1>0, <1>1, <1>2 DEF RoomOK, Capped, RunningTakeovers, Locked, Waiting, Owning, ReqAt
<1>PlacedOK. PlacedOK'
  BY <1>1, <1>2 DEF PlacedOK, Locked, Waiting, ReqAt
<1> QED
  BY <1>PlacedOK, <1>same, <1>TypedStore, <1>TypedReq, <1>LockOK, <1>DrivenOK, <1>ClosedOK,
     <1>OwningOK, <1>KeptOK, <1>TakenOK, <1>OwnersOK, <1>BehindOK, <1>RoomOK

\* The terminal starts.
LEMMA StartedKeeps ==
    ASSUME IInv, NEW k \in Clients, StartTerminal(k, TRUE)
    PROVE  IInv'
<1> USE DEF IInv, Typed
<1>0. UNCHANGED <<lane, busy, sess, review, kept, job, ask, held, lock, live, stop>>
  BY DEF StartTerminal, convVars, termVars
<1>1. /\ req[k].pc = "start" /\ req[k].conv \in Convs
      /\ ReqAt(k, {"started"})
  BY DEF StartTerminal, TypedReq, Requests, Phases, Locked, ReqAt
<1>2. \A l \in Clients \ {k} : req[l].pc \notin Locked /\ req'[l].pc \notin Locked
  BY <1>1, OthersOut DEF Locked, Waiting, Owning, ReqAt
<1>3. /\ term' \in [Convs -> {"none", "running", "exited"}] /\ term'[req[k].conv] = "running"
      /\ \A d \in Convs \ {req[k].conv} : term'[d] = term[d]
  BY <1>1 DEF StartTerminal, TypedTerm
<1>4. busy[req[k].conv] = "taken" /\ ~kept[req[k].conv]
  BY <1>1 DEF OwningOK, KeptOK, Owning
<1>same. /\ TypedLane' /\ TypedStore' /\ TypedJob' /\ TypedAsk' /\ TypedHeld' /\ TypedFlags'
         /\ TurnOK' /\ OwnOK' /\ ShapeOK' /\ HeadOK' /\ AnswersOK' /\ LentOK'
  BY <1>0, UnchangedKeeps
<1>TypedTerm. TypedTerm'
  BY <1>3 DEF TypedTerm
<1>TypedReq. TypedReq'
  BY <1>1 DEF TypedReq, ReqAt
<1>LockOK. LockOK'
  BY <1>0, <1>1, <1>2 DEF LockOK, Locked, Waiting, Owning, ReqAt
<1>DrivenOK. DrivenOK'
  BY <1>0, <1>3, <1>4 DEF DrivenOK
<1>ClosedOK. ClosedOK'
  BY <1>1, <1>2 DEF ClosedOK, Locked, Waiting, Owning, ReqAt
<1>OwningOK. OwningOK'
  BY <1>0, <1>1, <1>2 DEF OwningOK, Locked, Waiting, Owning, ReqAt
<1>KeptOK. KeptOK'
  BY <1>0, <1>1, <1>2 DEF KeptOK, Locked, Owning, ReqAt
<1>TakenOK. TakenOK'
  BY <1>0, <1>1, <1>2, <1>3 DEF TakenOK, Locked, Waiting, Owning, ReqAt
<1>OwnersOK. OwnersOK'
  BY <1>0, <1>1, <1>2, <1>3 DEF OwnersOK, Owned, Active, Place, Locked, Waiting, Owning, ReqAt
<1>BehindOK. BehindOK'
  BY <1>0, <1>1, <1>2 DEF BehindOK, Seated, Place, Locked, Waiting, ReqAt
<1>RoomOK. RoomOK'
  BY <1>0, <1>1, <1>2 DEF RoomOK, Capped, RunningTakeovers, Locked, Waiting, Owning, ReqAt
<1>PlacedOK. PlacedOK'
  BY <1>1, <1>2 DEF PlacedOK, Locked, Waiting, ReqAt
<1> QED
  BY <1>PlacedOK, <1>same, <1>TypedTerm, <1>TypedReq, <1>LockOK, <1>DrivenOK, <1>ClosedOK,
     <1>OwningOK, <1>KeptOK, <1>TakenOK, <1>OwnersOK, <1>BehindOK, <1>RoomOK

\* The terminal is kept, or asked to end.
LEMMA KeepKeeps ==
    ASSUME TakeoverAssumption, IInv, NEW k \in Clients, Keep(k)
    PROVE  IInv'
<1> USE DEF IInv, Typed
<1>0. UNCHANGED <<lane, busy, sess, review, kept, job, ask, term, live, stop>>
  BY DEF Keep, convVars, termVars
<1>1. /\ TypedReq' /\ ReqOff(k) /\ req[k].conv \in Convs /\ lock' = FALSE
      /\ req[k].pc = "started" /\ req[k].pc \in Locked
  BY Refused DEF Keep, Refuse, TypedReq, Locked
<1>2. LockOK' /\ \A l \in Clients : req'[l].pc \notin Locked
  BY <1>1, AllOut
<1>3. \A l \in Clients : req[l].pc \notin Waiting \cup Owning
  BY <1>1, OthersOut DEF Locked, Waiting, Owning
<1>4. held' \in [Convs -> HeldRecords] /\ \A d \in Convs \ {req[k].conv} : held'[d] = held[d]
  <2>1. CASE stop = "closing"
    BY <2>1 DEF Keep, TypedHeld
  <2>2. CASE stop # "closing"
    <3> DEFINE new == [NotHeld EXCEPT !.on = TRUE, !.lease = TRUE, !.by = k,
                                      !.finished = term[req[k].conv] = "none"]
    <3>1. new \in HeldRecords
      <4>1. (term[req[k].conv] = "none") \in BOOLEAN
        OBVIOUS
      <4> QED
        BY <4>1, NonesTyped DEF NotHeld, HeldRecords, SomeClient
    <3>2. held' = [held EXCEPT ![req[k].conv] = new]
      BY <2>2 DEF Keep
    <3> HIDE DEF new
    <3> QED
      BY <1>1, <3>1, <3>2 DEF TypedHeld
  <2> QED
    BY <2>1, <2>2
<1>same. /\ TypedLane' /\ TypedStore' /\ TypedJob' /\ TypedAsk' /\ TypedTerm' /\ TurnOK'
         /\ OwnOK' /\ DrivenOK' /\ ShapeOK' /\ HeadOK' /\ AnswersOK' /\ LentOK'
  BY <1>0, UnchangedKeeps
<1>TypedHeld. TypedHeld'
  BY <1>4 DEF TypedHeld
<1>TypedReq. TypedReq'
  BY <1>1
<1>TypedFlags. TypedFlags'
  BY <1>0, <1>1 DEF TypedFlags
<1>LockOK. LockOK'
  BY <1>2
<1>ClosedOK. ClosedOK'
  BY <1>2, NothingHeld
<1>OwningOK. OwningOK'
  BY <1>2, NothingHeld
<1>KeptOK. KeptOK'
  BY <1>2, NothingHeld
<1>TakenOK. TakenOK'
  BY <1>0, <1>3 DEF TakenOK
<1>OwnersOK. OwnersOK'
  BY <1>0, <1>3 DEF OwnersOK, Owned, Active, Place
<1>BehindOK. BehindOK'
  BY <1>2, NothingHeld
<1>RoomOK. RoomOK'
  <2>1. \A d \in Convs \ {req[k].conv} : Runs(d)' => Runs(d)
    BY <1>4 DEF Runs
  <2>2. RunningTakeovers \in Nat /\ RunningTakeovers' \in Nat
        /\ RunningTakeovers' <= RunningTakeovers + 1
    BY <1>1, <2>1, OneMoreRuns
  <2>3. RunningTakeovers < MAX_TAKEOVERS /\ MAX_TAKEOVERS \in Nat
    BY <1>1 DEF RoomOK, TakeoverAssumption
  <2> QED
    BY <1>2, <2>2, <2>3 DEF RoomOK, Capped
<1>PlacedOK. PlacedOK'
  BY <1>2, NothingHeld
<1> QED
  BY <1>PlacedOK, <1>same, <1>TypedHeld, <1>TypedReq, <1>TypedFlags, <1>LockOK, <1>ClosedOK,
     <1>OwningOK, <1>KeptOK, <1>TakenOK, <1>OwnersOK, <1>BehindOK, <1>RoomOK

\* A lane has no place that is nobody's.
LEMMA NoneLeft ==
    ASSUME TypedLane, ShapeOK, NEW c \in Convs
    PROVE  Left(c, <<"none", 0>>) = lane
<1>1. lane[c] \in Seq(Places) /\ IsInjective(lane[c]) /\ lane \in [Convs -> Seq(Places)]
  BY DEF TypedLane, ShapeOK
<1>2. <<"none", 0>> \notin Places
  BY DEF Places
<1>3. \A i \in DOMAIN lane[c] : lane[c][i] \in Places
  BY <1>1
<1>4. ~In(<<"none", 0>>, lane[c])
  BY <1>2, <1>3 DEF In
<1>5. RemoveFirst(lane[c], <<"none", 0>>) = lane[c]
  BY <1>1, <1>4, RemoveFirstIs
<1> QED
  BY <1>1, <1>5 DEF Left

\* A request that holds nothing is dropped.
LEMMA DropWaitingKeeps ==
    ASSUME IInv, NEW k \in Clients, req[k].pc = "wait", DropRequest(k)
    PROVE  IInv'
<1> USE DEF IInv, Typed
<1>0. UNCHANGED <<lane, busy, sess, review, kept, job, ask, term, ending, held, lock,
      live, stop>>
  BY NoneLeft DEF DropRequest, TypedReq, convVars, termVars
<1>1. TypedReq' /\ ReqOff(k) /\ req[k].conv \in Convs
  BY Refused DEF DropRequest, TypedReq
<1>2. \A l \in Clients : req'[l].pc \in Locked => l # k /\ req'[l] = req[l]
  BY <1>1 DEF ReqOff, Locked, Waiting, Owning
<1>3. \A l \in Clients : req[l].pc \in Locked => l # k /\ req'[l] = req[l]
  BY <1>1 DEF ReqOff, Locked, Waiting, Owning
<1>same. /\ TypedLane' /\ TypedStore' /\ TypedJob' /\ TypedAsk' /\ TypedTerm' /\ TypedHeld'
         /\ TypedFlags' /\ TurnOK' /\ OwnOK' /\ DrivenOK' /\ ShapeOK' /\ HeadOK'
         /\ AnswersOK' /\ LentOK'
  BY <1>0, UnchangedKeeps
<1>TypedReq. TypedReq'
  BY <1>1
<1>LockOK. LockOK'
  BY <1>0, <1>2 DEF LockOK
<1>ClosedOK. ClosedOK'
  BY <1>0, <1>2 DEF ClosedOK, Locked
<1>OwningOK. OwningOK'
  BY <1>0, <1>2 DEF OwningOK, Locked
<1>KeptOK. KeptOK'
  BY <1>0, <1>2 DEF KeptOK, Locked, Owning
<1>TakenOK. TakenOK'
  BY <1>0, <1>3 DEF TakenOK, Locked
<1>OwnersOK. OwnersOK'
  BY <1>0, <1>3 DEF OwnersOK, Owned, Active, Place, Locked
<1>BehindOK. BehindOK'
  <2>1. \A l \in Clients : req'[l].pc \in Seated => req'[l] = req[l]
    BY <1>2 DEF Seated, Waiting, Locked
  <2>2. \A i \in Jobs : Place(i)' = Place(i)
    BY <1>0 DEF Place
  <2> QED
    BY <1>0, <2>1, <2>2 DEF BehindOK
<1>RoomOK. RoomOK'
  BY <1>0, <1>2 DEF RoomOK, Capped, RunningTakeovers
<1>PlacedOK. PlacedOK'
  BY <1>0, <1>2 DEF PlacedOK, Locked, Waiting
<1> QED
  BY <1>PlacedOK, <1>same, <1>TypedReq, <1>LockOK, <1>ClosedOK, <1>OwningOK, <1>KeptOK, <1>TakenOK,
     <1>OwnersOK, <1>BehindOK, <1>RoomOK

\* A request, whatever comes of it.
LEMMA ReserveKeeps ==
    ASSUME TakeoverAssumption, IInv, NEW k \in Clients, Reserve(k)
    PROVE  IInv'
BY ReserveRunningKeeps, ReserveRefusedKeeps, ReservePlacesKeeps

LEMMA SeatKeeps ==
    ASSUME IInv, NEW k \in Clients, Seat(k)
    PROVE  IInv'
<1>1. CASE req[k].stops = (busy[req[k].conv] # "none")
  BY <1>1, SeatedKeeps
<1>2. CASE req[k].stops # (busy[req[k].conv] # "none")
  <2>1. GiveUp(k)
    BY <1>2 DEF Seat, GiveUp, Waiting, Owning, termVars
  <2> QED
    BY <2>1, GiveUpKeeps
<1> QED
  BY <1>1, <1>2

LEMMA ConfirmKeeps ==
    ASSUME IInv, NEW k \in Clients, Confirm(k)
    PROVE  IInv'
<1>1. CASE req'[k].pc # "idle"
  BY <1>1, ConfirmStaysKeeps
<1>2. CASE req'[k].pc = "idle"
  <2>1. req[k].pc = "reserved" /\ req \in [Clients -> Requests]
    BY DEF Confirm, IInv, Typed, TypedReq
  <2>2. Refuse(k) /\ lane' = Left(req[k].conv, Take(k))
    <3>1. CASE req' = [req EXCEPT ![k].pc = "confirmed"]
      <4>1. req'[k].pc # "idle"
        BY <2>1, <3>1
      <4> QED
        BY <1>2, <4>1
    <3> QED
      BY <3>1 DEF Confirm
  <2>3. GiveUp(k)
    BY <2>1, <2>2 DEF Confirm, GiveUp, Waiting, Owning, termVars
  <2> QED
    BY <2>3, GiveUpKeeps
<1> QED
  BY <1>1, <1>2

LEMMA TakeOverKeeps ==
    ASSUME IInv, NEW k \in Clients, TakeOver(k)
    PROVE  IInv'
<1>1. CASE Obstacles(req[k].conv)
  <2>1. GiveUp(k)
    BY <1>1 DEF TakeOver, GiveUp, Waiting, Owning, termVars
  <2> QED
    BY <2>1, GiveUpKeeps
<1>2. CASE ~Obstacles(req[k].conv)
  BY <1>2, TakeOverOpensKeeps
<1> QED
  BY <1>1, <1>2

LEMMA WaitedTooLongKeeps ==
    ASSUME IInv, NEW k \in Clients, WaitedTooLong(k)
    PROVE  IInv'
<1>1. GiveUp(k)
  BY DEF WaitedTooLong, GiveUp, Waiting, Owning, termVars
<1> QED
  BY <1>1, GiveUpKeeps

LEMMA StartTerminalKeeps ==
    ASSUME IInv, NEW k \in Clients, NEW ok \in BOOLEAN, StartTerminal(k, ok)
    PROVE  IInv'
<1>1. CASE ok
  BY <1>1, StartedKeeps
<1>2. CASE ~ok
  <2>1. GiveUp(k)
    BY <1>2 DEF StartTerminal, GiveUp, Waiting, Owning
  <2> QED
    BY <2>1, GiveUpKeeps
<1> QED
  BY <1>1, <1>2

LEMMA DropRequestKeeps ==
    ASSUME IInv, NEW k \in Clients, DropRequest(k)
    PROVE  IInv'
<1>1. CASE req[k].pc = "wait"
  BY <1>1, DropWaitingKeeps
<1>2. CASE req[k].pc # "wait"
  <2>1. GiveUp(k)
    BY <1>2 DEF DropRequest, GiveUp, Refuse, Waiting, Owning, termVars
  <2> QED
    BY <2>1, GiveUpKeeps
<1> QED
  BY <1>1, <1>2

-----------------------------------------------------------------------------
(* Terminals.                                                              *)

\* The terminal's process exits.
LEMMA ExitKeeps ==
    ASSUME IInv, NEW c \in Convs, Exit(c)
    PROVE  IInv'
<1> USE DEF IInv, Typed
<1>0. UNCHANGED <<lane, busy, sess, review, kept, job, ask, ending, held, req, lock,
      live, stop>>
  BY DEF Exit, convVars, termVars
<1>1. /\ term[c] = "running" /\ term'[c] = "exited" /\ \A d \in Convs \ {c} : term'[d] = term[d]
      /\ term' \in [Convs -> {"none", "running", "exited"}]
  BY DEF Exit, TypedTerm
<1>2. \A d \in Convs : term[d] = "none" <=> term'[d] = "none"
  BY <1>1
<1>same. /\ TypedLane' /\ TypedStore' /\ TypedJob' /\ TypedAsk' /\ TypedHeld' /\ TypedReq'
         /\ TypedFlags' /\ LockOK' /\ TurnOK' /\ OwnOK' /\ OwningOK' /\ KeptOK'
         /\ ShapeOK' /\ HeadOK' /\ BehindOK' /\ RoomOK' /\ AnswersOK' /\ PlacedOK' /\ LentOK'
  BY <1>0, UnchangedKeeps
<1>TypedTerm. TypedTerm'
  BY <1>1 DEF TypedTerm
<1>DrivenOK. DrivenOK'
  BY <1>0, <1>2 DEF DrivenOK
<1>ClosedOK. ClosedOK'
  BY <1>0, <1>2 DEF ClosedOK, TypedReq, Waiting, Owning
<1>TakenOK. TakenOK'
  BY <1>0, <1>2 DEF TakenOK
<1>OwnersOK. OwnersOK'
  BY <1>0, <1>2 DEF OwnersOK, Owned, Active, Place
<1> QED
  BY <1>same, <1>TypedTerm, <1>DrivenOK, <1>ClosedOK, <1>TakenOK, <1>OwnersOK

\* The process is reaped, and the conversation let go.
LEMMA ReapKeeps ==
    ASSUME TakeoverAssumption, IInv, NEW c \in Convs, Reap(c)
    PROVE  IInv'
<1> USE DEF IInv, Typed
<1>0. UNCHANGED <<sess, review, kept, job, ask, ending, req, lock, live, stop>>
  BY DEF Reap, convVars, termVars
<1>1. /\ term[c] = "exited" /\ term'[c] = "none" /\ \A d \in Convs \ {c} : term'[d] = term[d]
      /\ term' \in [Convs -> {"none", "running", "exited"}]
  BY DEF Reap, TypedTerm
<1>2. \A d \in Convs : Runs(d)' => Runs(d)
  BY DEF Reap, TypedHeld, Runs
<1>3. /\ busy[c] = "taken" /\ busy'[c] = "none" /\ \A d \in Convs \ {c} : busy'[d] = busy[d]
      /\ busy' \in [Convs -> {"none", "turn", "own", "taken"}]
  BY <1>1 DEF Reap, TypedStore, DrivenOK
<1>4. LaneReaped(c)
  BY ReapedLane DEF Reap
<1>5. held' \in [Convs -> HeldRecords]
  BY DEF Reap, TypedHeld, HeldRecords
<1>6. /\ \A m, n \in Clients : Take(m) = Take(n) => m = n
      /\ \A i \in Jobs : Place(i) \in Places /\ ~IsTake(Place(i))
      /\ \A i, l \in Jobs : Place(i) = Place(l) => i = l
      /\ \A m \in Clients : Take(m) \in Places /\ IsTake(Take(m))
      /\ \A m \in Clients, i \in Jobs : Take(m) # Place(i)
  BY PlacesApart
<1>7. \A k \in Clients : req[k].pc \in Waiting \cup Owning => req[k].conv # c
  BY <1>1 DEF ClosedOK
<1>same. /\ TypedJob' /\ TypedAsk' /\ TypedReq' /\ TypedFlags' /\ LockOK' /\ KeptOK'
         /\ AnswersOK'
  BY <1>0, UnchangedKeeps
<1>TypedLane. TypedLane'
  BY <1>4 DEF LaneReaped, TypedLane
<1>TypedStore. TypedStore'
  BY <1>0, <1>3 DEF TypedStore
<1>TypedTerm. TypedTerm'
  BY <1>1 DEF TypedTerm
<1>TypedHeld. TypedHeld'
  BY <1>5 DEF TypedHeld
<1>TurnOK. TurnOK'
  BY <1>0, <1>3 DEF TurnOK, TypedJob
<1>OwnOK. OwnOK'
  BY <1>0, <1>3 DEF OwnOK
<1>DrivenOK. DrivenOK'
  BY <1>0, <1>1, <1>3 DEF DrivenOK
<1>ClosedOK. ClosedOK'
  BY <1>0, <1>1, <1>7 DEF ClosedOK, TypedReq, Waiting, Owning
<1>OwningOK. OwningOK'
  BY <1>0, <1>3, <1>7 DEF OwningOK, TypedReq, Owning
<1>TakenOK. TakenOK'
  BY <1>0, <1>1, <1>3 DEF TakenOK
<1>ShapeOK. ShapeOK'
  BY <1>4, ShapeStays DEF LaneReaped
<1>OwnersOK. OwnersOK'
  <2>1. ASSUME NEW d \in Convs, NEW q \in Places, In(q, lane'[d]) PROVE Owned(q, d)'
    <3>1. In(q, lane[d]) /\ (d = c => ~IsTake(q))
      BY <1>4, <2>1 DEF LaneReaped
    <3>2. Owned(q, d)
      BY <3>1 DEF OwnersOK
    <3>3. CASE IsTake(q)
      BY <1>0, <1>1, <3>1, <3>2, <3>3 DEF Owned
    <3>4. CASE ~IsTake(q)
      BY <1>0, <3>2, <3>4 DEF Owned, Active, Place
    <3> QED
      BY <3>3, <3>4
  <2> QED
    BY <2>1 DEF OwnersOK
<1>HeadOK. HeadOK'
  <2>1. \A d \in Convs : lane[d] # << >> /\ ~IsTake(lane[d][1]) =>
          lane'[d] # << >> /\ lane'[d][1] = lane[d][1]
    BY <1>4 DEF LaneReaped
  <2> QED
    BY <1>0, <1>6, <2>1 DEF HeadOK, TypedJob, Place
<1>BehindOK. BehindOK'
  <2>1. \A k \in Clients : req[k].pc \in Waiting => lane'[req[k].conv] = lane[req[k].conv]
    BY <1>4, <1>7 DEF TypedReq, Waiting, LaneReaped
  <2>2. \A i \in Jobs : Place(i)' = Place(i)
    BY <1>0 DEF Place
  <2> QED
    BY <1>0, <2>1, <2>2 DEF BehindOK, Waiting, Seated
<1>RoomOK. RoomOK'
  <2>1. RunningTakeovers \in Nat /\ RunningTakeovers' \in Nat
        /\ RunningTakeovers' <= RunningTakeovers
    BY <1>2, FewerRun
  <2>2. MAX_TAKEOVERS \in Nat
    BY DEF TakeoverAssumption
  <2> QED
    BY <1>0, <2>1, <2>2 DEF RoomOK, Capped
<1>PlacedOK. PlacedOK'
  <2>1. \A k \in Clients : req[k].pc = "placed" => lane'[req[k].conv] = lane[req[k].conv]
    BY <1>4, <1>7 DEF TypedReq, Waiting, LaneReaped
  <2> QED
    BY <1>0, <2>1 DEF PlacedOK
<1>LentOK. LentOK'
  <2>1. \A d \in Convs \ {c} : lane'[d] = lane[d]
    BY <1>4 DEF LaneReaped
  <2> QED
    BY <1>3, <2>1 DEF LentOK
<1> QED
  BY <1>PlacedOK, <1>LentOK,
     <1>same, <1>TypedLane, <1>TypedStore, <1>TypedTerm, <1>TypedHeld, <1>TurnOK,
     <1>OwnOK, <1>DrivenOK, <1>ClosedOK, <1>OwningOK, <1>TakenOK, <1>ShapeOK,
     <1>OwnersOK, <1>HeadOK, <1>BehindOK, <1>RoomOK

\* The terminal is ended.
LEMMA EndTakeoverKeeps ==
    ASSUME TakeoverAssumption, IInv, NEW c \in Convs, EndTakeover(c)
    PROVE  IInv'
<1> USE DEF IInv, Typed
<1>0. UNCHANGED <<lane, busy, sess, review, kept, job, ask, term, req, lock, live, stop>>
  BY DEF EndTakeover, convVars, termVars
<1>1. /\ held' \in [Convs -> HeldRecords] /\ \A d \in Convs : Runs(d)' => Runs(d)
  BY NonesTyped DEF EndTakeover, TypedHeld, Runs, NotHeld
<1>same. /\ TypedLane' /\ TypedStore' /\ TypedJob' /\ TypedAsk' /\ TypedTerm' /\ TypedReq'
         /\ TypedFlags' /\ LockOK' /\ TurnOK' /\ OwnOK' /\ DrivenOK' /\ ClosedOK'
         /\ OwningOK' /\ KeptOK' /\ TakenOK' /\ ShapeOK' /\ OwnersOK' /\ HeadOK'
         /\ BehindOK' /\ AnswersOK' /\ PlacedOK' /\ LentOK'
  BY <1>0, UnchangedKeeps
<1>TypedHeld. TypedHeld'
  BY <1>1 DEF TypedHeld
<1>RoomOK. RoomOK'
  <2>1. RunningTakeovers \in Nat /\ RunningTakeovers' \in Nat
        /\ RunningTakeovers' <= RunningTakeovers
    BY <1>1, FewerRun
  <2>2. MAX_TAKEOVERS \in Nat
    BY DEF TakeoverAssumption
  <2> QED
    BY <1>0, <2>1, <2>2 DEF RoomOK, Capped
<1> QED
  BY <1>same, <1>TypedHeld, <1>RoomOK

\* The client goes.
LEMMA DetachKeeps ==
    ASSUME TakeoverAssumption, IInv, NEW c \in Convs, Detach(c)
    PROVE  IInv'
<1> USE DEF IInv, Typed
<1>0. UNCHANGED <<lane, busy, sess, review, kept, job, ask, term, ending, req, lock,
      live, stop>>
  BY DEF Detach, convVars, termVars
<1>1. /\ held' \in [Convs -> HeldRecords] /\ \A d \in Convs : Runs(d)' => Runs(d)
  BY DEF Detach, TypedHeld, HeldRecords, Runs
<1>same. /\ TypedLane' /\ TypedStore' /\ TypedJob' /\ TypedAsk' /\ TypedTerm' /\ TypedReq'
         /\ TypedFlags' /\ LockOK' /\ TurnOK' /\ OwnOK' /\ DrivenOK' /\ ClosedOK'
         /\ OwningOK' /\ KeptOK' /\ TakenOK' /\ ShapeOK' /\ OwnersOK' /\ HeadOK'
         /\ BehindOK' /\ AnswersOK' /\ PlacedOK' /\ LentOK'
  BY <1>0, UnchangedKeeps
<1>TypedHeld. TypedHeld'
  BY <1>1 DEF TypedHeld
<1>RoomOK. RoomOK'
  <2>1. RunningTakeovers \in Nat /\ RunningTakeovers' \in Nat
        /\ RunningTakeovers' <= RunningTakeovers
    BY <1>1, FewerRun
  <2>2. MAX_TAKEOVERS \in Nat
    BY DEF TakeoverAssumption
  <2> QED
    BY <1>0, <2>1, <2>2 DEF RoomOK, Capped
<1> QED
  BY <1>same, <1>TypedHeld, <1>RoomOK

\* A terminal that closed is forgotten.
LEMMA ExpireKeeps ==
    ASSUME TakeoverAssumption, IInv, NEW c \in Convs, Expire(c)
    PROVE  IInv'
<1> USE DEF IInv, Typed
<1>0. UNCHANGED <<lane, busy, sess, review, kept, job, ask, term, ending, req, lock,
      live, stop>>
  BY DEF Expire, convVars, termVars
<1>1. /\ held' \in [Convs -> HeldRecords] /\ \A d \in Convs : Runs(d)' => Runs(d)
  BY NonesTyped DEF Expire, TypedHeld, Runs, NotHeld
<1>same. /\ TypedLane' /\ TypedStore' /\ TypedJob' /\ TypedAsk' /\ TypedTerm' /\ TypedReq'
         /\ TypedFlags' /\ LockOK' /\ TurnOK' /\ OwnOK' /\ DrivenOK' /\ ClosedOK'
         /\ OwningOK' /\ KeptOK' /\ TakenOK' /\ ShapeOK' /\ OwnersOK' /\ HeadOK'
         /\ BehindOK' /\ AnswersOK' /\ PlacedOK' /\ LentOK'
  BY <1>0, UnchangedKeeps
<1>TypedHeld. TypedHeld'
  BY <1>1 DEF TypedHeld
<1>RoomOK. RoomOK'
  <2>1. RunningTakeovers \in Nat /\ RunningTakeovers' \in Nat
        /\ RunningTakeovers' <= RunningTakeovers
    BY <1>1, FewerRun
  <2>2. MAX_TAKEOVERS \in Nat
    BY DEF TakeoverAssumption
  <2> QED
    BY <1>0, <2>1, <2>2 DEF RoomOK, Capped
<1> QED
  BY <1>same, <1>TypedHeld, <1>RoomOK

\* The session ends.
LEMMA EndSessionKeeps ==
    ASSUME TakeoverAssumption, IInv, EndSession
    PROVE  IInv'
<1> USE DEF IInv, Typed
<1>0. UNCHANGED <<lane, busy, sess, review, kept, ask, term, req, lock, stop>>
  BY DEF EndSession, convVars, termVars
<1>1. /\ held' \in [Convs -> HeldRecords] /\ \A d \in Convs : Runs(d)' => Runs(d)
  BY NonesTyped DEF EndSession, EndAll, TypedHeld, Runs, NotHeld
<1>2. \A i \in Jobs : job'[i].st = job[i].st /\ job'[i].conv = job[i].conv
                           /\ job'[i].kind = job[i].kind /\ Place(i)' = Place(i)
  BY DEF EndSession, TypedJob, JobRecords, Place
<1>3. job' \in [Jobs -> JobRecords] /\ live' = FALSE
  <2>1. \A i \in Jobs : (job[i].cancelled \/ Active(i)) \in BOOLEAN
    BY DEF TypedJob, JobRecords
  <2> QED
    BY <2>1 DEF EndSession, TypedJob, JobRecords
<1>same. /\ TypedLane' /\ TypedStore' /\ TypedAsk' /\ TypedTerm' /\ TypedReq' /\ LockOK'
         /\ OwnOK' /\ DrivenOK' /\ ClosedOK' /\ OwningOK' /\ KeptOK' /\ TakenOK'
         /\ ShapeOK' /\ AnswersOK' /\ PlacedOK' /\ LentOK'
  BY <1>0, UnchangedKeeps
<1>TypedJob. TypedJob'
  BY <1>2, <1>3 DEF TypedJob
<1>TypedHeld. TypedHeld'
  BY <1>1 DEF TypedHeld
<1>TypedFlags. TypedFlags'
  BY <1>0, <1>3 DEF TypedFlags
<1>TurnOK. TurnOK'
  BY <1>0, <1>2 DEF TurnOK
<1>OwnersOK. OwnersOK'
  BY <1>0, <1>2 DEF OwnersOK, Owned, Active
<1>HeadOK. HeadOK'
  BY <1>0, <1>2 DEF HeadOK
<1>BehindOK. BehindOK'
  BY <1>0, <1>2 DEF BehindOK, Waiting, Seated
<1>RoomOK. RoomOK'
  <2>1. RunningTakeovers \in Nat /\ RunningTakeovers' \in Nat
        /\ RunningTakeovers' <= RunningTakeovers
    BY <1>1, FewerRun
  <2>2. MAX_TAKEOVERS \in Nat
    BY DEF TakeoverAssumption
  <2> QED
    BY <1>0, <2>1, <2>2 DEF RoomOK, Capped
<1> QED
  BY <1>same, <1>TypedJob, <1>TypedHeld, <1>TypedFlags, <1>TurnOK, <1>OwnersOK,
     <1>HeadOK, <1>BehindOK, <1>RoomOK

\* The daemon is to stop.
LEMMA StopKeeps ==
    ASSUME IInv, Stop
    PROVE  IInv'
<1> USE DEF IInv, Typed
<1>0. UNCHANGED <<lane, busy, sess, review, kept, job, ask, term, ending, held, req,
      lock, live>>
  BY DEF Stop, convVars, termVars
<1>1. stop' = "cancelled"
  BY DEF Stop
<1>same. /\ TypedLane' /\ TypedStore' /\ TypedJob' /\ TypedAsk' /\ TypedTerm' /\ TypedHeld'
         /\ TypedReq' /\ LockOK' /\ TurnOK' /\ OwnOK' /\ DrivenOK' /\ ClosedOK'
         /\ OwningOK' /\ KeptOK' /\ TakenOK' /\ ShapeOK' /\ OwnersOK' /\ HeadOK'
         /\ BehindOK' /\ RoomOK' /\ AnswersOK' /\ PlacedOK' /\ LentOK'
  BY <1>0, UnchangedKeeps
<1>TypedFlags. TypedFlags'
  BY <1>0, <1>1 DEF TypedFlags
<1> QED
  BY <1>same, <1>TypedFlags

\* The daemon closes.
LEMMA CloseKeeps ==
    ASSUME TakeoverAssumption, IInv, Close
    PROVE  IInv'
<1> USE DEF IInv, Typed
<1>0. UNCHANGED <<lane, busy, sess, review, kept, job, ask, term, req, lock, live>>
  BY DEF Close, convVars, termVars
<1>1. /\ held' \in [Convs -> HeldRecords] /\ \A d \in Convs : Runs(d)' => Runs(d)
  BY NonesTyped DEF Close, EndAll, TypedHeld, Runs, NotHeld
<1>2. stop' = "closing"
  BY DEF Close
<1>same. /\ TypedLane' /\ TypedStore' /\ TypedJob' /\ TypedAsk' /\ TypedTerm' /\ TypedReq'
         /\ LockOK' /\ TurnOK' /\ OwnOK' /\ DrivenOK' /\ ClosedOK' /\ OwningOK'
         /\ KeptOK' /\ TakenOK' /\ ShapeOK' /\ OwnersOK' /\ HeadOK' /\ BehindOK'
         /\ AnswersOK' /\ PlacedOK' /\ LentOK'
  BY <1>0, UnchangedKeeps
<1>TypedHeld. TypedHeld'
  BY <1>1 DEF TypedHeld
<1>TypedFlags. TypedFlags'
  BY <1>0, <1>2 DEF TypedFlags
<1>RoomOK. RoomOK'
  <2>1. RunningTakeovers \in Nat /\ RunningTakeovers' \in Nat
        /\ RunningTakeovers' <= RunningTakeovers
    BY <1>1, FewerRun
  <2>2. MAX_TAKEOVERS \in Nat
    BY DEF TakeoverAssumption
  <2> QED
    BY <1>0, <2>1, <2>2 DEF RoomOK, Capped
<1> QED
  BY <1>same, <1>TypedHeld, <1>TypedFlags, <1>RoomOK
-----------------------------------------------------------------------------
(* The invariant holds.                                                    *)

LEMMA InitKeeps ==
    ASSUME TakeoverAssumption, Init
    PROVE  IInv
<1>1. PICK birth \in [Convs -> Births] :
        /\ busy = [c \in Convs |-> IF birth[c] = "old" THEN "none" ELSE "own"]
        /\ sess = [c \in Convs |-> birth[c] = "old"]
        /\ review = [c \in Convs |-> birth[c] = "review"]
  BY DEF Init
<1>2. /\ lane = [c \in Convs |-> << >>] /\ kept = [c \in Convs |-> FALSE]
      /\ job = [j \in Jobs |-> NoJob] /\ ask = [j \in Jobs |-> NoAsk]
      /\ term = [c \in Convs |-> "none"] /\ held = [c \in Convs |-> NotHeld]
      /\ req = [k \in Clients |-> NoReq] /\ lock = FALSE /\ live = TRUE /\ stop = "no"
  BY DEF Init
<1>3. /\ \A j \in Jobs : job[j].st = "none" /\ ask[j].st = "none" /\ ask[j].said = "none"
      /\ \A k \in Clients : req[k].pc = "idle"
      /\ \A c \in Convs : ~held[c].on /\ lane[c] = << >>
  BY <1>2 DEF NoJob, NoAsk, NotHeld, NoReq
<1>4. TypedLane /\ TypedTerm /\ TypedFlags
  <2>1. << >> \in Seq(Places)
    OBVIOUS
  <2> QED
    BY <1>2, <2>1 DEF TypedLane, TypedTerm, TypedFlags
<1>5. TypedStore
  BY <1>1, <1>2 DEF TypedStore
<1>6. TypedJob /\ TypedAsk /\ TypedHeld /\ TypedReq
  BY <1>2, <1>3, NonesTyped DEF TypedJob, TypedAsk, TypedHeld, TypedReq
<1>13. LentOK
  BY <1>1 DEF LentOK
<1>7. LockOK /\ ClosedOK /\ OwningOK /\ KeptOK /\ BehindOK /\ PlacedOK
  BY <1>3 DEF LockOK, ClosedOK, OwningOK, KeptOK, BehindOK, PlacedOK, Seated, Locked, Waiting, Owning
<1>8. TurnOK /\ DrivenOK /\ TakenOK /\ HeadOK
  BY <1>1, <1>2, <1>3 DEF TurnOK, DrivenOK, TakenOK, HeadOK
<1>9. OwnOK
  BY <1>1 DEF OwnOK
<1>10. ShapeOK /\ OwnersOK
  BY <1>3 DEF ShapeOK, OwnersOK, In, OneTake, IsInjective
<1>11. RoomOK
  <2>1. {c \in Convs : held[c].on /\ ~held[c].finished} = {}
    BY <1>3
  <2>2. RunningTakeovers = 0 /\ MAX_TAKEOVERS \in Nat
    BY <2>1, FS_EmptySet DEF RunningTakeovers, TakeoverAssumption
  <2> QED
    BY <1>3, <2>2 DEF RoomOK, Capped, Locked, Waiting, Owning
<1>12. AnswersOK
  BY <1>3 DEF AnswersOK
<1> QED
  BY <1>4, <1>5, <1>6, <1>7, <1>8, <1>9, <1>10, <1>11, <1>12, <1>13 DEF IInv, Typed

LEMMA NextKeeps ==
    ASSUME TakeoverAssumption, IInv, [Next]_vars
    PROVE  IInv'
<1>1. CASE \E j \in Jobs, c \in Convs, kind \in Kinds : Send(j, c, kind)
  BY <1>1, SendKeeps DEF TakeoverAssumption
<1>2. CASE \E j \in Jobs : Cancel(j) \/ Ask(j) \/ Approve(j)
                             \/ \E yes \in {"yes", "no"} : Answer(j, yes)
  BY <1>2, CancelKeeps, AskKeeps, ApproveKeeps, AnswerKeeps
<1>3. CASE Calls
  BY <1>3, FirstKeeps, BeginKeeps, LeaveKeeps, DecideKeeps, AnswerRefusedKeeps, EndTurnKeeps DEF Calls
<1>4. CASE OwnTurns
  BY <1>4, OwnTurnEndsKeeps, ReviewTurnKeeps, ReviewEndsKeeps DEF OwnTurns
<1>5. CASE \E k \in Clients, c \in Convs, interrupt \in BOOLEAN : Attach(k, c, interrupt)
  BY <1>5, AttachKeeps
<1>6. CASE \E k \in Clients : Taking(k) \/ DropRequest(k)
  <2>1. PICK k \in Clients : Taking(k) \/ DropRequest(k)
    BY <1>6
  <2>2. CASE Reserve(k)
    BY <2>2, ReserveKeeps
  <2>3. CASE Confirm(k)
    BY <2>3, ConfirmKeeps
  <2>11. CASE Seat(k)
    BY <2>11, SeatKeeps
  <2>4. CASE StopJob(k)
    BY <2>4, StopJobKeeps
  <2>5. CASE TakeOver(k)
    BY <2>5, TakeOverKeeps
  <2>6. CASE WaitedTooLong(k)
    BY <2>6, WaitedTooLongKeeps
  <2>7. CASE StopKept(k)
    BY <2>7, StopKeptKeeps
  <2>8. CASE Keep(k)
    BY <2>8, KeepKeeps
  <2>9. CASE \E ok \in BOOLEAN : StartTerminal(k, ok)
    BY <2>9, StartTerminalKeeps
  <2>10. CASE DropRequest(k)
    BY <2>10, DropRequestKeeps
  <2> QED
    BY <2>1, <2>2, <2>3, <2>4, <2>5, <2>6, <2>7, <2>8, <2>9, <2>10, <2>11 DEF Taking
<1>7. CASE \E c \in Convs : Exit(c) \/ Reap(c) \/ EndTakeover(c) \/ Detach(c) \/ Expire(c)
  BY <1>7, ExitKeeps, ReapKeeps, EndTakeoverKeeps, DetachKeeps, ExpireKeeps
<1>8. CASE EndSession \/ Stop \/ Close
  BY <1>8, EndSessionKeeps, StopKeeps, CloseKeeps
<1>9. CASE UNCHANGED vars
  BY <1>9, UnchangedKeeps DEF vars, IInv, Typed
<1> QED
  BY <1>1, <1>2, <1>3, <1>4, <1>5, <1>6, <1>7, <1>8, <1>9 DEF Next

\* The inductive invariant holds of every takeover.
THEOREM Invariance == ASSUME TakeoverAssumption PROVE Spec => []IInv
<1>1. Init => IInv
  BY InitKeeps
<1>2. IInv /\ [Next]_vars => IInv'
  BY NextKeeps
<1> QED
  BY <1>1, <1>2, PTL DEF Spec

-----------------------------------------------------------------------------
(* What follows from it.                                                   *)

LEMMA DriverFollows ==
    ASSUME IInv
    PROVE  OneDriver
<1>1. DrivenAlone
  BY DEF IInv, DrivenOK, TurnOK, DrivenAlone
<1>2. NothingLeft
  <2> SUFFICES ASSUME NEW c \in Convs
      PROVE /\ HasTakeover(c) => \/ term[c] # "none"
                                 \/ \E k \in Clients : /\ req[k].conv = c
                                                       /\ req[k].pc \in Waiting \cup Owning
            /\ busy[c] = "taken" => \/ term[c] # "none"
                                    \/ \E k \in Clients : req[k].conv = c /\ req[k].pc \in Owning
    BY DEF NothingLeft, Waiting, Owning
  <2>1. ASSUME HasTakeover(c)
        PROVE  \/ term[c] # "none"
               \/ \E k \in Clients : req[k].conv = c /\ req[k].pc \in Waiting \cup Owning
    <3>1. PICK i \in DOMAIN lane[c] : IsTake(lane[c][i])
      BY <2>1 DEF HasTakeover
    <3>2. lane[c][i] \in Places /\ In(lane[c][i], lane[c])
      BY <3>1 DEF IInv, Typed, TypedLane, In
    <3>3. Owned(lane[c][i], c)
      BY <3>2 DEF IInv, OwnersOK
    <3> QED
      BY <3>1, <3>3 DEF Owned
  <2>2. busy[c] = "taken" => \/ term[c] # "none"
                             \/ \E k \in Clients : req[k].conv = c /\ req[k].pc \in Owning
    BY DEF IInv, TakenOK
  <2> QED
    BY <2>1, <2>2
<1>3. Capped
  BY DEF IInv, RoomOK
<1> QED
  BY <1>1, <1>2, <1>3 DEF OneDriver

\* A conversation has one driver: no turn runs in it and no server of it is
\* kept while the agent's terminal is there; however a takeover fails or ends,
\* the conversation and its lane are let go; and the terminals are capped.
THEOREM OneDriverHolds == ASSUME TakeoverAssumption PROVE Spec => []OneDriver
<1>1. IInv => OneDriver
  BY DriverFollows
<1>2. Spec => []IInv
  BY Invariance
<1> QED
  BY <1>1, <1>2, PTL

LEMMA OfferFollows ==
    ASSUME TakeoverAssumption, IInv
    PROVE  OfferAgrees
<1>1. OfferIsReal
  <2> SUFFICES ASSUME NEW c \in Convs
      PROVE  /\ Offer(c) = "ready" <=> Free(c) /\ RunningTakeovers < MAX_TAKEOVERS
             /\ Offer(c) = "interrupt" <=>
                  /\ Reservable(c) /\ Foremost(c)[1] = "job" /\ RunningTakeovers < MAX_TAKEOVERS
                  /\ ~Pending(Foremost(c)[2])
    BY DEF OfferIsReal
  <2>1. RunningTakeovers \in Nat /\ MAX_TAKEOVERS \in Nat
    <3>1. IsFiniteSet({d \in Convs : held[d].on /\ ~held[d].finished})
      BY FS_Subset DEF TakeoverAssumption
    <3> QED
      BY <3>1, FS_CardinalityType DEF RunningTakeovers, TakeoverAssumption
  <2>2. RunningTakeovers < MAX_TAKEOVERS <=> ~(RunningTakeovers >= MAX_TAKEOVERS)
    BY <2>1
  <2>3. lane[c] \in Seq(Places)
    BY DEF IInv, Typed, TypedLane
  <2>4. Foremost(c)[1] = "none" <=> lane[c] = << >>
    <3>1. CASE lane[c] = << >>
      BY <3>1 DEF Foremost
    <3>2. CASE lane[c] # << >>
      <4>1. Head(lane[c]) \in Places
        BY <2>3, <3>2
      <4>2. Foremost(c) = Head(lane[c])
        BY <3>2 DEF Foremost
      <4> QED
        BY <3>2, <4>1, <4>2 DEF Places
    <3> QED
      BY <3>1, <3>2
  <2>5. lane[c] = << >> => ~HasTakeover(c)
    BY DEF HasTakeover
  <2> DEFINE first == Foremost(c)[1]
             room == RunningTakeovers < MAX_TAKEOVERS
             asks == Pending(Foremost(c)[2])
  <2> HIDE DEF first, room, asks
  <2>6. /\ Offer(c) = "ready" <=> /\ ~(busy[c] = "taken" \/ HasTakeover(c)) /\ ~Others(c)
                                  /\ room /\ first = "none" /\ busy[c] = "none"
        /\ Offer(c) = "interrupt" <=> /\ ~(busy[c] = "taken" \/ HasTakeover(c)) /\ ~Others(c)
                                      /\ room /\ first = "job" /\ busy[c] # "none" /\ ~asks
    BY <2>2 DEF Offer, first, room, asks
  <2>7. Free(c) <=> first = "none" /\ ~HasTakeover(c) /\ ~Others(c) /\ busy[c] = "none"
    BY <2>4, <2>5 DEF Free, Obstacles, first
  <2>8. Reservable(c) /\ first = "job" <=>
          ~Others(c) /\ ~HasTakeover(c) /\ first = "job" /\ busy[c] # "none"
    BY DEF Reservable, Placeable, first
  <2>9. Others(c) \/ busy[c] # "taken"
    BY DEF Others
  <2> QED
    BY <2>6, <2>7, <2>8, <2>9 DEF first, room, asks
<1>2. AnswerStands
  BY DEF IInv, AnswersOK, AnswerStands
<1> QED
  BY <1>1, <1>2 DEF OfferAgrees

\* What the owner is shown is so: the terminal offered is the one attach would
\* give, and the answer that approve reported is the one the job got.
THEOREM OfferAgreesHolds == ASSUME TakeoverAssumption PROVE Spec => []OfferAgrees
<1>1. IInv => OfferAgrees
  BY OfferFollows
<1>2. Spec => []IInv
  BY Invariance
<1> QED
  BY <1>1, <1>2, PTL

\* Only Begin puts a call on its turn.
LEMMA StartsTurn ==
    ASSUME job \in [Jobs -> JobRecords], [Next]_vars, NEW j \in Jobs,
           job[j].st # "turn", job'[j].st = "turn"
    PROVE  Begin(j)
<1>1. job' # job
  OBVIOUS
<1>2. CASE \E i \in Jobs, c \in Convs, kind \in Kinds : Send(i, c, kind)
  BY <1>2 DEF Send, NoJob
<1>3. CASE \E i \in Jobs : First(i) \/ Begin(i) \/ Leave(i) \/ Cancel(i)
                          \/ \E keeps \in BOOLEAN : EndTurn(i, keeps)
  <2>1. PICK i \in Jobs : First(i) \/ Begin(i) \/ Leave(i) \/ Cancel(i)
                          \/ \E keeps \in BOOLEAN : EndTurn(i, keeps)
    BY <1>3
  <2>2. CASE Begin(i)
    BY <2>2 DEF Begin
  <2>3. CASE First(i) \/ Leave(i) \/ Cancel(i)
    BY <2>3 DEF First, Leave, Cancel, JobRecords
  <2>4. CASE \E keeps \in BOOLEAN : EndTurn(i, keeps)
    BY <2>4 DEF EndTurn, JobRecords
  <2> QED
    BY <2>1, <2>2, <2>3, <2>4
<1>4. CASE \E k \in Clients : StopJob(k)
  BY <1>4 DEF StopJob
<1>5. CASE EndSession
  BY <1>5 DEF EndSession, JobRecords
<1>6. CASE \E i \in Jobs : Ask(i) \/ Approve(i) \/ Decide(i) \/ AnswerRefused(i)
                          \/ \E yes \in {"yes", "no"} : Answer(i, yes)
  BY <1>1, <1>6 DEF Ask, Approve, Decide, AnswerRefused, Answer
<1>7. CASE OwnTurns
  BY <1>1, <1>7 DEF OwnTurns, OwnTurnEnds, ReviewTurn, ReviewEnds
<1>8. CASE \E k \in Clients, c \in Convs, interrupt \in BOOLEAN : Attach(k, c, interrupt)
  BY <1>1, <1>8 DEF Attach
<1>9. CASE \E k \in Clients : \/ Reserve(k) \/ Seat(k) \/ Confirm(k) \/ TakeOver(k) \/ WaitedTooLong(k)
                              \/ StopKept(k) \/ Keep(k) \/ DropRequest(k)
                              \/ \E ok \in BOOLEAN : StartTerminal(k, ok)
  BY <1>1, <1>9 DEF Reserve, Seat, Confirm, TakeOver, WaitedTooLong, StopKept, Keep,
                       DropRequest, StartTerminal
<1>10. CASE \E c \in Convs : Exit(c) \/ Reap(c) \/ EndTakeover(c) \/ Detach(c) \/ Expire(c)
  BY <1>1, <1>10 DEF Exit, Reap, EndTakeover, Detach, Expire
<1>11. CASE Stop \/ Close \/ UNCHANGED vars
  BY <1>1, <1>11 DEF Stop, Close, vars
<1> QED
  BY <1>2, <1>3, <1>4, <1>5, <1>6, <1>7, <1>8, <1>9, <1>10, <1>11 DEF Next, Calls, Taking

LEMMA BetweenFollows ==
    ASSUME TakeoverAssumption, IInv, [Next]_vars
    PROVE  NothingBetweenStep
<1> SUFFICES ASSUME NEW k \in Clients, NEW j \in Jobs, req[k].pc \in Seated,
                    req[k].conv = job[j].conv, job[j].st # "turn", job'[j].st = "turn"
             PROVE  FALSE
  BY DEF NothingBetweenStep, Seated
<1>1. job \in [Jobs -> JobRecords]
  BY DEF IInv, Typed, TypedJob
<1>2. Begin(j)
  BY <1>1, StartsTurn
<1>3. job[j].st = "ready"
  BY <1>2 DEF Begin
<1>4. lane[job[j].conv] # << >> /\ lane[job[j].conv][1] = Place(j)
  BY <1>3 DEF IInv, HeadOK
<1>5. /\ \A i \in Jobs : Place(i) = Place(j) => i = j
      /\ Take(k) # Place(j)
  BY PlacesApart DEF IInv, Typed
<1> QED
  BY <1>3, <1>4, <1>5 DEF IInv, BehindOK

\* From the reservation until the takeover opens or gives up, no other prompt
\* starts a turn in the conversation.
THEOREM NothingBetweenHolds == ASSUME TakeoverAssumption PROVE Spec => NothingBetween
<1>1. IInv /\ [Next]_vars => NothingBetweenStep
  BY BetweenFollows
<1>2. Spec => []IInv
  BY Invariance
<1> QED
  BY <1>1, <1>2, PTL DEF Spec, NothingBetween
=============================================================================
