------------------------ MODULE OwnerQuestion_proofs ------------------------
(***************************************************************************)
(* A gated call goes ahead only on the owner's own yes, and no question    *)
(* has two ends, for any questions, messages, time limits and number of    *)
(* stops.                                                                  *)
(***************************************************************************)
EXTENDS OwnerQuestion, TLAPS

Notice == [kind : {"ask", "over"}, id : Questions]
Delivery == [kind : {"ask", "over", "ack"}, id : Questions]

\* The types of every variable, in more detail than TypeOK.
TypedAsker ==
    /\ entry \in [Questions -> Ends \cup {"none", "gone", Open}]
    /\ due \in [Questions -> Nat]
    /\ polled \in [Questions -> BOOLEAN]
    /\ heard \in [Questions -> {"waits", "yes", "no"}]
    /\ task \in [Questions -> {"none", "begin", "sending", "following", "over"}]

TypedHub ==
    /\ slot \in [id : Questions \cup {None}, at : Nat \cup {None}]
    /\ channel \in [Questions -> {"open", "lost", "Yes", "No"}]
    /\ notices \in Seq(Notice)
    /\ awaited \subseteq {"ask", "over"} \X Questions

TypedBridge ==
    /\ outbox \in Seq(Delivery)
    /\ storing \in Notice \cup {None}
    /\ sent \in {"idle", "checked", "taken", "done"}
    /\ handled \subseteq Replies /\ turns \subseteq handled
    /\ taking \in [msg : Replies, id : Questions] \cup {NoTaking}
    /\ up \in BOOLEAN

TypedOwner ==
    /\ now \in Nat /\ stops \in Nat
    /\ shown \in [Questions -> Nat \cup {None}]
    /\ wrote \in [Replies -> [yes : BOOLEAN, at : Nat \cup {None}]]
    /\ told \in [Questions -> SUBSET {"ack", "over"}]

Typed == TypedAsker /\ TypedHub /\ TypedBridge /\ TypedOwner

Has(s, x) == \E i \in DOMAIN s : s[i] = x

\* What the platform took of the outbox's head the owner saw, and the hub's
\* slot opened only after that.
DeliveryOK ==
    /\ sent # "idle" => outbox # <<>>
    /\ sent = "taken" /\ First.kind = "ask" => shown[First.id] # None
    /\ \A q \in Questions : shown[q] # None => shown[q] <= now
    /\ \A q \in Questions : slot.id = q /\ slot.at # None =>
         shown[q] # None /\ shown[q] <= slot.at

\* The answer the poller holds was written after its question was seen, and is
\* handled by nobody else.
TakingOK ==
    taking # NoTaking =>
        /\ shown[taking.id] # None /\ wrote[taking.msg].at # None
        /\ wrote[taking.msg].at >= shown[taking.id]
        /\ taking.msg \notin handled

\* A yes of the owner's stands behind the question.
Meant(q) ==
    /\ shown[q] # None
    /\ "ack" \in told[q]
    /\ \E m \in handled \ turns :
         wrote[m].at # None /\ wrote[m].yes /\ wrote[m].at >= shown[q]

YesOK ==
    \A q \in Questions :
        channel[q] = "Yes" \/ entry[q] = "Yes" \/ heard[q] = "yes" => Meant(q)

AskOf(q) == [kind |-> "ask", id |-> q]
OverOf(q) == [kind |-> "over", id |-> q]

\* The last word of a question is under way or was said.
Closing(q) ==
    \/ "over" \in told[q]
    \/ Has(notices, OverOf(q)) \/ storing = OverOf(q) \/ Has(outbox, OverOf(q))

\* The text of a question is under way.
Asking(q) == Has(notices, AskOf(q)) \/ storing = AskOf(q) \/ Has(outbox, AskOf(q))

\* A question is the hub's, the poller's, acknowledged or closed, and only one
\* of these: they take it from each other.
Fate(q) ==
    /\ slot.id = q => taking.id # q
    /\ slot.id = q \/ taking.id = q => "ack" \notin told[q] /\ ~Closing(q)
    /\ "ack" \in told[q] => ~Closing(q)

\* The question the hub or the poller holds still waits for its answer.
Waiting(q) ==
    /\ slot.id = q \/ taking.id = q =>
         entry[q] = Open /\ channel[q] = "open" /\ task[q] \notin {"none", "over"}
    /\ entry[q] = "none" => channel[q] = "open"

\* A question was stored, and its sender told so, before anyone could answer.
Asked(q) == task[q] \notin {"none", "begin"}
Known(q) == Asked(q) /\ <<"ask", q>> \notin awaited

Answered(q) ==
    /\ entry[q] = "none" <=> task[q] = "none"
    /\ Asking(q) \/ Closing(q) => Asked(q)
    /\ Has(outbox, AskOf(q)) => Known(q)
    /\ slot.id = q /\ slot.at # None => Known(q)
    /\ taking.id = q => Known(q)
    /\ "ack" \in told[q] =>
         /\ Known(q)
         /\ channel[q] \in {"Yes", "No"} \/ entry[q] = "gone"
         /\ entry[q] \in {Open, "Yes", "No", "gone"}

Each(q) == Fate(q) /\ Waiting(q) /\ Answered(q)
EachOK == \A q \in Questions : Each(q)

IInv == Typed /\ DeliveryOK /\ TakingOK /\ YesOK /\ EachOK

-----------------------------------------------------------------------------
(* Sequences and notices *)

LEMMA HasAppend ==
  ASSUME NEW S, NEW s \in Seq(S), NEW e \in S, NEW x
  PROVE  Has(Append(s, e), x) <=> Has(s, x) \/ e = x
<1>1. ASSUME Has(Append(s, e), x) PROVE Has(s, x) \/ e = x
  BY <1>1 DEF Has
<1>2. ASSUME Has(s, x) PROVE Has(Append(s, e), x)
  <2>1. PICK i \in DOMAIN s : s[i] = x
    BY <1>2 DEF Has
  <2>2. i \in DOMAIN Append(s, e) /\ Append(s, e)[i] = x
    BY <2>1
  <2>. QED  BY <2>2 DEF Has
<1>3. Has(Append(s, e), e)
  <2>1. Len(s) + 1 \in DOMAIN Append(s, e) /\ Append(s, e)[Len(s) + 1] = e
    OBVIOUS
  <2>. QED  BY DEF Has
<1>. QED  BY <1>1, <1>2, <1>3

LEMMA HasTail ==
  ASSUME NEW S, NEW s \in Seq(S), s # <<>>
  PROVE  /\ Head(s) \in S /\ Tail(s) \in Seq(S)
         /\ Has(s, Head(s))
         /\ \A x : Has(Tail(s), x) => Has(s, x)
  BY DEF Has

LEMMA Notices ==
  /\ <<>> \in Seq(Notice)
  /\ \A x : ~Has(<<>>, x)
  /\ \A s \in Seq(Notice), e \in Notice :
       /\ Append(s, e) \in Seq(Notice)
       /\ \A x : Has(Append(s, e), x) <=> Has(s, x) \/ e = x
  /\ \A s \in Seq(Notice) : s # <<>> =>
       /\ Head(s) \in Notice /\ Tail(s) \in Seq(Notice)
       /\ Has(s, Head(s))
       /\ \A x : Has(Tail(s), x) => Has(s, x)
<1>1. \A x : ~Has(<<>>, x)
  BY DEF Has
<1>2. \A s \in Seq(Notice), e \in Notice : \A x : Has(Append(s, e), x) <=> Has(s, x) \/ e = x
  BY HasAppend
<1>3. \A s \in Seq(Notice) : s # <<>> =>
        /\ Head(s) \in Notice /\ Tail(s) \in Seq(Notice)
        /\ Has(s, Head(s))
        /\ \A x : Has(Tail(s), x) => Has(s, x)
  BY HasTail
<1>. QED  BY <1>1, <1>2, <1>3

LEMMA HeadAppend ==
  ASSUME NEW S, NEW s \in Seq(S), NEW e \in S
  PROVE  /\ Append(s, e) \in Seq(S) /\ Append(s, e) # <<>>
         /\ s # <<>> => Head(Append(s, e)) = Head(s)
<1>1. Append(s, e) \in Seq(S) /\ Len(Append(s, e)) = Len(s) + 1 /\ Len(s) \in Nat
  OBVIOUS
<1>2. Append(s, e) # <<>>
  BY <1>1
<1>3. ASSUME s # <<>> PROVE Head(Append(s, e)) = Head(s)
  <2>1. Len(s) # 0
    BY <1>3
  <2>2. Append(s, e)[1] = s[1]
    BY <2>1
  <2>. QED  BY <2>2
<1>. QED  BY <1>3

LEMMA Deliveries ==
  /\ \A s \in Seq(Delivery), e \in Delivery :
       /\ Append(s, e) \in Seq(Delivery) /\ Append(s, e) # <<>>
       /\ s # <<>> => Head(Append(s, e)) = Head(s)
       /\ \A x : Has(Append(s, e), x) <=> Has(s, x) \/ e = x
  /\ \A s \in Seq(Delivery) : s # <<>> =>
       /\ Head(s) \in Delivery /\ Tail(s) \in Seq(Delivery)
       /\ Has(s, Head(s))
       /\ \A x : Has(Tail(s), x) => Has(s, x)
<1>1. \A s \in Seq(Delivery), e \in Delivery : \A x :
        Has(Append(s, e), x) <=> Has(s, x) \/ e = x
  BY HasAppend
<1>2. \A s \in Seq(Delivery), e \in Delivery :
        /\ Append(s, e) \in Seq(Delivery) /\ Append(s, e) # <<>>
        /\ s # <<>> => Head(Append(s, e)) = Head(s)
  BY HeadAppend
<1>3. \A s \in Seq(Delivery) : s # <<>> =>
        /\ Head(s) \in Delivery /\ Tail(s) \in Seq(Delivery)
        /\ Has(s, Head(s))
        /\ \A x : Has(Tail(s), x) => Has(s, x)
  BY HasTail
<1>. QED  BY <1>1, <1>3

LEMMA Records ==
  ASSUME QuestionConstants
  PROVE
  /\ \A q \in Questions : AskOf(q) # None /\ OverOf(q) # None
  /\ \A q \in Questions : /\ AskOf(q) \in Notice /\ OverOf(q) \in Notice
                          /\ AskOf(q).kind = "ask" /\ AskOf(q).id = q
                          /\ OverOf(q).kind = "over" /\ OverOf(q).id = q
                          /\ [kind |-> "ack", id |-> q] \in Delivery
  /\ \A d \in Notice : d \in Delivery /\ d.kind \in {"ask", "over"} /\ d.id \in Questions
  /\ \A d \in Delivery : /\ d.kind = "ask" => d = AskOf(d.id)
                         /\ d.kind = "over" => d = OverOf(d.id)
                         /\ d.id \in Questions
  /\ \A p, q \in Questions : /\ [kind |-> "ack", id |-> q] \notin {AskOf(p), OverOf(p)}
                             /\ AskOf(p) # OverOf(q)
                             /\ AskOf(p) = AskOf(q) \/ OverOf(p) = OverOf(q) => p = q
  BY DEF Notice, Delivery, AskOf, OverOf, QuestionConstants

-----------------------------------------------------------------------------
(* Every step keeps the invariant *)

\* A step of another question's.
Leaves(p) ==
  /\ entry'[p] = entry[p] /\ task'[p] = task[p] /\ channel'[p] = channel[p]
  /\ "ack" \in told'[p] <=> "ack" \in told[p]
  /\ <<"ask", p>> \in awaited' <=> <<"ask", p>> \in awaited
  /\ slot'.id = p => slot' = slot
  /\ taking'.id = p => taking' = taking
  /\ Closing(p)' => Closing(p)
  /\ Asking(p)' => Asking(p)
  /\ Has(outbox', AskOf(p)) => Has(outbox, AskOf(p))

LEMMA LeftAlone ==
  ASSUME NEW p \in Questions, Each(p), Leaves(p)
  PROVE  Each(p)'
<1>1. Known(p)' <=> Known(p)
  BY DEF Known, Asked, Leaves
<1>2. Fate(p)'
  BY DEF Each, Fate, Leaves
<1>3. Waiting(p)'
  BY DEF Each, Waiting, Leaves
<1>4. Answered(p)'
  <2>1. (entry[p] = "none" <=> task[p] = "none")'
    BY DEF Each, Answered, Leaves
  <2>2. (Asking(p) \/ Closing(p) => Asked(p))'
    BY DEF Each, Answered, Asked, Leaves
  <2>3. (Has(outbox, AskOf(p)) => Known(p))'
    BY <1>1 DEF Each, Answered, Leaves
  <2>4. ((slot.id = p /\ slot.at # None => Known(p)) /\ (taking.id = p => Known(p)))'
    BY <1>1 DEF Each, Answered, Leaves
  <2>5. ("ack" \in told[p] =>
           /\ Known(p)
           /\ channel[p] \in {"Yes", "No"} \/ entry[p] = "gone"
           /\ entry[p] \in {Open, "Yes", "No", "gone"})'
    BY <1>1 DEF Each, Answered, Leaves
  <2>. QED  BY <2>1, <2>2, <2>3, <2>4, <2>5 DEF Answered
<1>. QED  BY <1>2, <1>3, <1>4 DEF Each

LEMMA AskKeeps ==
  ASSUME QuestionConstants, IInv, NEW q \in Questions, Ask(q)
  PROVE  IInv'
<1>. USE DEF IInv
<1>1. Typed'
  <2>1. TypedAsker'
    BY DEF Typed, TypedAsker, TypedOwner, Ends, Open, QuestionConstants, Ask, asker, hub,
       bridge
  <2>2. TypedHub'
    BY DEF Typed, TypedHub, NoSlot, QuestionConstants, Ask, asker, hub, bridge
  <2>3. TypedBridge' /\ TypedOwner'
    BY DEF Typed, TypedBridge, TypedOwner, Ask, bridge, owner
  <2>. QED  BY <2>1, <2>2, <2>3 DEF Typed
<1>2. DeliveryOK'
  BY <1>1, Deliveries, Records DEF DeliveryOK, First, Typed, QuestionConstants, Ask, asker,
     hub, bridge, owner
<1>3. YesOK'
  BY <1>1 DEF YesOK, Meant, Typed, TypedAsker, Each, Waiting, NoTaking, NoSlot, Open, Ends,
     QuestionConstants, Ask, asker, hub, bridge, owner
<1>4. ASSUME NEW p \in Questions PROVE Each(p)'
  <2>1. Closing(p)' => Closing(p)
    BY DEF Closing, Ask, hub, bridge, owner
  <2>2. Asking(p)' => Asking(p)
    BY DEF Asking, Ask, hub, bridge, owner
  <2>3. Has(outbox, AskOf(p))' => Has(outbox, AskOf(p))
    BY DEF Ask, hub, bridge, owner
  <2>4. CASE p # q
    <3>1. Leaves(p)
      BY <2>1, <2>2, <2>3, <2>4 DEF Leaves, Ask, asker, hub, bridge, owner
    <3>. QED  BY LeftAlone, <3>1 DEF EachOK
  <2>5. CASE p = q
    <3>1. Fate(p)'
      BY <2>1, <2>5, <1>1 DEF EachOK, Each, Fate, Waiting, Answered, Known, Asked, Typed,
         TypedAsker, TypedHub, TypedBridge, TypedOwner, NoTaking, NoSlot, Open, Ends,
         QuestionConstants, Ask, asker, hub, bridge, owner
    <3>2. Waiting(p)'
      BY <2>5, <1>1 DEF EachOK, Each, Fate, Waiting, Answered, Known, Asked, Typed,
         TypedAsker, TypedHub, QuestionConstants, Ask, asker, hub, bridge, owner
    <3>3. Answered(p)'
      BY <2>1, <2>2, <2>3, <2>5, <1>1 DEF EachOK, Each, Fate, Waiting, Answered, Known,
         Asked, Asking, Typed, TypedAsker, TypedHub, TypedBridge, TypedOwner, NoTaking,
         NoSlot, Open, Ends, QuestionConstants, Ask, asker, hub, bridge, owner
    <3>. QED  BY <3>1, <3>2, <3>3 DEF Each
  <2>. QED  BY <2>4, <2>5
<1>5. EachOK'
  BY <1>4 DEF EachOK
<1>6. TakingOK'
  BY DEF TakingOK, Ask, hub, bridge, owner
<1>. QED  BY <1>1, <1>2, <1>3, <1>5, <1>6

LEMMA SendQuestionKeeps ==
  ASSUME QuestionConstants, IInv, NEW q \in Questions, SendQuestion(q)
  PROVE  IInv'
<1>. USE DEF IInv
<1>1. Typed'
  <2>1. TypedAsker'
    <3>1. CASE up
      BY <3>1 DEF Typed, TypedAsker, Ends, Open, SendQuestion
    <3>2. CASE ~up
      BY DEF Typed, TypedAsker, Ends, Open, SendQuestion, Settle
    <3>. QED  BY <3>1, <3>2
  <2>2. TypedHub'
    <3>1. notices' \in Seq(Notice)
      <4>1. notices' = notices \/ notices' = Append(notices, AskOf(q))
        BY DEF SendQuestion, AskOf
      <4>2. notices \in Seq(Notice) /\ Append(notices, AskOf(q)) \in Seq(Notice)
        BY Notices, Records DEF Typed, TypedHub
      <4>. QED  BY <4>1, <4>2
    <3>2. awaited' \subseteq {"ask", "over"} \X Questions
      BY DEF Typed, TypedHub, SendQuestion
    <3>3. slot' \in [id : Questions \cup {None}, at : Nat \cup {None}]
      BY DEF Typed, TypedHub, SendQuestion, Withdrawn, NoSlot
    <3>4. channel' \in [Questions -> {"open", "lost", "Yes", "No"}]
      BY DEF Typed, TypedHub, SendQuestion, Dropped
    <3>. QED  BY <3>1, <3>2, <3>3, <3>4 DEF TypedHub
  <2>3. TypedBridge' /\ TypedOwner'
    BY DEF Typed, TypedBridge, TypedOwner, SendQuestion, Withdrawn, Dropped, Settle, asker,
       hub, bridge, owner
  <2>. QED  BY <2>1, <2>2, <2>3 DEF Typed
<1>2. DeliveryOK'
  BY <1>1, Deliveries, Records DEF DeliveryOK, First, Typed, Answered, Known, NoTaking,
     NoSlot, Open, Ends, QuestionConstants, SendQuestion, Withdrawn, Dropped, Settle, asker,
     hub, bridge, owner
<1>3. YesOK'
  BY <1>1 DEF YesOK, Meant, Typed, TypedAsker, TypedHub, TypedBridge, TypedOwner, TakingOK,
     EachOK, Each, Waiting, NoTaking, NoSlot, Open, Ends, QuestionConstants, SendQuestion,
     Withdrawn, Dropped, Settle, asker, hub, bridge, owner
<1>4. ASSUME NEW p \in Questions PROVE Each(p)'
  <2>q. /\ \A x : Has(notices', x) => Has(notices, x) \/ x = AskOf(q)
        /\ UNCHANGED <<storing, outbox, told>>
    <3>1. CASE up
      <4>1. notices' = Append(notices, AskOf(q))
        BY <3>1 DEF SendQuestion, AskOf
      <4>. QED  BY <4>1, Notices, Records DEF Typed, TypedHub, SendQuestion, bridge, owner
    <3>2. CASE ~up
      BY <3>2 DEF SendQuestion, bridge, owner
    <3>. QED  BY <3>1, <3>2
  <2>1. Closing(p)' => Closing(p)
    BY <2>q, Records DEF Closing
  <2>2. Asking(p)' => Asking(p) \/ p = q
    BY <2>q, Records DEF Asking
  <2>3. Has(outbox, AskOf(p))' => Has(outbox, AskOf(p))
    BY <2>q
  <2>4. CASE p # q
    <3>1. Leaves(p)
      BY <2>1, <2>2, <2>3, <2>4 DEF Leaves, Typed, TypedAsker, TypedHub, TypedBridge,
         TypedOwner, NoTaking, NoSlot, Open, Ends, QuestionConstants, SendQuestion,
         Withdrawn, Dropped, Settle, asker, hub, bridge, owner
    <3>. QED  BY LeftAlone, <3>1 DEF EachOK
  <2>5. CASE p = q
    <3>1. Fate(p)'
      BY <2>1, <2>5, <1>1 DEF EachOK, Each, Fate, Waiting, TypedOwner, NoTaking, NoSlot,
         Open, Ends, QuestionConstants, SendQuestion, Withdrawn, Dropped, Settle, asker,
         hub, bridge, owner
    <3>2. Waiting(p)'
        <4>1. CASE up
        BY <4>1, <2>5 DEF EachOK, Each, Waiting, Typed, TypedAsker, SendQuestion, bridge
      <4>2. CASE ~up
        <5>1. slot'.id # q
          BY <4>2 DEF NoSlot, QuestionConstants, SendQuestion, Withdrawn
        <5>3. taking'.id # q
          BY DEF EachOK, Each, Answered, Known, Asked, SendQuestion, bridge
        <5>2. entry'[q] # "none"
          BY <4>2 DEF EachOK, Typed, TypedAsker, Ends, Open, SendQuestion, Settle
        <5>. QED  BY <5>1, <5>3, <5>2, <2>5 DEF Waiting
      <4>. QED  BY <4>1, <4>2
    <3>3. Answered(p)'
      BY <2>1, <2>2, <2>3, <2>5, <1>1 DEF EachOK, Each, Fate, Waiting, Answered, Known,
         Asked, Asking, Typed, TypedAsker, TypedHub, TypedBridge, TypedOwner, NoTaking,
         NoSlot, Open, Ends, QuestionConstants, SendQuestion, Withdrawn, Dropped, Settle,
         asker, hub, bridge, owner
    <3>. QED  BY <3>1, <3>2, <3>3 DEF Each
  <2>. QED  BY <2>4, <2>5
<1>5. EachOK'
  BY <1>4 DEF EachOK
<1>6. TakingOK'
  BY DEF TakingOK, SendQuestion, Settle, asker, hub, bridge, owner
<1>. QED  BY <1>1, <1>2, <1>3, <1>5, <1>6

LEMMA NotStoredKeeps ==
  ASSUME QuestionConstants, IInv, NEW q \in Questions, NotStored(q)
  PROVE  IInv'
<1>. USE DEF IInv
<1>1. Typed'
  <2>1. TypedAsker'
    BY DEF Typed, TypedAsker, Ends, Open, QuestionConstants, NotStored, Withdrawn, Dropped,
       Settle, asker, hub, bridge
  <2>2. TypedHub'
    BY DEF Typed, TypedHub, TypedBridge, TypedOwner, NoSlot, QuestionConstants, NotStored,
       Withdrawn, Dropped, Settle, asker, hub, bridge, owner
  <2>3. TypedBridge' /\ TypedOwner'
    BY DEF Typed, TypedBridge, TypedOwner, NotStored, Withdrawn, Dropped, Settle, asker,
       hub, bridge, owner
  <2>. QED  BY <2>1, <2>2, <2>3 DEF Typed
<1>2. DeliveryOK'
  BY <1>1, Deliveries, Records DEF DeliveryOK, First, Typed, Answered, Known, NoTaking,
     NoSlot, Open, Ends, QuestionConstants, NotStored, Withdrawn, Dropped, Settle, asker,
     hub, bridge, owner
<1>3. YesOK'
  BY <1>1 DEF YesOK, Meant, Typed, TypedAsker, TypedHub, NoTaking, NoSlot, Open, Ends,
     QuestionConstants, NotStored, Withdrawn, Dropped, Settle, asker, hub, bridge, owner
<1>4. ASSUME NEW p \in Questions PROVE Each(p)'
  <2>1. Closing(p)' => Closing(p)
    BY DEF Closing, NotStored, Settle, asker, hub, bridge, owner
  <2>2. Asking(p)' => Asking(p)
    BY DEF Asking, NotStored, Settle, asker, hub, bridge
  <2>3. Has(outbox, AskOf(p))' => Has(outbox, AskOf(p))
    BY DEF Asking, NotStored, Settle, asker, hub, bridge
  <2>4. CASE p # q
    <3>1. Leaves(p)
      BY <2>1, <2>2, <2>3, <2>4 DEF Leaves, NoTaking, NoSlot, Open, Ends, QuestionConstants,
         NotStored, Withdrawn, Dropped, Settle, asker, hub, bridge, owner
    <3>. QED  BY LeftAlone, <3>1 DEF EachOK
  <2>5. CASE p = q
    <3>1. Fate(p)'
      BY <2>1, <2>5, <1>1 DEF EachOK, Each, Fate, Waiting, TypedOwner, NoTaking, NoSlot,
         Open, Ends, QuestionConstants, NotStored, Withdrawn, Dropped, Settle, asker, hub,
         bridge, owner
    <3>2. Waiting(p)'
      BY <2>5, <1>1 DEF EachOK, Each, Fate, Waiting, Answered, Known, Asked, Typed,
         TypedAsker, TypedHub, TypedBridge, TypedOwner, NoTaking, NoSlot, Open, Ends,
         QuestionConstants, NotStored, Withdrawn, Dropped, Settle, asker, hub, bridge
    <3>3. Answered(p)'
      BY <2>1, <2>2, <2>3, <2>5, <1>1 DEF EachOK, Each, Fate, Waiting, Answered, Known,
         Asked, Asking, Typed, TypedAsker, TypedHub, TypedBridge, TypedOwner, NoTaking,
         NoSlot, Open, Ends, QuestionConstants, NotStored, Withdrawn, Dropped, Settle,
         asker, hub, bridge, owner
    <3>. QED  BY <3>1, <3>2, <3>3 DEF Each
  <2>. QED  BY <2>4, <2>5
<1>5. EachOK'
  BY <1>4 DEF EachOK
<1>6. TakingOK'
  BY DEF TakingOK, NotStored, Settle, asker, hub, bridge, owner
<1>. QED  BY <1>1, <1>2, <1>3, <1>5, <1>6

LEMMA StoredKeeps ==
  ASSUME QuestionConstants, IInv, NEW q \in Questions, Stored(q)
  PROVE  IInv'
<1>. USE DEF IInv
<1>1. Typed'
  <2>1. TypedAsker'
    BY DEF Typed, TypedAsker, QuestionConstants, Stored, asker, hub, bridge, owner
  <2>2. TypedHub' /\ TypedBridge' /\ TypedOwner'
    BY DEF Typed, TypedHub, TypedBridge, TypedOwner, Stored, asker, hub, bridge, owner
  <2>. QED  BY <2>1, <2>2 DEF Typed
<1>2. ASSUME NEW p \in Questions PROVE Each(p)'
  <2>1. Closing(p)' => Closing(p)
    BY DEF Closing, Stored, hub, bridge, owner
  <2>2. Asking(p)' => Asking(p)
    BY DEF Asking, Stored, hub, bridge, owner
  <2>3. Has(outbox, AskOf(p))' => Has(outbox, AskOf(p))
    BY DEF Stored, hub, bridge, owner
  <2>4. CASE p # q
    <3>1. Leaves(p)
      BY <2>1, <2>2, <2>3, <2>4 DEF Leaves, Stored, asker, hub, bridge, owner
    <3>. QED  BY LeftAlone, <3>1 DEF EachOK
  <2>5. CASE p = q
    <3>1. Fate(p)'
      BY <2>1, <2>5, <1>1 DEF EachOK, Each, Fate, TypedHub, TypedBridge, TypedOwner,
         NoTaking, NoSlot, Open, Ends, QuestionConstants, Stored, asker, hub, bridge, owner
    <3>2. Waiting(p)'
      BY <2>5, <1>1 DEF EachOK, Each, Fate, Waiting, QuestionConstants, Stored, asker, hub,
         bridge, owner
    <3>3. Answered(p)'
      BY <2>1, <2>2, <2>3, <2>5, <1>1 DEF EachOK, Each, Fate, Waiting, Answered, Known,
         Asked, Asking, Typed, Ends, QuestionConstants, Stored, asker, hub, bridge, owner
    <3>. QED  BY <3>1, <3>2, <3>3 DEF Each
  <2>. QED  BY <2>4, <2>5
<1>3. EachOK'
  BY <1>2 DEF EachOK
<1>4. DeliveryOK' /\ TakingOK' /\ YesOK'
  BY DEF DeliveryOK, First, TakingOK, YesOK, Meant, Stored, asker, hub, bridge, owner
<1>. QED  BY <1>1, <1>3, <1>4

LEMMA ReceiveKeeps ==
  ASSUME QuestionConstants, IInv, NEW q \in Questions, Receive(q)
  PROVE  IInv'
<1>. USE DEF IInv
<1>1. Typed'
  <2>1. TypedAsker'
    <3>1. CASE channel[q] = "lost"
      BY <3>1 DEF Typed, TypedAsker, TypedHub, Ends, Open, Receive, Settle
    <3>2. CASE channel[q] # "lost"
      BY <3>2 DEF Typed, TypedAsker, TypedHub, Ends, Open, Receive, Settle
    <3>. QED  BY <3>1, <3>2
  <2>2. TypedHub' /\ TypedBridge' /\ TypedOwner'
    BY DEF Typed, TypedHub, TypedBridge, TypedOwner, Receive, Settle, asker, hub, bridge,
       owner
  <2>. QED  BY <2>1, <2>2 DEF Typed
<1>2. YesOK'
  BY <1>1 DEF YesOK, Meant, Typed, TypedAsker, Each, Waiting, NoTaking, NoSlot, Open, Ends,
     QuestionConstants, Receive, Settle, asker, hub, bridge, owner
<1>3. ASSUME NEW p \in Questions PROVE Each(p)'
  <2>1. Closing(p)' => Closing(p)
    BY DEF Closing, Receive, Settle, asker, hub, bridge, owner
  <2>2. Asking(p)' => Asking(p)
    BY DEF Asking, Receive, Settle, asker, hub, bridge
  <2>3. Has(outbox, AskOf(p))' => Has(outbox, AskOf(p))
    BY DEF Receive, Settle, asker, hub, bridge
  <2>4. CASE p # q
    <3>1. Leaves(p)
      BY <2>1, <2>2, <2>3, <2>4 DEF Leaves, NoTaking, NoSlot, Open, Ends, QuestionConstants,
         Receive, Settle, asker, hub, bridge, owner
    <3>. QED  BY LeftAlone, <3>1 DEF EachOK
  <2>5. CASE p = q
    <3>1. Fate(p)'
      BY <2>1, <2>5, <1>1 DEF EachOK, Each, Fate, Ends, QuestionConstants, Receive, Settle,
         asker, hub, bridge, owner
    <3>2. Waiting(p)'
        <4>1. slot'.id # q /\ taking'.id # q
        BY <2>5 DEF EachOK, Each, Fate, Waiting, Answered, QuestionConstants, Receive,
           Settle, hub, bridge
      <4>2. entry'[q] # "none"
        <5>1. entry[q] # "none"
          BY DEF EachOK, Each, Answered, Receive
        <5>2. entry'[q] \in {entry[q], "Failed", channel[q]} /\ channel[q] # "none"
          BY DEF Typed, TypedHub, Receive, Settle
        <5>. QED  BY <5>1, <5>2
      <4>. QED  BY <4>1, <4>2, <2>5 DEF Waiting
    <3>3. Answered(p)'
      BY <2>1, <2>2, <2>3, <2>5, <1>1 DEF EachOK, Each, Fate, Waiting, Answered, Known,
         Asked, Asking, Typed, TypedAsker, TypedHub, TypedBridge, TypedOwner, NoTaking,
         NoSlot, Open, Ends, QuestionConstants, Receive, Settle, asker, hub, bridge, owner
    <3>. QED  BY <3>1, <3>2, <3>3 DEF Each
  <2>. QED  BY <2>4, <2>5
<1>4. EachOK'
  BY <1>3 DEF EachOK
<1>5. DeliveryOK' /\ TakingOK'
  BY DEF DeliveryOK, First, TakingOK, Receive, Settle, asker, hub, bridge, owner
<1>. QED  BY <1>1, <1>2, <1>4, <1>5

LEMMA GiveUpKeeps ==
  ASSUME QuestionConstants, IInv, NEW q \in Questions, GiveUp(q)
  PROVE  IInv'
<1>. USE DEF IInv
<1>1. Typed'
  <2>1. TypedAsker'
    <3>1. CASE slot.at # None
      BY ZenonT(60), <3>1 DEF Typed, TypedAsker, Ends, Open, GiveUp, Settle, Overdue
    <3>2. CASE slot.at = None
      BY <3>2 DEF Typed, TypedAsker, Ends, Open, GiveUp, Settle, Overdue
    <3>. QED  BY <3>1, <3>2
  <2>2. TypedHub'
    <3>1. notices' \in Seq(Notice)
      <4>1. notices' = notices \/ notices' = Append(notices, OverOf(q))
        BY DEF GiveUp, OverOf
      <4>2. notices \in Seq(Notice) /\ Append(notices, OverOf(q)) \in Seq(Notice)
        BY Notices, Records DEF Typed, TypedHub
      <4>. QED  BY <4>1, <4>2
    <3>2. awaited' \subseteq {"ask", "over"} \X Questions
      BY DEF Typed, TypedHub, GiveUp
    <3>3. slot' \in [id : Questions \cup {None}, at : Nat \cup {None}]
      BY DEF GiveUp, NoSlot
    <3>4. channel' \in [Questions -> {"open", "lost", "Yes", "No"}]
      BY DEF Typed, TypedHub, GiveUp, Dropped
    <3>. QED  BY <3>1, <3>2, <3>3, <3>4 DEF TypedHub
  <2>3. TypedBridge' /\ TypedOwner'
    BY DEF Typed, TypedBridge, TypedOwner, GiveUp, Dropped, Settle, Overdue, asker, hub,
       bridge
  <2>. QED  BY <2>1, <2>2, <2>3 DEF Typed
<1>2. DeliveryOK'
  BY <1>1, Deliveries, Records DEF DeliveryOK, First, Typed, Answered, Known, NoTaking,
     NoSlot, Open, Ends, QuestionConstants, GiveUp, Dropped, Settle, Overdue, asker, hub,
     bridge
<1>3. YesOK'
  BY <1>1 DEF YesOK, Meant, Typed, TypedAsker, TypedHub, NoTaking, NoSlot, Open, Ends,
     QuestionConstants, GiveUp, Dropped, Settle, Overdue, asker, hub, bridge
<1>4. ASSUME NEW p \in Questions PROVE Each(p)'
  <2>q. /\ \A x : Has(notices', x) => Has(notices, x) \/ x = OverOf(q)
        /\ UNCHANGED <<storing, outbox, told>>
    <3>1. CASE slot.at # None /\ up
      <4>1. notices' = Append(notices, OverOf(q))
        BY <3>1 DEF GiveUp, OverOf
      <4>. QED  BY <4>1, Notices, Records DEF Typed, TypedHub, GiveUp, bridge
    <3>2. CASE ~(slot.at # None /\ up)
      <4>1. notices' = notices
        BY <3>2 DEF GiveUp
      <4>. QED  BY <4>1 DEF GiveUp, bridge
    <3>. QED  BY <3>1, <3>2
  <2>1. Closing(p)' => Closing(p) \/ p = q
    BY <2>q, Records DEF Closing
  <2>2. Asking(p)' => Asking(p)
    BY <2>q, Records DEF Asking
  <2>3. Has(outbox, AskOf(p))' => Has(outbox, AskOf(p))
    BY <2>q
  <2>4. CASE p # q
    <3>1. Leaves(p)
      BY <2>1, <2>2, <2>3, <2>4 DEF Leaves, Typed, TypedAsker, TypedHub, TypedBridge,
         TypedOwner, NoTaking, NoSlot, Open, Ends, QuestionConstants, GiveUp, Dropped,
         Settle, Overdue, asker, hub, bridge
    <3>. QED  BY LeftAlone, <3>1 DEF EachOK
  <2>5. CASE p = q
    <3>1. Fate(p)'
      BY <2>1, <2>5, <1>1 DEF EachOK, Each, Fate, Waiting, TypedOwner, NoTaking, NoSlot,
         Open, Ends, QuestionConstants, GiveUp, Dropped, Settle, Overdue, asker, hub,
         bridge, owner
    <3>2. Waiting(p)'
        <4>1. slot'.id # q /\ taking'.id # q
        BY <2>5 DEF EachOK, Each, Fate, Waiting, Answered, Known, Asked, NoSlot,
           QuestionConstants, GiveUp, Settle, Overdue, bridge
      <4>2. entry'[q] # "none"
        BY DEF Answered, Typed, TypedAsker, Ends, Open, GiveUp, Settle, Overdue
      <4>. QED  BY <4>1, <4>2, <2>5 DEF Waiting
    <3>3. Answered(p)'
      BY <2>1, <2>2, <2>3, <2>5, <1>1 DEF EachOK, Each, Fate, Waiting, Answered, Known,
         Asked, Asking, Typed, TypedAsker, TypedHub, TypedBridge, TypedOwner, NoTaking,
         NoSlot, Open, Ends, QuestionConstants, GiveUp, Dropped, Settle, Overdue, asker,
         hub, bridge
    <3>. QED  BY <3>1, <3>2, <3>3 DEF Each
  <2>. QED  BY <2>4, <2>5
<1>5. EachOK'
  BY <1>4 DEF EachOK
<1>6. TakingOK'
  BY DEF TakingOK, GiveUp, Overdue, asker, hub, bridge
<1>. QED  BY <1>1, <1>2, <1>3, <1>5, <1>6

LEMMA StopWaitingKeeps ==
  ASSUME QuestionConstants, IInv, NEW q \in Questions, StopWaiting(q)
  PROVE  IInv'
<1>. USE DEF IInv
<1>1. Typed'
  <2>1. TypedHub'
    BY DEF Typed, TypedHub, NoSlot, QuestionConstants, StopWaiting, asker, hub, bridge
  <2>2. TypedAsker' /\ TypedBridge' /\ TypedOwner'
    BY DEF Typed, TypedAsker, TypedBridge, TypedOwner, StopWaiting, asker, hub, bridge,
       owner
  <2>. QED  BY <2>1, <2>2 DEF Typed
<1>2. ASSUME NEW p \in Questions PROVE Each(p)'
  <2>1. Closing(p)' => Closing(p)
    BY DEF Closing, StopWaiting, hub, bridge, owner
  <2>2. Asking(p)' => Asking(p)
    BY DEF Asking, StopWaiting, hub, bridge, owner
  <2>3. Has(outbox, AskOf(p))' => Has(outbox, AskOf(p))
    BY DEF StopWaiting, hub, bridge, owner
  <2>4. CASE p # q
    <3>1. Leaves(p)
      BY <2>1, <2>2, <2>3, <2>4 DEF Leaves, StopWaiting, asker, hub, bridge, owner
    <3>. QED  BY LeftAlone, <3>1 DEF EachOK
  <2>5. CASE p = q
    <3>1. Fate(p)'
      BY <2>1, <2>5, <1>1 DEF EachOK, Each, Fate, TypedHub, TypedBridge, TypedOwner,
         NoTaking, NoSlot, Open, Ends, QuestionConstants, StopWaiting, asker, hub, bridge,
         owner
    <3>2. Waiting(p)'
      BY <2>5, <1>1 DEF EachOK, Each, Fate, Waiting, QuestionConstants, StopWaiting, asker,
         hub, bridge, owner
    <3>3. Answered(p)'
      BY <2>1, <2>2, <2>3, <2>5, <1>1 DEF EachOK, Each, Fate, Waiting, Answered, Known,
         Asked, Asking, Typed, Ends, QuestionConstants, StopWaiting, asker, hub, bridge,
         owner
    <3>. QED  BY <3>1, <3>2, <3>3 DEF Each
  <2>. QED  BY <2>4, <2>5
<1>3. EachOK'
  BY <1>2 DEF EachOK
<1>4. DeliveryOK' /\ TakingOK' /\ YesOK'
  BY DEF DeliveryOK, First, TakingOK, YesOK, Meant, StopWaiting, asker, hub, bridge, owner
<1>. QED  BY <1>1, <1>3, <1>4

LEMMA HearKeeps ==
  ASSUME QuestionConstants, IInv, NEW q \in Questions, Hear(q)
  PROVE  IInv'
<1>. USE DEF IInv
<1>1. Typed'
  <2>1. TypedAsker'
    BY DEF Typed, TypedAsker, QuestionConstants, Hear, asker, hub, bridge, owner
  <2>2. TypedHub' /\ TypedBridge' /\ TypedOwner'
    BY DEF Typed, TypedHub, TypedBridge, TypedOwner, Hear, asker, hub, bridge, owner
  <2>. QED  BY <2>1, <2>2 DEF Typed
<1>2. YesOK'
  BY <1>1 DEF YesOK, Meant, Typed, TypedAsker, Ends, QuestionConstants, Hear, asker, hub,
     bridge, owner
<1>3. DeliveryOK' /\ TakingOK' /\ EachOK'
  BY DEF DeliveryOK, First, TakingOK, EachOK, Each, Fate, Waiting, Answered, Known, Asked,
     Asking, Closing, Hear, asker, hub, bridge, owner
<1>. QED  BY <1>1, <1>2, <1>3

LEMMA CancelKeeps ==
  ASSUME QuestionConstants, IInv, NEW q \in Questions, Cancel(q)
  PROVE  IInv'
<1>. USE DEF IInv
<1>1. Typed'
  <2>1. TypedAsker'
    BY DEF Typed, TypedAsker, QuestionConstants, Cancel, asker, hub, bridge, owner
  <2>2. TypedHub' /\ TypedBridge' /\ TypedOwner'
    BY DEF Typed, TypedHub, TypedBridge, TypedOwner, Cancel, asker, hub, bridge, owner
  <2>. QED  BY <2>1, <2>2 DEF Typed
<1>2. YesOK'
  BY <1>1 DEF YesOK, Meant, Typed, TypedAsker, Ends, QuestionConstants, Cancel, asker, hub,
     bridge, owner
<1>3. DeliveryOK' /\ TakingOK' /\ EachOK'
  BY DEF DeliveryOK, First, TakingOK, EachOK, Each, Fate, Waiting, Answered, Known, Asked,
     Asking, Closing, Cancel, asker, hub, bridge, owner
<1>. QED  BY <1>1, <1>2, <1>3

LEMMA TakeNoticeKeeps ==
  ASSUME QuestionConstants, IInv, TakeNotice
  PROVE  IInv'
<1>. USE DEF IInv
<1>1. Typed'
  <2>1. TypedHub'
    BY Notices, Records DEF Typed, TypedHub, TypedBridge, TypedOwner, NoSlot,
       QuestionConstants, TakeNotice, Unlocked, asker, hub, bridge, owner
  <2>2. TypedBridge'
    BY DEF Typed, TypedBridge, TypedHub, NoTaking, QuestionConstants, TakeNotice, Unlocked,
       asker, hub, bridge, owner
  <2>3. TypedAsker' /\ TypedOwner'
    BY DEF Typed, TypedAsker, TypedOwner, TakeNotice, Unlocked, asker, hub, bridge, owner
  <2>. QED  BY <2>1, <2>2, <2>3 DEF Typed
<1>2. ASSUME NEW p \in Questions PROVE Each(p)'
  <2>1. Closing(p)' => Closing(p)
    BY Notices, Deliveries, Records DEF Typed, TypedAsker, TypedHub, TypedBridge,
       TypedOwner, NoTaking, NoSlot, Open, Ends, QuestionConstants, Closing, TakeNotice,
       Unlocked, asker, hub, bridge, owner
  <2>2. Asking(p)' => Asking(p)
    BY Notices, Deliveries, Records DEF Typed, TypedAsker, TypedHub, TypedBridge,
       TypedOwner, NoTaking, NoSlot, Open, Ends, QuestionConstants, Asking, TakeNotice,
       Unlocked, asker, hub, bridge, owner
  <2>3. Has(outbox, AskOf(p))' => Has(outbox, AskOf(p))
    BY DEF QuestionConstants, Asking, TakeNotice
  <2>4. Leaves(p)
    BY <2>1, <2>2, <2>3 DEF Leaves, Typed, NoSlot, Open, Ends, QuestionConstants,
       TakeNotice, Unlocked, asker, hub, bridge, owner
  <2>. QED  BY LeftAlone, <2>4 DEF EachOK
<1>3. EachOK'
  BY <1>2 DEF EachOK
<1>4. DeliveryOK' /\ TakingOK' /\ YesOK'
  BY DEF DeliveryOK, First, TakingOK, YesOK, Meant, TakeNotice, Unlocked, asker, hub,
     bridge, owner
<1>. QED  BY <1>1, <1>3, <1>4

LEMMA StoreNoticeKeeps ==
  ASSUME QuestionConstants, IInv, StoreNotice
  PROVE  IInv'
<1>. USE DEF IInv
<1>1. Typed'
  <2>1. TypedHub'
    BY Notices, Records DEF Typed, TypedHub, TypedBridge, TypedOwner, NoSlot,
       QuestionConstants, StoreNotice, asker, hub, bridge
  <2>2. TypedBridge'
    BY Notices, Deliveries, Records DEF Typed, TypedBridge, TypedHub, NoTaking,
       QuestionConstants, StoreNotice, asker, hub, bridge, owner
  <2>3. TypedAsker' /\ TypedOwner'
    BY DEF Typed, TypedAsker, TypedOwner, StoreNotice, asker, hub, bridge, owner
  <2>. QED  BY <2>1, <2>2, <2>3 DEF Typed
<1>2. DeliveryOK'
  BY <1>1, Deliveries, Records DEF DeliveryOK, First, Typed, QuestionConstants, StoreNotice,
     asker, hub, bridge, owner
<1>3. ASSUME NEW p \in Questions PROVE Each(p)'
  <2>q. /\ \A x : Has(outbox', x) => Has(outbox, x) \/ x = storing
        /\ storing' = None /\ UNCHANGED <<notices, told>>
    BY Deliveries, Records DEF Typed, TypedBridge, StoreNotice, owner
  <2>1. Closing(p)' => Closing(p)
    BY <2>q, Records DEF Closing
  <2>2. Asking(p)' => Asking(p)
    BY <2>q, Records DEF Asking
  <2>3. Has(outbox, AskOf(p))' => Has(outbox, AskOf(p)) \/ storing = AskOf(p)
    BY <2>q
  <2>4. CASE p # storing.id
    <3>1. Leaves(p)
      BY <2>1, <2>2, <2>3, <2>4, Records DEF Leaves, Typed, TypedBridge, StoreNotice, asker,
         owner
    <3>. QED  BY LeftAlone, <3>1 DEF EachOK
  <2>5. CASE p = storing.id
    <3>1. Fate(p)'
      BY <2>1, <2>5, <1>1 DEF EachOK, Each, Fate, TypedHub, TypedBridge, TypedOwner,
         NoTaking, NoSlot, Open, Ends, QuestionConstants, StoreNotice, asker, hub, bridge,
         owner
    <3>2. Waiting(p)'
      BY <2>5, <1>1 DEF EachOK, Each, Fate, Waiting, QuestionConstants, StoreNotice, asker,
         hub, bridge, owner
    <3>3. Answered(p)'
        <4>1. Known(p) => Known(p)'
        BY DEF Known, Asked, StoreNotice, asker
      <4>2. storing = AskOf(p) => Known(p)'
        <5>1. storing = AskOf(p) => storing.kind = "ask" /\ storing.id = p
          BY Records
        <5>2. storing = AskOf(p) => Asked(p)
          BY DEF EachOK, Each, Answered, Asking
        <5>. QED  BY <5>1, <5>2 DEF Known, Asked, StoreNotice, asker
      <4>3. (Asking(p) \/ Closing(p) => Asked(p))'
        BY <2>1, <2>2 DEF EachOK, Each, Answered, Asked, StoreNotice, asker
      <4>. QED  BY <2>3, <4>1, <4>2, <4>3 DEF EachOK, Each, Answered, StoreNotice, asker,
                   owner
    <3>. QED  BY <3>1, <3>2, <3>3 DEF Each
  <2>. QED  BY <2>4, <2>5
<1>4. EachOK'
  BY <1>3 DEF EachOK
<1>5. TakingOK' /\ YesOK'
  BY DEF TakingOK, YesOK, Meant, StoreNotice, asker, hub, bridge, owner
<1>. QED  BY <1>1, <1>2, <1>4, <1>5

LEMMA CheckFirstKeeps ==
  ASSUME QuestionConstants, IInv, CheckFirst
  PROVE  IInv'
<1>. USE DEF IInv
<1>1. Typed'
  <2>1. TypedBridge'
    <3>1. CASE First.kind = "ask" /\ slot.id # First.id
      BY DEF Typed, TypedBridge, CheckFirst, Delivering, asker, hub, bridge, owner
    <3>2. CASE ~(First.kind = "ask" /\ slot.id # First.id)
      BY DEF Typed, TypedBridge, CheckFirst, Delivering, asker, hub, bridge, owner
    <3>. QED  BY <3>1, <3>2
  <2>2. TypedAsker' /\ TypedHub' /\ TypedOwner'
    BY DEF Typed, TypedAsker, TypedHub, TypedOwner, CheckFirst, Unlocked, Delivering, First,
       asker, hub, bridge, owner
  <2>. QED  BY <2>1, <2>2 DEF Typed
<1>2. DeliveryOK'
  BY <1>1, Deliveries, Records DEF DeliveryOK, First, Typed, Answered, Known, NoTaking,
     NoSlot, Open, Ends, QuestionConstants, CheckFirst, Unlocked, Delivering, First, asker,
     hub, bridge, owner
<1>3. ASSUME NEW p \in Questions PROVE Each(p)'
  <2>q. /\ \A x : Has(outbox', x) => Has(outbox, x)
        /\ UNCHANGED <<notices, storing, told>>
    <3>1. CASE outbox' = outbox
      BY <3>1 DEF CheckFirst, hub, owner
    <3>2. CASE outbox' = Tail(outbox)
      BY <3>2, Deliveries DEF Typed, TypedBridge, CheckFirst, Delivering, hub, owner
    <3>. QED  BY <3>1, <3>2 DEF CheckFirst
  <2>1. Closing(p)' => Closing(p)
    BY <2>q DEF Closing
  <2>2. Asking(p)' => Asking(p)
    BY <2>q DEF Asking
  <2>3. Has(outbox, AskOf(p))' => Has(outbox, AskOf(p))
    BY <2>q
  <2>4. Leaves(p)
    BY <2>1, <2>2, <2>3 DEF Leaves, Typed, NoSlot, Open, Ends, QuestionConstants,
       CheckFirst, Unlocked, Delivering, First, asker, hub, bridge, owner
  <2>. QED  BY LeftAlone, <2>4 DEF EachOK
<1>4. EachOK'
  BY <1>3 DEF EachOK
<1>5. TakingOK' /\ YesOK'
  BY DEF TakingOK, YesOK, Meant, CheckFirst, Unlocked, Delivering, First, asker, hub,
     bridge, owner
<1>. QED  BY <1>1, <1>2, <1>4, <1>5

LEMMA SendKeeps ==
  ASSUME QuestionConstants, IInv, Send
  PROVE  IInv'
<1>. USE DEF IInv
<1>1. Typed'
  <2>1. TypedBridge'
    BY DEF Typed, TypedBridge, TypedHub, NoTaking, QuestionConstants, Send
  <2>2. TypedOwner'
    BY DEF Typed, TypedOwner, Send
  <2>3. TypedAsker' /\ TypedHub'
    BY DEF Typed, TypedAsker, TypedHub, Send, asker, hub, bridge, owner
  <2>. QED  BY <2>1, <2>2, <2>3 DEF Typed
<1>2. DeliveryOK'
  BY <1>1, Deliveries, Records DEF DeliveryOK, First, Typed, TypedAsker, TypedHub,
     TypedBridge, TypedOwner, EachOK, Each, QuestionConstants, Send, Delivering, First,
     asker, hub, bridge, owner
<1>3. TakingOK'
  BY <1>1 DEF TakingOK, Typed, TypedAsker, TypedHub, Open, Ends, QuestionConstants, Send,
     Delivering, First, asker, hub, bridge, owner
<1>4. YesOK'
  BY <1>1 DEF YesOK, Meant, Typed, TypedAsker, TypedHub, NoTaking, NoSlot, Open, Ends,
     QuestionConstants, Send, Delivering, First, asker, hub, bridge, owner
<1>5. ASSUME NEW p \in Questions PROVE Each(p)'
  <2>1. Closing(p)' => Closing(p)
    BY Notices, Deliveries, Records DEF Typed, TypedAsker, TypedHub, TypedBridge,
       TypedOwner, NoTaking, NoSlot, Open, Ends, QuestionConstants, Closing, Send,
       Delivering, First, asker, hub, bridge
  <2>2. Asking(p)' => Asking(p)
    BY DEF Open, Ends, QuestionConstants, Asking, Send, Delivering, First, asker, hub,
       bridge
  <2>3. Has(outbox, AskOf(p))' => Has(outbox, AskOf(p))
    BY DEF Open, Ends, QuestionConstants, Asking, Send
  <2>4. Leaves(p)
    BY <2>1, <2>2, <2>3 DEF Leaves, Typed, NoSlot, Open, Ends, QuestionConstants, Send,
       Delivering, First, asker, hub, bridge
  <2>. QED  BY LeftAlone, <2>4 DEF EachOK
<1>6. EachOK'
  BY <1>5 DEF EachOK
<1>. QED  BY <1>1, <1>2, <1>3, <1>4, <1>6

LEMMA RetryKeeps ==
  ASSUME QuestionConstants, IInv, Retry
  PROVE  IInv'
<1>. USE DEF IInv
<1>1. Typed'
  <2>1. TypedBridge'
    BY DEF Typed, TypedBridge, QuestionConstants, Retry, Delivering, asker, hub, bridge,
       owner
  <2>2. TypedAsker' /\ TypedHub' /\ TypedOwner'
    BY DEF Typed, TypedAsker, TypedHub, TypedOwner, Retry, Delivering, asker, hub, bridge,
       owner
  <2>. QED  BY <2>1, <2>2 DEF Typed
<1>2. DeliveryOK'
  BY <1>1, Deliveries, Records DEF DeliveryOK, First, Typed, Answered, Known, NoTaking,
     NoSlot, Open, Ends, QuestionConstants, Retry, Delivering, asker, hub, bridge, owner
<1>3. TakingOK' /\ YesOK' /\ EachOK'
  BY DEF TakingOK, YesOK, Meant, EachOK, Each, Fate, Waiting, Answered, Known, Asked,
     Asking, Closing, Retry, Delivering, asker, hub, bridge, owner
<1>. QED  BY <1>1, <1>2, <1>3

LEMMA DeliveredKeeps ==
  ASSUME QuestionConstants, IInv, Delivered
  PROVE  IInv'
<1>. USE DEF IInv
<1>1. Typed'
  <2>1. TypedHub'
    BY DEF Typed, TypedHub, TypedBridge, TypedOwner, NoSlot, QuestionConstants, Delivered
  <2>2. TypedBridge'
    BY DEF Typed, TypedBridge, TypedHub, NoTaking, QuestionConstants, Delivered, owner
  <2>3. TypedAsker' /\ TypedOwner'
    BY DEF Typed, TypedAsker, TypedOwner, Delivered, Unlocked, Delivering, First, asker,
       hub, bridge, owner
  <2>. QED  BY <2>1, <2>2, <2>3 DEF Typed
<1>2. DeliveryOK'
  BY <1>1, Deliveries, Records DEF DeliveryOK, First, Typed, Answered, Known, NoTaking,
     NoSlot, Open, Ends, QuestionConstants, Delivered, Unlocked, Delivering, First, asker,
     hub, bridge, owner
<1>3. ASSUME NEW p \in Questions PROVE Each(p)'
  <2>1. Closing(p)' => Closing(p)
    BY DEF Closing, Delivered, owner
  <2>2. Asking(p)' => Asking(p)
    BY DEF Asking, Delivered
  <2>3. Has(outbox, AskOf(p))' => Has(outbox, AskOf(p))
    BY DEF Asking, Delivered
  <2>4. CASE p # First.id
    <3>1. Leaves(p)
      BY <2>1, <2>2, <2>3, <2>4 DEF Leaves, NoTaking, NoSlot, Open, Ends, QuestionConstants,
         Delivered, Unlocked, Delivering, First, asker, hub, bridge, owner
    <3>. QED  BY LeftAlone, <3>1 DEF EachOK
  <2>5. CASE p = First.id
    <3>1. Fate(p)'
      BY <2>1, <2>5, <1>1 DEF EachOK, Each, Fate, Waiting, TypedOwner, NoTaking, NoSlot,
         Open, Ends, QuestionConstants, Delivered, Unlocked, Delivering, First, asker, hub,
         bridge, owner
    <3>2. Waiting(p)'
      BY <2>5, <1>1 DEF EachOK, Each, Fate, Waiting, TypedBridge, TypedOwner, NoTaking,
         NoSlot, Open, Ends, QuestionConstants, Delivered, Unlocked, Delivering, First,
         asker, hub, bridge
    <3>3. Answered(p)'
        <4>1. First.kind = "ask" => Known(p)
        <5>1. Has(outbox, Head(outbox))
          BY Deliveries DEF Typed, TypedBridge, Delivered, Delivering
        <5>2. First.kind = "ask" => First = AskOf(p)
          BY <2>5, Deliveries, Records DEF Typed, TypedBridge, Delivered, Delivering, First
        <5>. QED  BY <5>1, <5>2 DEF EachOK, Each, Answered, First
      <4>2. Known(p)' <=> Known(p)
        BY DEF Known, Asked, Delivered, asker
      <4>3. slot' = slot \/ First.kind = "ask"
        BY DEF Delivered
      <4>. QED  BY <2>1, <2>2, <2>3, <4>1, <4>2, <4>3 DEF EachOK, Each, Answered, Asked,
                   Delivered, Delivering, asker, owner
    <3>. QED  BY <3>1, <3>2, <3>3 DEF Each
  <2>. QED  BY <2>4, <2>5
<1>4. EachOK'
  BY <1>3 DEF EachOK
<1>5. TakingOK' /\ YesOK'
  BY DEF TakingOK, YesOK, Meant, Delivered, Unlocked, Delivering, First, asker, hub, bridge,
     owner
<1>. QED  BY <1>1, <1>2, <1>4, <1>5

LEMMA RefuseKeeps ==
  ASSUME QuestionConstants, IInv, Refuse
  PROVE  IInv'
<1>. USE DEF IInv
<1>1. Typed'
  <2>1. TypedHub'
    <3>1. CASE First.kind = "ask" /\ slot.id = First.id
      BY DEF Typed, TypedHub, TypedBridge, NoSlot, Refuse, Delivering, First, asker, hub,
         bridge, owner
    <3>2. CASE ~(First.kind = "ask" /\ slot.id = First.id)
      BY DEF Typed, TypedHub, TypedBridge, NoSlot, Refuse, Delivering, First, asker, hub,
         bridge, owner
    <3>. QED  BY <3>1, <3>2
  <2>2. TypedBridge'
    BY DEF Typed, TypedBridge, TypedHub, NoTaking, QuestionConstants, Refuse, hub, bridge,
       owner
  <2>3. TypedAsker' /\ TypedOwner'
    BY DEF Typed, TypedAsker, TypedOwner, Refuse, asker, hub, bridge, owner
  <2>. QED  BY <2>1, <2>2, <2>3 DEF Typed
<1>2. DeliveryOK'
  BY <1>1, Deliveries, Records DEF DeliveryOK, First, Typed, Answered, Known, NoTaking,
     NoSlot, Open, Ends, QuestionConstants, Refuse, Delivering, First, asker, hub, bridge,
     owner
<1>3. YesOK'
  BY <1>1 DEF YesOK, Meant, Typed, TypedAsker, TypedHub, NoTaking, NoSlot, Open, Ends,
     QuestionConstants, Refuse, Delivering, First, asker, hub, bridge, owner
<1>4. ASSUME NEW p \in Questions PROVE Each(p)'
  <2>1. Closing(p)' => Closing(p)
    BY DEF Closing, Refuse, bridge, owner
  <2>2. Asking(p)' => Asking(p)
    BY DEF Asking, Refuse
  <2>3. Has(outbox, AskOf(p))' => Has(outbox, AskOf(p))
    BY DEF Refuse
  <2>4. CASE p # First.id
    <3>1. Leaves(p)
      BY <2>1, <2>2, <2>3, <2>4 DEF Leaves, Typed, TypedAsker, TypedHub, TypedBridge,
         TypedOwner, NoTaking, NoSlot, Open, Ends, QuestionConstants, Refuse, Delivering,
         First, asker, hub, bridge, owner
    <3>. QED  BY LeftAlone, <3>1 DEF EachOK
  <2>5. CASE p = First.id
    <3>1. Fate(p)'
      BY <2>1, <2>5, <1>1 DEF EachOK, Each, Fate, TypedHub, TypedBridge, TypedOwner,
         NoTaking, NoSlot, Open, Ends, QuestionConstants, Refuse, Delivering, First, asker,
         hub, bridge, owner
    <3>2. Waiting(p)'
        <4>1. CASE First.kind = "ask" /\ slot.id = First.id
        <5>1. slot'.id # p /\ taking'.id # p
          BY <4>1, <2>5 DEF EachOK, Each, Fate, NoSlot, QuestionConstants, Refuse
        <5>2. entry'[p] # "none"
          BY <4>1, <2>5 DEF EachOK, Each, Waiting, Open, Refuse, asker
        <5>. QED  BY <5>1, <5>2 DEF Waiting
      <4>2. CASE ~(First.kind = "ask" /\ slot.id = First.id)
        BY <4>2 DEF EachOK, Each, Waiting, Refuse, asker
      <4>. QED  BY <4>1, <4>2
    <3>3. Answered(p)'
      BY <2>1, <2>2, <2>3, <2>5, <1>1 DEF EachOK, Each, Fate, Waiting, Answered, Known,
         Asked, Asking, Typed, TypedAsker, TypedHub, TypedBridge, TypedOwner, NoTaking,
         NoSlot, Open, Ends, QuestionConstants, Refuse, Delivering, First, asker, hub,
         bridge, owner
    <3>. QED  BY <3>1, <3>2, <3>3 DEF Each
  <2>. QED  BY <2>4, <2>5
<1>5. EachOK'
  BY <1>4 DEF EachOK
<1>6. TakingOK'
  BY DEF TakingOK, Refuse, bridge, owner
<1>. QED  BY <1>1, <1>2, <1>3, <1>5, <1>6

LEMMA RemoveFirstKeeps ==
  ASSUME QuestionConstants, IInv, RemoveFirst
  PROVE  IInv'
<1>. USE DEF IInv
<1>1. Typed'
  <2>1. TypedBridge'
    BY Notices, Deliveries, Records DEF Typed, TypedBridge, TypedHub, NoTaking,
       QuestionConstants, RemoveFirst, Unlocked, Delivering, First, asker, hub, bridge,
       owner
  <2>2. TypedAsker' /\ TypedHub' /\ TypedOwner'
    BY DEF Typed, TypedAsker, TypedHub, TypedOwner, RemoveFirst, Unlocked, Delivering,
       First, asker, hub, bridge, owner
  <2>. QED  BY <2>1, <2>2 DEF Typed
<1>2. DeliveryOK'
  BY <1>1, Deliveries, Records DEF DeliveryOK, First, Typed, Answered, Known, NoTaking,
     NoSlot, Open, Ends, QuestionConstants, RemoveFirst, Unlocked, Delivering, First, asker,
     hub, bridge, owner
<1>3. ASSUME NEW p \in Questions PROVE Each(p)'
  <2>1. Closing(p)' => Closing(p)
    BY Notices, Deliveries, Records DEF Typed, TypedAsker, TypedHub, TypedBridge,
       TypedOwner, NoTaking, NoSlot, Open, Ends, QuestionConstants, Closing, RemoveFirst,
       Unlocked, Delivering, First, asker, hub, bridge, owner
  <2>2. Asking(p)' => Asking(p)
    BY Notices, Deliveries, Records DEF Typed, TypedAsker, TypedHub, TypedBridge,
       TypedOwner, NoTaking, NoSlot, Open, Ends, QuestionConstants, Asking, RemoveFirst,
       Unlocked, Delivering, First, asker, hub, bridge, owner
  <2>3. Has(outbox, AskOf(p))' => Has(outbox, AskOf(p))
    BY Notices, Deliveries, Records DEF Typed, TypedAsker, TypedHub, TypedBridge,
       TypedOwner, NoTaking, NoSlot, Open, Ends, QuestionConstants, Asking, RemoveFirst,
       Unlocked, Delivering, First, asker, hub, bridge, owner
  <2>4. Leaves(p)
    BY <2>1, <2>2, <2>3 DEF Leaves, Typed, NoSlot, Open, Ends, QuestionConstants,
       RemoveFirst, Unlocked, Delivering, First, asker, hub, bridge, owner
  <2>. QED  BY LeftAlone, <2>4 DEF EachOK
<1>4. EachOK'
  BY <1>3 DEF EachOK
<1>5. TakingOK' /\ YesOK'
  BY DEF TakingOK, YesOK, Meant, RemoveFirst, Unlocked, Delivering, First, asker, hub,
     bridge, owner
<1>. QED  BY <1>1, <1>2, <1>4, <1>5

LEMMA TakeAnswerKeeps ==
  ASSUME QuestionConstants, IInv, NEW m \in Replies, TakeAnswer(m)
  PROVE  IInv'
<1>. USE DEF IInv
<1>1. Typed'
  <2>1. TypedHub'
    BY Notices, Records DEF Typed, TypedHub, TypedBridge, TypedOwner, NoSlot,
       QuestionConstants, TakeAnswer, AtHand, Unlocked, Answers, asker, hub, bridge, owner
  <2>2. TypedBridge'
    BY Notices, Deliveries, Records DEF Typed, TypedBridge, TypedHub, NoTaking,
       QuestionConstants, TakeAnswer, AtHand, Unlocked, Answers, asker, hub, bridge, owner
  <2>3. TypedAsker' /\ TypedOwner'
    BY DEF Typed, TypedAsker, TypedOwner, TakeAnswer, AtHand, Unlocked, Answers, asker, hub,
       bridge, owner
  <2>. QED  BY <2>1, <2>2, <2>3 DEF Typed
<1>2. DeliveryOK'
  BY <1>1, Deliveries, Records DEF DeliveryOK, First, Typed, Answered, Known, NoTaking,
     NoSlot, Open, Ends, QuestionConstants, TakeAnswer, AtHand, Unlocked, Answers, asker,
     hub, bridge, owner
<1>3. TakingOK'
  BY <1>1 DEF TakingOK, Typed, TypedAsker, TypedHub, TypedBridge, TypedOwner, DeliveryOK,
     NoTaking, NoSlot, Open, Ends, QuestionConstants, TakeAnswer, AtHand, Unlocked, Answers,
     asker, hub, bridge, owner
<1>4. ASSUME NEW p \in Questions PROVE Each(p)'
  <2>1. Closing(p)' => Closing(p)
    BY DEF Closing, TakeAnswer, owner
  <2>2. Asking(p)' => Asking(p)
    BY DEF Asking, TakeAnswer
  <2>3. Has(outbox, AskOf(p))' => Has(outbox, AskOf(p))
    BY DEF Asking, TakeAnswer
  <2>4. CASE p # slot.id
    <3>1. Leaves(p)
      BY <2>1, <2>2, <2>3, <2>4 DEF Leaves, NoTaking, NoSlot, Open, Ends, QuestionConstants,
         TakeAnswer, AtHand, Unlocked, Answers, asker, hub, bridge, owner
    <3>. QED  BY LeftAlone, <3>1 DEF EachOK
  <2>5. CASE p = slot.id
    <3>1. Fate(p)'
      BY <2>1, <2>5, <1>1 DEF EachOK, Each, Fate, Waiting, TypedOwner, NoTaking, NoSlot,
         Open, Ends, QuestionConstants, TakeAnswer, AtHand, Unlocked, Answers, asker, hub,
         bridge, owner
    <3>2. Waiting(p)'
      BY <2>5, <1>1 DEF EachOK, Each, Fate, Waiting, TypedBridge, TypedOwner, NoTaking,
         NoSlot, Open, Ends, QuestionConstants, TakeAnswer, AtHand, Unlocked, Answers,
         asker, hub, bridge
    <3>3. Answered(p)'
      BY <2>1, <2>2, <2>3, <2>5, <1>1 DEF EachOK, Each, Fate, Waiting, Answered, Known,
         Asked, Asking, Typed, TypedAsker, TypedHub, TypedBridge, TypedOwner, NoTaking,
         NoSlot, Open, Ends, QuestionConstants, TakeAnswer, AtHand, Unlocked, Answers,
         asker, hub, bridge, owner
    <3>. QED  BY <3>1, <3>2, <3>3 DEF Each
  <2>. QED  BY <2>4, <2>5
<1>5. EachOK'
  BY <1>4 DEF EachOK
<1>6. YesOK'
  BY DEF YesOK, Meant, TakeAnswer, AtHand, asker, hub, bridge, owner
<1>. QED  BY <1>1, <1>2, <1>3, <1>5, <1>6

LEMMA AcknowledgeKeeps ==
  ASSUME QuestionConstants, IInv, NEW m \in Replies, Acknowledge(m)
  PROVE  IInv'
<1>. USE DEF IInv
<1>1. Typed'
  <2>1. TypedHub'
    BY Notices, Records DEF Typed, TypedHub, TypedBridge, TypedOwner, NoSlot,
       QuestionConstants, Acknowledge, asker, hub, bridge
  <2>2. TypedBridge'
    BY Notices, Deliveries, Records DEF Typed, TypedBridge, TypedHub, NoTaking,
       QuestionConstants, Acknowledge, asker, hub, bridge
  <2>3. TypedOwner'
    BY DEF Typed, TypedOwner, Acknowledge, asker, hub, bridge
  <2>4. TypedAsker'
    BY DEF Typed, TypedAsker, Acknowledge, asker, hub, bridge
  <2>. QED  BY <2>1, <2>2, <2>3, <2>4 DEF Typed
<1>2. DeliveryOK'
  BY <1>1, Deliveries, Records DEF DeliveryOK, First, Typed, QuestionConstants, Acknowledge,
     asker, hub, bridge, owner
<1>3. TakingOK'
  BY <1>1 DEF TakingOK, Typed, TypedAsker, QuestionConstants, Acknowledge, asker, hub,
     bridge, owner
<1>4. YesOK'
  BY <1>1 DEF YesOK, Meant, Typed, TypedAsker, TypedHub, TypedBridge, TypedOwner, TakingOK,
     EachOK, Each, Waiting, NoTaking, NoSlot, Open, Ends, QuestionConstants, Acknowledge,
     asker, hub, bridge, owner
<1>5. ASSUME NEW p \in Questions PROVE Each(p)'
  <2>1. Closing(p)' => Closing(p)
    BY Notices, Deliveries, Records DEF Typed, TypedAsker, TypedHub, TypedBridge,
       TypedOwner, NoTaking, NoSlot, Open, Ends, QuestionConstants, Closing, Acknowledge,
       asker, hub, bridge
  <2>2. Asking(p)' => Asking(p)
    BY Notices, Deliveries, Records DEF Typed, TypedAsker, TypedHub, TypedBridge,
       TypedOwner, NoTaking, NoSlot, Open, Ends, QuestionConstants, Asking, Acknowledge,
       asker, hub, bridge
  <2>3. Has(outbox, AskOf(p))' => Has(outbox, AskOf(p))
    BY Notices, Deliveries, Records DEF Typed, TypedAsker, TypedHub, TypedBridge,
       TypedOwner, NoTaking, NoSlot, Open, Ends, QuestionConstants, Asking, Acknowledge,
       asker, hub, bridge
  <2>4. CASE p # taking.id
    <3>1. Leaves(p)
      BY <2>1, <2>2, <2>3, <2>4 DEF Leaves, NoTaking, NoSlot, Open, Ends, QuestionConstants,
         Acknowledge, asker, hub, bridge, owner
    <3>. QED  BY LeftAlone, <3>1 DEF EachOK
  <2>5. CASE p = taking.id
    <3>1. Fate(p)'
      BY <2>1, <2>5, <1>1 DEF EachOK, Each, Fate, TypedHub, TypedBridge, TypedOwner,
         NoTaking, NoSlot, Open, Ends, QuestionConstants, Acknowledge, asker, hub, bridge
    <3>2. Waiting(p)'
      BY <2>5, <1>1 DEF EachOK, Each, Fate, Waiting, TypedBridge, TypedOwner, NoTaking,
         NoSlot, Open, Ends, QuestionConstants, Acknowledge, asker, hub, bridge, owner
    <3>3. Answered(p)'
      BY <2>1, <2>2, <2>3, <2>5, <1>1 DEF EachOK, Each, Fate, Waiting, Answered, Known,
         Asked, Asking, Typed, TypedAsker, TypedHub, TypedBridge, TypedOwner, NoTaking,
         NoSlot, Open, Ends, QuestionConstants, Acknowledge, asker, hub, bridge, owner
    <3>. QED  BY <3>1, <3>2, <3>3 DEF Each
  <2>. QED  BY <2>4, <2>5
<1>6. EachOK'
  BY <1>5 DEF EachOK
<1>. QED  BY <1>1, <1>2, <1>3, <1>4, <1>6

LEMMA RunTurnKeeps ==
  ASSUME QuestionConstants, IInv, NEW m \in Replies, RunTurn(m)
  PROVE  IInv'
<1>. USE DEF IInv
<1>1. Typed'
  <2>1. TypedBridge'
    BY DEF Typed, TypedBridge, TypedHub, NoTaking, QuestionConstants, RunTurn
  <2>2. TypedAsker' /\ TypedHub' /\ TypedOwner'
    BY DEF Typed, TypedAsker, TypedHub, TypedOwner, RunTurn, AtHand, Unlocked, asker, hub,
       bridge
  <2>. QED  BY <2>1, <2>2 DEF Typed
<1>2. TakingOK'
  BY <1>1 DEF TakingOK, Typed, TypedAsker, TypedHub, Open, Ends, QuestionConstants, RunTurn,
     AtHand, Unlocked, asker, hub, bridge, owner
<1>3. YesOK'
  BY <1>1 DEF YesOK, Meant, Typed, TypedAsker, TypedHub, NoTaking, NoSlot, Open, Ends,
     QuestionConstants, RunTurn, AtHand, Unlocked, asker, hub, bridge, owner
<1>4. DeliveryOK' /\ EachOK'
  BY DEF DeliveryOK, First, EachOK, Each, Fate, Waiting, Answered, Known, Asked, Asking,
     Closing, RunTurn, AtHand, Unlocked, asker, hub, bridge, owner
<1>. QED  BY <1>1, <1>2, <1>3, <1>4

LEMMA WriteKeeps ==
  ASSUME QuestionConstants, IInv, NEW m \in Replies, NEW yes \in BOOLEAN, Write(m, yes)
  PROVE  IInv'
<1>. USE DEF IInv
<1>1. Typed'
  <2>1. TypedOwner'
    BY DEF Typed, TypedOwner, Write, asker, hub, bridge
  <2>2. TypedAsker' /\ TypedHub' /\ TypedBridge'
    BY DEF Typed, TypedAsker, TypedHub, TypedBridge, Write, asker, hub, bridge
  <2>. QED  BY <2>1, <2>2 DEF Typed
<1>2. TakingOK'
  BY <1>1 DEF TakingOK, Typed, TypedAsker, QuestionConstants, Write, asker, hub, bridge,
     owner
<1>3. YesOK'
  BY <1>1 DEF YesOK, Meant, Typed, TypedAsker, Ends, QuestionConstants, Write, asker, hub,
     bridge, owner
<1>4. DeliveryOK' /\ EachOK'
  BY DEF DeliveryOK, First, EachOK, Each, Fate, Waiting, Answered, Known, Asked, Asking,
     Closing, Write, asker, hub, bridge, owner
<1>. QED  BY <1>1, <1>2, <1>3, <1>4

LEMMA StopKeeps ==
  ASSUME QuestionConstants, IInv, Stop
  PROVE  IInv'
<1>. USE DEF IInv
<1>1. Typed'
  <2>1. TypedHub'
    <3>1. CASE taking.id = None
      BY DEF Typed, TypedHub, TypedBridge, NoTaking, Stop, asker, hub, bridge
    <3>2. CASE taking.id # None
      BY DEF Typed, TypedHub, TypedBridge, NoTaking, Stop, asker, hub, bridge
    <3>. QED  BY <3>1, <3>2
  <2>2. TypedBridge'
    BY DEF Typed, TypedBridge, TypedHub, NoTaking, QuestionConstants, Stop, asker, hub,
       bridge, owner
  <2>3. TypedOwner'
    BY DEF Typed, TypedOwner, Stop, asker, hub, bridge, owner
  <2>4. TypedAsker'
    BY DEF Typed, TypedAsker, Stop, asker, hub, bridge
  <2>. QED  BY <2>1, <2>2, <2>3, <2>4 DEF Typed
<1>2. DeliveryOK'
  BY <1>1, Deliveries, Records DEF DeliveryOK, First, Typed, QuestionConstants, Stop, asker,
     hub, bridge, owner
<1>3. TakingOK'
  BY <1>1 DEF TakingOK, Typed, TypedAsker, QuestionConstants, Stop, asker, hub, bridge,
     owner
<1>4. YesOK'
  BY <1>1 DEF YesOK, Meant, Typed, TypedAsker, Ends, QuestionConstants, Stop, asker, hub,
     bridge, owner
<1>5. ASSUME NEW p \in Questions PROVE Each(p)'
  <2>q. notices' = <<>> /\ storing' = None /\ UNCHANGED <<outbox, told>>
    BY DEF Stop, owner
  <2>1. Closing(p)' => Closing(p)
    BY <2>q, Notices, Records DEF Closing
  <2>2. Asking(p)' => Asking(p)
    BY <2>q, Notices, Records DEF Asking
  <2>3. Has(outbox, AskOf(p))' => Has(outbox, AskOf(p))
    BY <2>q
  <2>4. CASE p # taking.id
    <3>1. Leaves(p)
      BY <2>1, <2>2, <2>3, <2>4 DEF Leaves, NoTaking, NoSlot, Open, Ends, QuestionConstants,
         Stop, asker, hub, bridge, owner
    <3>. QED  BY LeftAlone, <3>1 DEF EachOK
  <2>5. CASE p = taking.id
    <3>1. Fate(p)'
      BY <2>1, <2>5, <1>1 DEF EachOK, Each, Fate, TypedHub, TypedBridge, TypedOwner,
         NoTaking, NoSlot, Open, Ends, QuestionConstants, Stop, asker, hub, bridge
    <3>2. Waiting(p)'
      BY <2>5, <1>1 DEF EachOK, Each, Fate, Waiting, TypedBridge, TypedOwner, NoTaking,
         NoSlot, Open, Ends, QuestionConstants, Stop, asker, hub, bridge, owner
    <3>3. Answered(p)'
      BY <2>1, <2>2, <2>3, <2>5, <1>1 DEF EachOK, Each, Fate, Waiting, Answered, Known,
         Asked, Asking, Typed, Ends, QuestionConstants, Stop, asker, hub, bridge, owner
    <3>. QED  BY <3>1, <3>2, <3>3 DEF Each
  <2>. QED  BY <2>4, <2>5
<1>6. EachOK'
  BY <1>5 DEF EachOK
<1>. QED  BY <1>1, <1>2, <1>3, <1>4, <1>6

LEMMA StartKeeps ==
  ASSUME QuestionConstants, IInv, Start
  PROVE  IInv'
<1>. USE DEF IInv
<1>1. Typed'
  <2>1. TypedBridge'
    BY DEF Typed, TypedBridge, QuestionConstants, Start, asker, hub, bridge, owner
  <2>2. TypedAsker' /\ TypedHub' /\ TypedOwner'
    BY DEF Typed, TypedAsker, TypedHub, TypedOwner, Start, asker, hub, bridge, owner
  <2>. QED  BY <2>1, <2>2 DEF Typed
<1>2. DeliveryOK' /\ TakingOK' /\ YesOK' /\ EachOK'
  BY DEF DeliveryOK, First, TakingOK, YesOK, Meant, EachOK, Each, Fate, Waiting, Answered,
     Known, Asked, Asking, Closing, Start, asker, hub, bridge, owner
<1>. QED  BY <1>1, <1>2

LEMMA RestartKeeps ==
  ASSUME QuestionConstants, IInv, Restart
  PROVE  IInv'
<1>. USE DEF IInv
<1>1. Typed'
  <2>1. TypedAsker'
    BY DEF Typed, TypedAsker, QuestionConstants, Restart, asker, hub, bridge, owner
  <2>2. TypedHub'
    BY DEF TypedHub, TypedBridge, TypedOwner, NoSlot, QuestionConstants, Restart, asker,
       hub, bridge
  <2>3. TypedBridge'
    BY DEF Typed, TypedBridge, TypedHub, NoTaking, QuestionConstants, Restart, asker, hub,
       bridge, owner
  <2>4. TypedOwner'
    BY DEF Typed, TypedOwner, Restart, asker, hub, bridge, owner
  <2>. QED  BY <2>1, <2>2, <2>3, <2>4 DEF Typed
<1>2. DeliveryOK'
  BY <1>1, Deliveries, Records DEF DeliveryOK, First, Typed, Answered, Known, NoTaking,
     NoSlot, Open, Ends, QuestionConstants, Restart, asker, hub, bridge, owner
<1>3. TakingOK'
  BY <1>1 DEF TakingOK, Typed, TypedAsker, QuestionConstants, Restart, asker, hub, bridge,
     owner
<1>4. YesOK'
  BY <1>1 DEF YesOK, Meant, Typed, TypedAsker, Ends, QuestionConstants, Restart, asker, hub,
     bridge, owner
<1>5. ASSUME NEW p \in Questions PROVE Each(p)'
  <2>q. notices' = <<>> /\ storing' = None /\ UNCHANGED <<outbox, told>>
    BY DEF Restart, owner
  <2>1. Closing(p)' => Closing(p)
    BY <2>q, Notices, Records DEF Closing
  <2>2. Asking(p)' => Asking(p)
    BY <2>q, Notices, Records DEF Asking
  <2>3. Has(outbox, AskOf(p))' => Has(outbox, AskOf(p))
    BY <2>q
  <2>4. /\ slot'.id # p /\ taking'.id # p
        /\ entry'[p] = IF entry[p] = "none" THEN "none" ELSE "gone"
        /\ task'[p] = IF task[p] = "none" THEN "none" ELSE "over"
        /\ channel'[p] = IF entry[p] = "none" THEN "open" ELSE "lost"
        /\ awaited' = {} /\ told' = told
    BY DEF Restart, NoSlot, NoTaking, QuestionConstants, owner
  <2>5. Each(p)
    BY DEF EachOK
  <2>6. Fate(p)'
    BY <2>1, <2>4, <2>5 DEF Each, Fate
  <2>7. Waiting(p)'
    BY <2>4 DEF Waiting
  <2>8. Answered(p)'
    BY <2>1, <2>2, <2>3, <2>4, <2>5 DEF Each, Answered, Known, Asked
  <2>. QED  BY <2>6, <2>7, <2>8 DEF Each
<1>6. EachOK'
  BY <1>5 DEF EachOK
<1>. QED  BY <1>1, <1>2, <1>3, <1>4, <1>6

LEMMA TickKeeps ==
  ASSUME QuestionConstants, IInv, Tick
  PROVE  IInv'
<1>. USE DEF IInv
<1>1. Typed'
  <2>1. TypedOwner'
    BY DEF Typed, TypedOwner, Tick, asker, hub, bridge, owner
  <2>2. TypedAsker' /\ TypedHub' /\ TypedBridge'
    BY DEF Typed, TypedAsker, TypedHub, TypedBridge, Tick, asker, hub, bridge, owner
  <2>. QED  BY <2>1, <2>2 DEF Typed
<1>2. DeliveryOK'
  BY <1>1, Deliveries, Records DEF DeliveryOK, First, Typed, TypedAsker, TypedHub,
     TypedBridge, TypedOwner, EachOK, Each, QuestionConstants, Tick, asker, hub, bridge,
     owner
<1>3. TakingOK' /\ YesOK' /\ EachOK'
  BY DEF TakingOK, YesOK, Meant, EachOK, Each, Fate, Waiting, Answered, Known, Asked,
     Asking, Closing, Tick, asker, hub, bridge, owner
<1>. QED  BY <1>1, <1>2, <1>3

LEMMA StutterKeeps ==
  ASSUME IInv, UNCHANGED vars
  PROVE  IInv'
<1>. USE DEF vars, asker, hub, bridge, owner
<1>1. Typed'
  BY DEF IInv, Typed, TypedAsker, TypedHub, TypedBridge, TypedOwner
<1>2. DeliveryOK' /\ TakingOK'
  BY DEF IInv, DeliveryOK, First, TakingOK
<1>3. YesOK'
  BY DEF IInv, YesOK, Meant
<1>4. EachOK'
  BY ZenonT(60) DEF IInv, EachOK, Each, Fate, Waiting, Answered, Known, Asked, Asking, Closing
<1>. QED  BY <1>1, <1>2, <1>3, <1>4 DEF IInv

LEMMA InitHolds ==
  ASSUME QuestionConstants, Init
  PROVE  IInv
<1>. USE DEF Init
<1>1. Typed
  BY DEF Typed, TypedAsker, TypedHub, TypedBridge, TypedOwner, NoSlot, NoTaking, Open
<1>2. DeliveryOK /\ TakingOK /\ YesOK
  BY DEF DeliveryOK, TakingOK, YesOK, NoSlot, QuestionConstants, Open
<1>3. ASSUME NEW q \in Questions PROVE Each(q)
  <2>1. ~Asking(q) /\ ~Closing(q)
    BY Notices, Records DEF Asking, Closing
  <2>2. slot.id # q /\ taking.id # q /\ told[q] = {}
    BY DEF NoSlot, NoTaking, QuestionConstants
  <2>3. Fate(q) /\ Waiting(q)
    BY <2>2 DEF Fate, Waiting
  <2>4. Answered(q)
    BY <2>1, <2>2, Notices DEF Answered
  <2>. QED  BY <2>3, <2>4 DEF Each
<1>. QED  BY <1>1, <1>2, <1>3 DEF IInv, EachOK

\* The inductive invariant, for any questions, messages and stops.
THEOREM Invariance ==
  ASSUME QuestionConstants
  PROVE  Spec => []IInv
<1>1. Init => IInv
  BY InitHolds
<1>2. ASSUME IInv, [Next]_vars PROVE IInv'
  <2>1. ASSUME NEW q \in Questions, Ask(q) \/ Follow(q) \/ StopWaiting(q) \/ Cancel(q)
        PROVE  IInv'
    BY <1>2, <2>1, AskKeeps, SendQuestionKeeps, NotStoredKeeps, StoredKeeps, ReceiveKeeps,
       GiveUpKeeps, HearKeeps, StopWaitingKeeps, CancelKeeps DEF Follow
  <2>2. ASSUME NEW m \in Replies, Accept(m) \/ Write(m, TRUE) \/ Write(m, FALSE)
        PROVE  IInv'
    BY <1>2, <2>2, TakeAnswerKeeps, AcknowledgeKeeps, RunTurnKeeps, WriteKeeps DEF Accept
  <2>3. CASE TakeNotice \/ StoreNotice \/ Deliver
    BY <1>2, <2>3, TakeNoticeKeeps, StoreNoticeKeeps, CheckFirstKeeps, SendKeeps,
       RetryKeeps, DeliveredKeeps, RefuseKeeps, RemoveFirstKeeps DEF Deliver
  <2>4. CASE Stop \/ Start \/ Restart \/ Tick
    BY <1>2, <2>4, StopKeeps, StartKeeps, RestartKeeps, TickKeeps
  <2>5. CASE UNCHANGED vars
    BY <1>2, <2>5, StutterKeeps
  <2>. QED  BY <1>2, <2>1, <2>2, <2>3, <2>4, <2>5 DEF Next
<1>. QED  BY PTL, <1>1, <1>2 DEF Spec

\* No question has two ends: one whose end the chat was told is never
\* acknowledged, and an acknowledged one never ends otherwise for its asker
\* (Hub::take_question, Hub::withdraw, Confirmer::give_up).
THEOREM OneEndHolds ==
  ASSUME QuestionConstants
  PROVE  Spec => []OneEnd
<1>1. IInv => OneEnd
  <2>. SUFFICES ASSUME IInv, NEW q \in Questions
               PROVE  /\ ~({"ack", "over"} \subseteq told[q])
                      /\ "ack" \in told[q] => entry[q] \notin {"Expired", "Withdrawn", "Failed"}
    BY DEF OneEnd
  <2>1. Fate(q) /\ Answered(q)
    BY DEF IInv, EachOK, Each
  <2>2. ~({"ack", "over"} \subseteq told[q])
    BY <2>1 DEF Fate, Closing
  <2>3. "ack" \in told[q] => entry[q] \in {"Pending", "Yes", "No", "gone"}
    BY <2>1 DEF Answered, Open
  <2>. QED  BY <2>2, <2>3
<1>. QED  BY PTL, <1>1, Invariance

\* A gated call goes ahead only on a yes that the owner wrote after the
\* question's text reached the chat and whose acknowledgement is durable,
\* however often the bridge or the daemon stops (Confirmer::ask_owner, the
\* bridge's take_question and acknowledge).
THEOREM YesIsTheOwnersHolds ==
  ASSUME QuestionConstants
  PROVE  Spec => []YesIsTheOwners
<1>1. IInv => YesWasGiven
  BY DEF IInv, YesOK, Meant, YesWasGiven
<1>. QED  BY PTL, <1>1, Invariance, OneEndHolds DEF YesIsTheOwners
=============================================================================
