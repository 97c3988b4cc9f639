----------------------- MODULE Conversations_proofs -----------------------
EXTENDS Conversations, Integers, FiniteSetTheorems, SequenceTheorems, TLAPS

IdOrNone == Vendors \cup {NoId}

CallType ==
    [kind : {"none", "turn", "pin", "hold", "end", "mark", "wait", "asleep"},
     h : Nat, turn : Nat, vendor : IdOrNone, cli : IdOrNone,
     att : BOOLEAN, named : BOOLEAN,
     io : Seq({"write", "remove"} \X Vendors)]

ConvType ==
    [cwd : Dirs, vendor : IdOrNone, turns : Nat, busy : BOOLEAN, pins : Int,
     released : BOOLEAN, taken : BOOLEAN, att : BOOLEAN, past : BOOLEAN]

\* What each variable holds; the order of the handles apart.
Typed ==
    /\ convs \in [Known -> ConvType]
    /\ calls \in [Calls -> CallType]
    /\ next \in Nat
    /\ files \in [Vendors -> {"none", "young", "old", "gone"}]

Uses(c, h) == calls[c].kind \in {"turn", "hold"} /\ calls[c].h = h

\* A turn or a takeover has its conversation, which is busy, to itself.
UserOK ==
    /\ \A c \in Calls : calls[c].kind \in {"turn", "hold"} =>
          /\ calls[c].h \in Known
          /\ convs[calls[c].h].busy
          /\ convs[calls[c].h].taken <=> calls[c].kind = "hold"
    /\ \A c, d \in Calls : \A h \in Known : Uses(c, h) /\ Uses(d, h) => c = d
    /\ \A h \in Known : convs[h].busy => \E c \in Calls : Uses(c, h)
    /\ \A h \in Known : convs[h].taken => convs[h].busy /\ ~convs[h].att

\* No handle in use or on disk is newer than the newest.
NumberOK ==
    /\ Known \subseteq 1..next
    /\ \A c \in Calls : calls[c].h <= next
    /\ \A c \in Calls : Idle(c) => calls[c].h = 0
    /\ \A m \in named : m \in Nat /\ m <= next

Pinners(h) == {c \in Calls : calls[c].kind = "pin" /\ calls[c].h = h}

\* The pins of a conversation are counted.
PinOK ==
    \A h \in Nat \ {0} :
        /\ IsFiniteSet(Pinners(h))
        /\ h \in Known => convs[h].pins = Cardinality(Pinners(h))

LimitOK == IsFiniteSet(Known) /\ WithinLimit

\* Every session ID in use, or from an earlier life, has a transcript.
FilesOK ==
    /\ \A h \in Known : convs[h].vendor # NoId => files[convs[h].vendor] # "none"
    /\ \A v \in past : v \in Vendors /\ files[v] # "none"

\* The session ID a turn may leave its conversation with is no other's in
\* that directory, and one of an earlier life of the session only if the
\* conversation has it already.
TurnOK ==
    \A c \in Calls : calls[c].kind = "turn" =>
        /\ calls[c].cli \in Vendors /\ files[calls[c].cli] # "none"
        /\ \/ calls[c].vendor = convs[calls[c].h].vendor
           \/ convs[calls[c].h].vendor = NoId /\ calls[c].vendor = calls[c].cli
        /\ calls[c].cli \in past => calls[c].cli = convs[calls[c].h].vendor
        /\ \A k \in Known :
              k # calls[c].h /\ convs[k].cwd = convs[calls[c].h].cwd
                  => convs[k].vendor # calls[c].cli

\* No two turns of one directory will leave the same session ID.
ApartOK ==
    \A c, d \in Calls :
        calls[c].kind = "turn" /\ calls[d].kind = "turn" /\ c # d
          /\ convs[calls[c].h].cwd = convs[calls[d].h].cwd
              => calls[c].cli # calls[d].cli

IdOK == FilesOK /\ OneHandle /\ TurnOK /\ ApartOK

IInv ==
    /\ Typed /\ UserOK /\ NumberOK /\ PinOK /\ LimitOK
    /\ ReleasedGoes /\ NoLostWakeup /\ IdOK

-----------------------------------------------------------------------------
(* What the operators the actions are built from do.                       *)

\* Hold changes one caller's record.
LEMMA HoldFacts ==
    ASSUME calls \in [Calls -> CallType], NEW c \in Calls, NEW x \in CallType,
           Hold(c, x)
    PROVE  /\ calls' \in [Calls -> CallType]
           /\ calls'[c] = x
           /\ \A d \in Calls : d # c => calls'[d] = calls[d]
BY DEF Hold

\* Mark gives marker operations.
LEMMA MarkType ==
    ASSUME NEW op \in {"write", "remove"}, NEW v \in IdOrNone
    PROVE  Mark(op, v) \in Seq({"write", "remove"} \X Vendors)
<1>1. CASE v = NoId
  BY <1>1 DEF Mark
<1>2. CASE v # NoId
  <2>1. v \in Vendors
    BY <1>2 DEF IdOrNone
  <2>2. <<op, v>> \in {"write", "remove"} \X Vendors
    BY <2>1
  <2> QED
    BY <1>2, <2>2 DEF Mark
<1> QED
  BY <1>1, <1>2

\* What expires or is evicted is not in use.
LEMMA GoneFacts ==
    ASSUME NEW gone
    PROVE  /\ Expired \subseteq Evictable
           /\ Oldest(gone) \subseteq Evictable
           /\ \A h \in Evictable : h \in Known /\ ~convs[h].busy /\ convs[h].pins = 0
BY DEF Expired, Oldest, Evictable

\* The records of callers who hold nothing.
LEMMA NoCallType == ASSUME ConversationConstants PROVE NoCall \in CallType
BY EmptySeq DEF NoCall, CallType, IdOrNone, ConversationConstants

\* The record of a caller who holds only a handle.
LEMMA NoCallOf ==
    ASSUME ConversationConstants, NEW h \in Nat,
           NEW kind \in {"none", "turn", "pin", "hold", "end", "mark", "wait", "asleep"}
    PROVE  /\ [NoCall EXCEPT !.kind = kind, !.h = h] \in CallType
           /\ [NoCall EXCEPT !.kind = kind, !.h = h].kind = kind
           /\ [NoCall EXCEPT !.kind = kind, !.h = h].h = h
BY NoCallType DEF CallType, NoCall

\* Ending and Marking leave the caller its markers to see to.
LEMMA EndingFacts ==
    ASSUME ConversationConstants, calls \in [Calls -> CallType], NEW c \in Calls,
           NEW io \in Seq({"write", "remove"} \X Vendors),
           Ending(c, io) \/ Marking(c, io)
    PROVE  /\ calls' \in [Calls -> CallType]
           /\ calls'[c].h = calls[c].h
           /\ calls'[c].kind \in {"end", "mark"}
           /\ Ending(c, io) => calls'[c].kind = "end"
           /\ \A d \in Calls : d # c => calls'[d] = calls[d]
<1>1. calls[c].h \in Nat
  BY DEF CallType
<1>2. ASSUME NEW kind \in {"end", "mark"},
             Hold(c, [NoCall EXCEPT !.kind = kind, !.h = calls[c].h, !.io = io])
      PROVE  /\ calls' \in [Calls -> CallType]
             /\ calls'[c].h = calls[c].h /\ calls'[c].kind = kind
             /\ \A d \in Calls : d # c => calls'[d] = calls[d]
  <2> DEFINE x == [NoCall EXCEPT !.kind = kind, !.h = calls[c].h, !.io = io]
  <2>1. x \in CallType /\ x.kind = kind /\ x.h = calls[c].h
    BY <1>1, NoCallType DEF CallType, NoCall
  <2>2. Hold(c, x)
    BY <1>2
  <2> HIDE DEF x
  <2> QED
    BY <2>1, <2>2, HoldFacts
<1>3. CASE Ending(c, io)
  BY <1>2, <1>3 DEF Ending
<1>4. CASE Marking(c, io) /\ ~Ending(c, io)
  BY <1>2, <1>4 DEF Marking
<1> QED
  BY <1>3, <1>4

LEMMA HandleType == ConversationConstants => Handles \subseteq Nat \ {0}
BY DEF ConversationConstants, Handles

\* Without leaves the other conversations as they are.
LEMMA WithoutFacts ==
    ASSUME convs \in [Known -> ConvType], NEW hs, convs' = Without(convs, hs)
    PROVE  /\ Known' = Known \ hs
           /\ convs' \in [Known' -> ConvType]
           /\ \A k \in Known' : convs'[k] = convs[k]
BY DEF Without, Known

\* So does a change of one of them.
LEMMA ConvFacts ==
    ASSUME convs \in [Known -> ConvType], NEW h \in Known, NEW y \in ConvType,
           convs' = [convs EXCEPT ![h] = y]
    PROVE  /\ Known' = Known
           /\ convs' \in [Known' -> ConvType]
           /\ convs'[h] = y
           /\ \A k \in Known : k # h => convs'[k] = convs[k]
BY DEF Known

\* Pins stay counted where neither the callers' pins nor the counts change;
\* a new conversation has none.
LEMMA PinKept ==
    ASSUME PinOK,
           \A d \in Calls : \A h \in Nat \ {0} :
              calls'[d].kind = "pin" /\ calls'[d].h = h
                 <=> calls[d].kind = "pin" /\ calls[d].h = h,
           \A k \in Known' : k \in Nat \ {0} =>
              \/ k \in Known /\ convs'[k].pins = convs[k].pins
              \/ convs'[k].pins = 0 /\ \A d \in Calls : calls[d].h # k
    PROVE  PinOK'
<1> SUFFICES ASSUME NEW h \in Nat \ {0}
    PROVE  /\ IsFiniteSet(Pinners(h)')
           /\ h \in Known' => convs'[h].pins = Cardinality(Pinners(h)')
  BY DEF PinOK
<1>1. Pinners(h)' = Pinners(h)
  BY DEF Pinners
<1>2. IsFiniteSet(Pinners(h)) /\ (h \in Known => convs[h].pins = Cardinality(Pinners(h)))
  BY DEF PinOK
<1>3. CASE h \in Known' /\ convs'[h].pins = 0 /\ \A d \in Calls : calls[d].h # h
  <2>1. Pinners(h) = {}
    BY <1>3 DEF Pinners
  <2> QED
    BY <1>1, <1>2, <1>3, <2>1, FS_EmptySet
<1>4. CASE h \in Known' /\ h \in Known /\ convs'[h].pins = convs[h].pins
  BY <1>1, <1>2, <1>4
<1>5. CASE h \notin Known'
  BY <1>1, <1>2, <1>5
<1> QED
  BY <1>3, <1>4, <1>5

\* Fewer conversations are within the limit too.
LEMMA LimitKept ==
    ASSUME ConversationConstants, LimitOK, Known' \subseteq Known
    PROVE  LimitOK'
<1>1. IsFiniteSet(Known') /\ Cardinality(Known') <= Cardinality(Known)
  BY FS_Subset DEF LimitOK
<1>2. Cardinality(Known') \in Nat /\ Cardinality(Known) \in Nat
  BY <1>1, FS_CardinalityType DEF LimitOK
<1> QED
  BY <1>1, <1>2 DEF LimitOK, WithinLimit, ConversationConstants

\* One more is, where there was room for it.
LEMMA LimitMade ==
    ASSUME ConversationConstants, LimitOK, NEW gone, HasRoom(gone), NEW h,
           Known' = (Known \ gone) \cup {h}
    PROVE  LimitOK'
<1>1. IsFiniteSet(Known \ gone)
  BY FS_Subset DEF LimitOK
<1>2. Cardinality(Known \ gone) \in Nat
  BY <1>1, FS_CardinalityType
<1>3. /\ IsFiniteSet((Known \ gone) \cup {h})
      /\ \/ Cardinality((Known \ gone) \cup {h}) = Cardinality(Known \ gone)
         \/ Cardinality((Known \ gone) \cup {h}) = Cardinality(Known \ gone) + 1
  <2>1. Cardinality((Known \ gone) \cup {h}) =
            IF h \in Known \ gone THEN Cardinality(Known \ gone)
                                  ELSE Cardinality(Known \ gone) + 1
    BY <1>1, FS_AddElement
  <2> QED
    BY <1>1, <2>1, FS_AddElement
<1>4. Cardinality((Known \ gone) \cup {h}) \in Nat
  BY <1>3, FS_CardinalityType
<1> QED
  BY <1>2, <1>3, <1>4 DEF LimitOK, WithinLimit, HasRoom, ConversationConstants

\* Who uses what stays so where conversations in use and their users do.
LEMMA UserKept ==
    ASSUME UserOK,
           \A h \in Known' : /\ h \in Known
                             /\ convs'[h].busy = convs[h].busy
                             /\ convs'[h].taken = convs[h].taken
                             /\ convs'[h].att = convs[h].att,
           \A d \in Calls : calls'[d].kind \in {"turn", "hold"} =>
              calls'[d].kind = calls[d].kind /\ calls'[d].h = calls[d].h
                /\ calls[d].h \in Known',
           \A d \in Calls : calls[d].kind \in {"turn", "hold"}
                              /\ calls[d].h \in Known' =>
              calls'[d].kind = calls[d].kind /\ calls'[d].h = calls[d].h
    PROVE  UserOK'
<1>1. \A d \in Calls : calls'[d].kind \in {"turn", "hold"} =>
          /\ calls'[d].h \in Known'
          /\ convs'[calls'[d].h].busy
          /\ convs'[calls'[d].h].taken <=> calls'[d].kind = "hold"
  BY DEF UserOK
<1>2. \A h \in Known' : convs'[h].busy => \E d \in Calls : Uses(d, h)'
  BY DEF UserOK, Uses
<1>3. \A c, d \in Calls : \A h \in Known' : Uses(c, h)' /\ Uses(d, h)' => c = d
  BY DEF UserOK, Uses
<1> QED
  BY <1>1, <1>2, <1>3 DEF UserOK

\* So do the session IDs where no turn begins and no ID is set.
LEMMA IdKept ==
    ASSUME IdOK, UserOK, Typed, past' = past,
           \A h \in Known' : /\ h \in Known
                             /\ convs'[h].cwd = convs[h].cwd
                             /\ convs'[h].vendor = convs[h].vendor,
           \A d \in Calls : calls'[d].kind = "turn" =>
              /\ calls[d].kind = "turn" /\ calls[d].h \in Known'
              /\ calls'[d].h = calls[d].h /\ calls'[d].vendor = calls[d].vendor
              /\ calls'[d].cli = calls[d].cli,
           \A v \in Vendors : files[v] # "none" => files'[v] # "none"
    PROVE  IdOK'
<1>1. \A h \in Known : convs[h].vendor \in IdOrNone
  BY DEF Typed, ConvType
<1>2. FilesOK'
  BY <1>1 DEF IdOK, FilesOK, IdOrNone
<1>3. OneHandle'
  BY DEF IdOK, OneHandle
<1>4. TurnOK'
  BY DEF IdOK, TurnOK
<1>5. ApartOK'
  BY DEF IdOK, ApartOK
<1> QED
  BY <1>2, <1>3, <1>4, <1>5 DEF IdOK

-----------------------------------------------------------------------------
(* Steps that change nothing the invariant is about.                       *)

\* The conversation is the same but for the time it was last used.
Alike(x, y) ==
    /\ x.cwd = y.cwd /\ x.vendor = y.vendor /\ x.busy = y.busy
    /\ x.pins = y.pins /\ x.released = y.released /\ x.taken = y.taken
    /\ x.att = y.att

\* The call is, but for its child, its state and its markers.
AlikeCall(x, y) ==
    x.kind = y.kind /\ x.h = y.h /\ x.vendor = y.vendor /\ x.cli = y.cli

LEMMA QuietStep ==
    ASSUME ConversationConstants, IInv, Typed', next' = next, past' = past,
           Known' = Known,
           \A h \in Known : Alike(convs'[h], convs[h]),
           \A d \in Calls : AlikeCall(calls'[d], calls[d]),
           \A v \in Vendors : files[v] # "none" => files'[v] # "none",
           \A m \in named' : m \in named \/ \E d \in Calls : m = calls[d].h
    PROVE  IInv'
<1>1. /\ \A h \in Known : /\ convs'[h].cwd = convs[h].cwd
                          /\ convs'[h].vendor = convs[h].vendor
                          /\ convs'[h].busy = convs[h].busy
                          /\ convs'[h].taken = convs[h].taken
                          /\ convs'[h].att = convs[h].att
                          /\ convs'[h].pins = convs[h].pins
                          /\ convs'[h].released = convs[h].released
      /\ \A d \in Calls : /\ calls'[d].kind = calls[d].kind /\ calls'[d].h = calls[d].h
                          /\ calls'[d].vendor = calls[d].vendor
                          /\ calls'[d].cli = calls[d].cli
  BY DEF Alike, AlikeCall
<1>2. \A d \in Calls : calls[d].kind \in {"turn", "hold"} => calls[d].h \in Known
  BY DEF IInv, UserOK
<1>3. UserOK'
  BY <1>1, <1>2, UserKept DEF IInv
<1>4. NumberOK'
  BY <1>1 DEF IInv, NumberOK, Idle, Typed, CallType
<1>5. PinOK'
  BY <1>1, PinKept DEF IInv
<1>6. LimitOK'
  BY LimitKept DEF IInv
<1>7. ReleasedGoes'
  BY <1>1 DEF IInv, ReleasedGoes
<1>8. NoLostWakeup'
  BY <1>1 DEF IInv, NoLostWakeup
<1>9. IdOK'
  BY <1>1, <1>2, IdKept DEF IInv
<1> QED
  BY <1>3, <1>4, <1>5, <1>6, <1>7, <1>8, <1>9 DEF IInv


LEMMA OpenActivityStep ==
    ASSUME ConversationConstants, IInv, NEW c \in Calls, OpenActivity(c)
    PROVE  IInv'
<1>1. Typed'
  BY ZenonT(60) DEF IInv, OpenActivity, Typed, CallType, Known
<1>2. \A d \in Calls : AlikeCall(calls'[d], calls[d])
  BY DEF IInv, OpenActivity, Typed, CallType, AlikeCall
<1> QED
  BY <1>1, <1>2, QuietStep DEF OpenActivity, Known, Alike

LEMMA AttachStep ==
    ASSUME ConversationConstants, IInv, NEW c \in Calls, Attach(c)
    PROVE  IInv'
<1>1. Typed'
  BY ZenonT(60) DEF IInv, Attach, Typed, CallType, Known
<1>2. \A d \in Calls : AlikeCall(calls'[d], calls[d])
  BY DEF IInv, Attach, Typed, CallType, AlikeCall
<1> QED
  BY <1>1, <1>2, QuietStep DEF Attach, Known, Alike

LEMMA MarkerIoStep ==
    ASSUME ConversationConstants, IInv, NEW c \in Calls, MarkerIo(c)
    PROVE  IInv'
<1>1. Tail(calls[c].io) \in Seq({"write", "remove"} \X Vendors)
  BY HeadTailProperties DEF IInv, MarkerIo, Typed, CallType
<1>2. Typed'
  BY ZenonT(60), <1>1 DEF IInv, MarkerIo, Typed, CallType, Known
<1>3. \A d \in Calls : AlikeCall(calls'[d], calls[d])
  BY DEF IInv, MarkerIo, Typed, CallType, AlikeCall
<1> QED
  BY <1>2, <1>3, QuietStep DEF MarkerIo, Known, Alike

LEMMA TimePassesStep ==
    ASSUME ConversationConstants, IInv, NEW h \in Handles, TimePasses(h)
    PROVE  IInv'
<1>c. convs' \in [Known -> ConvType]
  BY ZenonT(60) DEF IInv, TimePasses, Typed, ConvType, Known
<1>1. Typed'
  BY <1>c DEF IInv, TimePasses, Typed, Known
<1>2. \A k \in Known : Alike(convs'[k], convs[k])
  BY DEF IInv, TimePasses, Typed, ConvType, Known, Alike
<1>3. Known' = Known
  BY DEF IInv, TimePasses, Known
<1> QED
  BY <1>1, <1>2, <1>3, QuietStep DEF TimePasses, AlikeCall

LEMMA AgesStep ==
    ASSUME ConversationConstants, IInv, NEW v \in Vendors, Ages(v)
    PROVE  IInv'
<1>1. Typed'
  BY DEF IInv, Ages, Typed, Known
<1>2. \A w \in Vendors : files[w] # "none" => files'[w] # "none"
  BY DEF IInv, Ages, Typed
<1> QED
  BY <1>1, <1>2, QuietStep DEF Ages, Known, Alike, AlikeCall

\* A pass of gc, or of the reconcile pass.
LEMMA GcStep ==
    ASSUME ConversationConstants, IInv, GcLive \/ GcRemove \/ RemoveStaleMarkers
    PROVE  IInv'
<1>1. UNCHANGED <<convs, next, calls, named, past>>
  BY DEF GcLive, GcRemove, RemoveStaleMarkers
<1>2. /\ files' \in [Vendors -> {"none", "young", "old", "gone"}]
      /\ \A w \in Vendors : files[w] # "none" => files'[w] # "none"
  BY DEF IInv, Typed, GcLive, GcRemove, RemoveStaleMarkers
<1>3. Typed'
  BY <1>1, <1>2 DEF IInv, Typed, Known
<1> QED
  BY <1>1, <1>2, <1>3, QuietStep DEF Known, Alike, AlikeCall

-----------------------------------------------------------------------------
(* Callers that come, look and go without touching a conversation.         *)

LEMMA BystanderStep ==
    ASSUME ConversationConstants, IInv, Typed', NoLostWakeup',
           UNCHANGED <<convs, next, files, named, past>>,
           \A d \in Calls :
              \/ calls'[d] = calls[d]
              \/ calls[d].kind \in {"none", "end", "mark", "wait", "asleep"}
                   /\ calls'[d].kind \in {"none", "end", "mark", "wait", "asleep"},
           \A d \in Calls : /\ calls'[d].h <= next
                            /\ calls'[d].kind = "none" => calls'[d].h = 0
    PROVE  IInv'
<1>1. Known' = Known
  BY DEF Known
<1>2. \A d \in Calls : calls[d].kind \in {"turn", "hold"} => calls[d].h \in Known
  BY DEF IInv, UserOK
<1>3. \A d \in Calls : calls'[d].kind \in {"turn", "hold", "pin"}
                         \/ calls[d].kind \in {"turn", "hold", "pin"}
                            => calls'[d] = calls[d]
  OBVIOUS
<1>4. UserOK'
  BY <1>1, <1>2, <1>3, UserKept DEF IInv
<1>5. NumberOK'
  BY <1>1 DEF IInv, NumberOK, Idle
<1>6. PinOK'
  BY <1>1, <1>3, PinKept DEF IInv
<1>7. LimitOK'
  BY <1>1, LimitKept DEF IInv
<1>8. ReleasedGoes'
  BY <1>1 DEF IInv, ReleasedGoes
<1>9. IdOK'
  BY <1>1, <1>2, <1>3, IdKept DEF IInv
<1> QED
  BY <1>4, <1>5, <1>6, <1>7, <1>8, <1>9 DEF IInv

LEMMA WaitIdleStep ==
    ASSUME ConversationConstants, IInv, NEW c \in Calls, NEW h \in Handles,
           WaitIdle(c, h)
    PROVE  IInv'
<1> DEFINE x == [NoCall EXCEPT !.kind = "wait", !.h = h]
<1>1. x \in CallType /\ x.kind = "wait" /\ x.h = h
  BY NoCallOf, HandleType
<1>2. /\ calls' \in [Calls -> CallType] /\ calls'[c] = x
      /\ \A d \in Calls : d # c => calls'[d] = calls[d]
  BY <1>1, HoldFacts DEF WaitIdle, IInv, Typed
<1> HIDE DEF x
<1>3. calls[c].kind = "none" /\ h \in Known
  BY DEF WaitIdle, Idle
<1>4. UNCHANGED <<convs, next, files, named, past>>
  BY DEF WaitIdle
<1>5. Typed'
  BY <1>2, <1>4 DEF IInv, Typed, Known
<1>6. NoLostWakeup'
  <2>1. Known' = Known
    BY <1>4 DEF Known
  <2> QED
    BY <1>1, <1>2, <1>3, <1>4, <2>1 DEF IInv, NoLostWakeup
<1>7. \A d \in Calls : /\ calls'[d].h <= next
                       /\ calls'[d].kind = "none" => calls'[d].h = 0
  BY <1>1, <1>2, <1>3 DEF IInv, NumberOK, Idle, Typed
<1> QED
  BY <1>1, <1>2, <1>3, <1>4, <1>5, <1>6, <1>7, BystanderStep

LEMMA LookStep ==
    ASSUME ConversationConstants, IInv, NEW c \in Calls, Look(c)
    PROVE  IInv'
<1>1. UNCHANGED <<convs, next, files, named, past>> /\ calls[c].kind = "wait"
  BY DEF Look
<1>2. Known' = Known
  BY <1>1 DEF Known
<1>3. /\ calls' \in [Calls -> CallType]
      /\ \A d \in Calls : d # c => calls'[d] = calls[d]
      /\ \/ /\ calls[c].h \in Known /\ convs[calls[c].h].busy
            /\ calls'[c].kind = "asleep" /\ calls'[c].h = calls[c].h
         \/ calls'[c].kind = "none" /\ calls'[c].h = 0
  <2>1. CASE calls[c].h \in Known /\ convs[calls[c].h].busy
    BY ZenonT(60), <2>1 DEF Look, IInv, Typed, CallType
  <2>2. CASE ~(calls[c].h \in Known /\ convs[calls[c].h].busy)
    <3>1. calls' = [calls EXCEPT ![c] = NoCall]
      BY <2>2 DEF Look
    <3>2. NoCall.kind = "none" /\ NoCall.h = 0
      BY DEF NoCall
    <3> QED
      BY <3>1, <3>2, NoCallType DEF IInv, Typed
  <2> QED
    BY <2>1, <2>2
<1>4. Typed'
  BY <1>1, <1>3 DEF IInv, Typed, Known
<1>5. NoLostWakeup'
  BY <1>1, <1>2, <1>3 DEF IInv, NoLostWakeup
<1>6. \A d \in Calls : /\ calls'[d].h <= next
                       /\ calls'[d].kind = "none" => calls'[d].h = 0
  BY <1>3 DEF IInv, NumberOK, Idle, Typed
<1> QED
  BY <1>1, <1>3, <1>4, <1>5, <1>6, BystanderStep

LEMMA EndedStep ==
    ASSUME ConversationConstants, IInv, NEW c \in Calls, Ended(c)
    PROVE  IInv'
<1> DEFINE cs == [calls EXCEPT ![c] = NoCall]
<1>1. /\ UNCHANGED <<convs, next, files, named, past>>
      /\ calls[c].kind \in {"end", "mark"}
  BY DEF Ended
<1>2. NoCall.kind = "none" /\ NoCall.h = 0
  BY DEF NoCall
<1>3. /\ cs \in [Calls -> CallType] /\ cs[c] = NoCall
      /\ \A d \in Calls : d # c => cs[d] = calls[d]
  BY NoCallType DEF IInv, Typed
<1>4. /\ calls[c].kind = "end" => calls' = Woken(cs)
      /\ calls[c].kind = "mark" => calls' = cs
  BY DEF Ended
<1> HIDE DEF cs
<1>5. /\ calls' \in [Calls -> CallType]
      /\ calls'[c].kind = "none" /\ calls'[c].h = 0
      /\ \A d \in Calls : d # c =>
            \/ /\ calls'[d] = calls[d]
               /\ calls[c].kind = "end" => calls[d].kind # "asleep"
            \/ calls[d].kind = "asleep" /\ calls'[d].kind = "wait"
                 /\ calls'[d].h = calls[d].h
  <2>1. CASE calls[c].kind = "end"
    <3>1. calls' = [d \in Calls |-> IF cs[d].kind = "asleep"
                                    THEN [cs[d] EXCEPT !.kind = "wait"] ELSE cs[d]]
      BY <1>4, <2>1 DEF Woken
    <3>2. \A d \in Calls : /\ [cs[d] EXCEPT !.kind = "wait"] \in CallType
                           /\ [cs[d] EXCEPT !.kind = "wait"].kind = "wait"
                           /\ [cs[d] EXCEPT !.kind = "wait"].h = cs[d].h
      BY <1>3 DEF CallType
    <3> QED
      BY <1>2, <1>3, <3>1, <3>2
  <2>2. CASE calls[c].kind = "mark"
    BY <1>2, <1>3, <1>4, <2>2
  <2> QED
    BY <1>1, <2>1, <2>2
<1>6. Typed'
  BY <1>1, <1>5 DEF IInv, Typed, Known
<1>7. NoLostWakeup'
  <2>1. CASE calls[c].kind = "end"
    BY <1>5, <2>1 DEF NoLostWakeup
  \* Who only wrote a marker was nobody's last call.
  <2>2. CASE calls[c].kind = "mark"
    <3>1. Known' = Known /\ convs' = convs
      BY <1>1 DEF Known
    <3> SUFFICES ASSUME NEW d \in Calls, calls'[d].kind = "asleep"
        PROVE  \/ calls'[d].h \in Known' /\ convs'[calls'[d].h].busy
               \/ \E b \in Calls : calls'[b].kind = "end" /\ calls'[b].h = calls'[d].h
      BY DEF NoLostWakeup
    <3>2. d # c /\ calls'[d] = calls[d]
      BY <1>5
    <3>3. \/ calls[d].h \in Known /\ convs[calls[d].h].busy
          \/ \E b \in Calls : calls[b].kind = "end" /\ calls[b].h = calls[d].h
      BY <3>2 DEF IInv, NoLostWakeup
    <3>4. \A b \in Calls : calls[b].kind = "end" => calls'[b] = calls[b]
      BY <1>5, <2>2
    <3> QED
      BY <3>1, <3>2, <3>3, <3>4
  <2> QED
    BY <1>1, <2>1, <2>2
<1>8. \A d \in Calls : /\ calls'[d].h <= next
                       /\ calls'[d].kind = "none" => calls'[d].h = 0
  BY <1>5 DEF IInv, NumberOK, Idle, Typed
<1> QED
  BY <1>1, <1>5, <1>6, <1>7, <1>8, BystanderStep

-----------------------------------------------------------------------------
(* Conversations that go.                                                  *)

\* Those not in use: expired or evicted, with nothing to show for it.
LEMMA EvictStep ==
    ASSUME ConversationConstants, IInv, NEW gone, gone \subseteq Evictable,
           convs' = Without(convs, gone),
           UNCHANGED <<next, calls, files, named, past>>
    PROVE  IInv'
<1>1. /\ Known' = Known \ gone
      /\ convs' \in [Known' -> ConvType]
      /\ \A k \in Known' : convs'[k] = convs[k]
  BY WithoutFacts DEF IInv, Typed
<1>2. \A h \in gone : h \in Known /\ ~convs[h].busy
  BY DEF Evictable
<1>3. \A d \in Calls : calls[d].kind \in {"turn", "hold"} => calls[d].h \in Known'
  BY <1>1, <1>2 DEF IInv, UserOK
<1>4. Typed'
  BY <1>1 DEF IInv, Typed
<1>5. UserOK'
  BY <1>1, <1>3, UserKept DEF IInv
<1>6. NumberOK'
  BY <1>1 DEF IInv, NumberOK, Idle
<1>7. PinOK'
  BY <1>1, PinKept DEF IInv
<1>8. LimitOK'
  BY <1>1, LimitKept DEF IInv
<1>9. ReleasedGoes'
  BY <1>1 DEF IInv, ReleasedGoes
<1>10. NoLostWakeup'
  BY <1>1, <1>2 DEF IInv, NoLostWakeup
<1>11. IdOK'
  BY <1>1, <1>3, IdKept DEF IInv
<1> QED
  BY <1>4, <1>5, <1>6, <1>7, <1>8, <1>9, <1>10, <1>11 DEF IInv

\* The one its caller used, or ends while nobody uses it.
LEMMA DropStep ==
    ASSUME ConversationConstants, IInv, NEW c \in Calls,
           NEW io \in Seq({"write", "remove"} \X Vendors),
           \/ calls[c].kind \in {"turn", "hold"} /\ Ending(c, io)
           \/ /\ calls[c].kind = "pin" /\ calls[c].h \in Known
              /\ ~convs[calls[c].h].busy /\ Marking(c, io),
           convs' = Without(convs, {calls[c].h}),
           UNCHANGED <<next, files, named, past>>
    PROVE  IInv'
<1> DEFINE h == calls[c].h
<1>1. /\ Known' = Known \ {h}
      /\ convs' \in [Known' -> ConvType]
      /\ \A k \in Known' : convs'[k] = convs[k]
  BY WithoutFacts DEF IInv, Typed
<1>2. /\ calls' \in [Calls -> CallType]
      /\ calls'[c].kind \in {"end", "mark"} /\ calls'[c].h = h
      /\ calls[c].kind \in {"turn", "hold"} => calls'[c].kind = "end"
      /\ \A d \in Calls : d # c => calls'[d] = calls[d]
  BY EndingFacts DEF IInv, Typed
<1> HIDE DEF h
<1>3. \A d \in Calls : d # c /\ calls[d].kind \in {"turn", "hold"} => calls[d].h \in Known'
  BY <1>1 DEF IInv, UserOK, Uses, h
<1>4. Typed'
  BY <1>1, <1>2 DEF IInv, Typed
<1>5. UserOK'
  BY <1>1, <1>2, <1>3, UserKept DEF IInv, h
<1>6. NumberOK'
  BY <1>1, <1>2 DEF IInv, NumberOK, Idle, h
<1>7. PinOK'
  <2>1. \A k \in Nat \ {0} : Pinners(k)' = Pinners(k) \ {c}
    BY <1>2 DEF Pinners
  <2>2. \A k \in Known' : Pinners(k)' = Pinners(k)
    BY <1>1, <1>2 DEF Pinners, h
  <2> SUFFICES ASSUME NEW k \in Nat \ {0}
      PROVE  /\ IsFiniteSet(Pinners(k)')
             /\ k \in Known' => convs'[k].pins = Cardinality(Pinners(k)')
    BY DEF PinOK
  <2>3. IsFiniteSet(Pinners(k)) /\ (k \in Known => convs[k].pins = Cardinality(Pinners(k)))
    BY DEF IInv, PinOK
  <2>4. IsFiniteSet(Pinners(k)')
    <3>1. Pinners(k)' \in SUBSET Pinners(k)
      BY <2>1
    <3> QED
      BY <2>3, <3>1, FS_Subset
  <2> QED
    BY <1>1, <2>2, <2>3, <2>4
<1>8. LimitOK'
  BY <1>1, LimitKept DEF IInv
<1>9. ReleasedGoes'
  BY <1>1 DEF IInv, ReleasedGoes
<1>10. NoLostWakeup'
  <2> SUFFICES ASSUME NEW d \in Calls, calls'[d].kind = "asleep"
      PROVE  \/ calls'[d].h \in Known' /\ convs'[calls'[d].h].busy
             \/ \E b \in Calls : calls'[b].kind = "end" /\ calls'[b].h = calls'[d].h
    BY DEF NoLostWakeup
  <2>1. d # c /\ calls'[d] = calls[d]
    BY <1>2
  <2>2. CASE calls[d].h = h /\ calls[c].kind \in {"turn", "hold"}
    BY <1>2, <2>1, <2>2
  \* Where the one that goes ran no turn, another caller is to wake d.
  <2>3. CASE ~(calls[d].h = h /\ calls[c].kind \in {"turn", "hold"})
    <3>1. calls[c].kind # "end"
      OBVIOUS
    <3>2. \/ calls[d].h \in Known /\ convs[calls[d].h].busy
          \/ \E b \in Calls : b # c /\ calls[b].kind = "end" /\ calls[b].h = calls[d].h
      BY <2>1, <3>1 DEF IInv, NoLostWakeup
    <3>3. calls[d].h \in Known /\ convs[calls[d].h].busy => calls[d].h # h
      BY <2>3 DEF h
    <3> QED
      BY <1>1, <1>2, <2>1, <3>2, <3>3
  <2> QED
    BY <2>2, <2>3
<1>11. IdOK'
  BY <1>1, <1>2, <1>3, IdKept DEF IInv
<1> QED
  BY <1>4, <1>5, <1>6, <1>7, <1>8, <1>9, <1>10, <1>11 DEF IInv

\* All of them: the daemon died, or the session ended.
LEMMA AllGoneStep ==
    ASSUME ConversationConstants, IInv, Renumbered, convs' = Empty,
           \A c \in Calls : calls'[c].kind = "none" /\ calls'[c].h = 0,
           calls' \in [Calls -> CallType],
           UNCHANGED <<files, named>>,
           past' = past \/ past' = {v \in Vendors : files[v] # "none"}
    PROVE  IInv'
<1>1. Known' = {} /\ convs' \in [Known' -> ConvType]
  BY DEF Empty, Known
<1>3. next' \in Nat /\ \A m \in named : m \in Nat /\ m <= next'
  BY DEF Renumbered, IInv, NumberOK
<1>4. Typed'
  BY <1>1, <1>3 DEF IInv, Typed
<1>5. UserOK'
  BY <1>1 DEF UserOK, Uses
<1>6. NumberOK'
  BY <1>1, <1>3 DEF NumberOK, Idle
<1>7. PinOK'
  <2>1. \A k \in Nat \ {0} : Pinners(k)' = {}
    BY DEF Pinners
  <2> QED
    BY <1>1, <2>1, FS_EmptySet DEF PinOK
<1>8. LimitOK'
  BY <1>1, LimitKept DEF IInv
<1>9. ReleasedGoes'
  BY <1>1 DEF ReleasedGoes
<1>10. NoLostWakeup'
  BY DEF NoLostWakeup
<1>11. IdOK'
  BY <1>1 DEF IInv, IdOK, FilesOK, OneHandle, TurnOK, ApartOK
<1> QED
  BY <1>4, <1>5, <1>6, <1>7, <1>8, <1>9, <1>10, <1>11 DEF IInv

LEMMA CrashStep ==
    ASSUME ConversationConstants, IInv, Crash
    PROVE  IInv'
<1>1. /\ calls' \in [Calls -> CallType]
      /\ \A c \in Calls : calls'[c].kind = "none" /\ calls'[c].h = 0
  <2>1. NoCall.kind = "none" /\ NoCall.h = 0
    BY DEF NoCall
  <2> QED
    BY <2>1, NoCallType DEF Crash
<1> QED
  BY <1>1, AllGoneStep DEF Crash

LEMMA EndSessionStep ==
    ASSUME ConversationConstants, IInv, EndSession
    PROVE  /\ IInv'
           /\ \A h \in Known : ~convs[h].busy /\ convs[h].pins = 0
<1>1. \A c \in Calls : calls[c].kind = "none"
  BY DEF EndSession, Idle
<1>2. \A h \in Known : ~convs[h].busy
  BY <1>1 DEF IInv, UserOK, Uses
<1>3. \A h \in Known : convs[h].pins = 0
  <2> TAKE h \in Known
  <2>1. Pinners(h) = {}
    BY <1>1 DEF Pinners
  <2>2. h \in Nat \ {0}
    BY DEF IInv, NumberOK, Typed
  <2> QED
    BY <2>1, <2>2, FS_EmptySet DEF IInv, PinOK
<1>4. \A c \in Calls : calls'[c].kind = "none" /\ calls'[c].h = 0
  BY <1>1 DEF EndSession, IInv, NumberOK, Idle
<1>5. calls' \in [Calls -> CallType]
  BY DEF EndSession, IInv, Typed
<1>6. IInv'
  BY <1>4, <1>5, AllGoneStep DEF EndSession
<1> QED
  BY <1>2, <1>3, <1>6

-----------------------------------------------------------------------------
(* A conversation whose use ends, and which stays.                         *)

LEMMA SettleStep ==
    ASSUME ConversationConstants, IInv, NEW c \in Calls,
           NEW io \in Seq({"write", "remove"} \X Vendors),
           calls[c].kind \in {"turn", "hold"}, ~convs[calls[c].h].released,
           NEW y \in ConvType,
           y.cwd = convs[calls[c].h].cwd, y.pins = convs[calls[c].h].pins,
           ~y.released, ~y.busy, ~y.taken,
           \/ y.vendor = convs[calls[c].h].vendor
           \/ calls[c].kind = "turn" /\ y.vendor \in {calls[c].vendor, calls[c].cli},
           convs' = [convs EXCEPT ![calls[c].h] = y], Ending(c, io),
           UNCHANGED <<next, files, named, past>>
    PROVE  IInv'
<1> DEFINE h == calls[c].h
<1>h. h \in Known
  BY DEF IInv, UserOK
<1>1. /\ Known' = Known
      /\ convs' \in [Known' -> ConvType]
      /\ convs'[h] = y
      /\ \A k \in Known : k # h => convs'[k] = convs[k]
  BY <1>h, ConvFacts DEF IInv, Typed
<1>2. /\ calls' \in [Calls -> CallType]
      /\ calls'[c].kind = "end" /\ calls'[c].h = h
      /\ \A d \in Calls : d # c => calls'[d] = calls[d]
  BY EndingFacts DEF IInv, Typed
<1>3. \A d \in Calls : d # c /\ calls[d].kind \in {"turn", "hold"} =>
          calls[d].h \in Known /\ calls[d].h # h
  BY DEF IInv, UserOK, Uses
<1>y. /\ y.cwd = convs[h].cwd /\ y.pins = convs[h].pins
      /\ \/ y.vendor = convs[h].vendor
         \/ calls[c].kind = "turn" /\ y.vendor = calls[c].cli
  <2>1. calls[c].kind = "turn" => \/ calls[c].vendor = convs[calls[c].h].vendor
                                  \/ calls[c].vendor = calls[c].cli
    BY DEF IInv, IdOK, TurnOK
  <2> QED
    BY <2>1
<1>k. calls[c].kind \in {"turn", "hold"} /\ h = calls[c].h
  OBVIOUS
<1> HIDE DEF h
<1>4. Typed'
  BY <1>1, <1>2 DEF IInv, Typed
<1>5. UserOK'
  <2>1. \A d \in Calls : calls'[d].kind \in {"turn", "hold"} =>
            d # c /\ calls'[d] = calls[d] /\ calls[d].h \in Known /\ calls[d].h # h
    BY <1>2, <1>3
  <2>2. \A d \in Calls : calls'[d].kind \in {"turn", "hold"} =>
            /\ calls'[d].h \in Known'
            /\ convs'[calls'[d].h].busy
            /\ convs'[calls'[d].h].taken <=> calls'[d].kind = "hold"
    BY <1>1, <2>1 DEF IInv, UserOK
  <2>3. \A k \in Known' : convs'[k].busy => \E d \in Calls : Uses(d, k)'
    BY <1>1, <1>2, <1>k DEF IInv, UserOK, Uses
  <2>4. \A a, b \in Calls : \A k \in Known' : Uses(a, k)' /\ Uses(b, k)' => a = b
    BY <1>1, <2>1 DEF IInv, UserOK, Uses
  <2>5. \A k \in Known' : convs'[k].taken => convs'[k].busy /\ ~convs'[k].att
    BY <1>1 DEF IInv, UserOK
  <2> QED
    BY <2>2, <2>3, <2>4, <2>5 DEF UserOK
<1>6. NumberOK'
  BY <1>1, <1>2, <1>k DEF IInv, NumberOK, Idle
<1>7. PinOK'
  BY <1>1, <1>2, <1>y, <1>k, PinKept DEF IInv
<1>8. LimitOK'
  BY <1>1, LimitKept DEF IInv
<1>9. ReleasedGoes'
  BY <1>1 DEF IInv, ReleasedGoes
<1>10. NoLostWakeup'
  <2> SUFFICES ASSUME NEW d \in Calls, calls'[d].kind = "asleep"
      PROVE  \/ calls'[d].h \in Known' /\ convs'[calls'[d].h].busy
             \/ \E b \in Calls : calls'[b].kind = "end" /\ calls'[b].h = calls'[d].h
    BY DEF NoLostWakeup
  <2>1. d # c /\ calls'[d] = calls[d]
    BY <1>2
  <2>2. CASE calls[d].h = h
    BY <1>2, <2>1, <2>2
  <2>3. CASE calls[d].h # h
    <3>1. calls[c].kind # "end"
      OBVIOUS
    <3>2. \/ calls[d].h \in Known /\ convs[calls[d].h].busy
          \/ \E b \in Calls : b # c /\ calls[b].kind = "end" /\ calls[b].h = calls[d].h
      BY <2>1, <3>1 DEF IInv, NoLostWakeup
    <3> QED
      BY <1>1, <1>2, <2>1, <2>3, <3>2
  <2> QED
    BY <2>2, <2>3
<1>11. IdOK'
  <2>1. \A k \in Known : convs'[k].cwd = convs[k].cwd
    BY <1>1, <1>y
  <2>2. \A k \in Known : k # h => convs'[k].vendor = convs[k].vendor
    BY <1>1
  <2>3. convs'[h].vendor = y.vendor
    BY <1>1
  <2>4. \A d \in Calls : calls'[d].kind = "turn" =>
            /\ d # c /\ calls[d].kind = "turn" /\ calls[d].h \in Known /\ calls[d].h # h
            /\ calls'[d].h = calls[d].h /\ calls'[d].vendor = calls[d].vendor
            /\ calls'[d].cli = calls[d].cli
    BY <1>2, <1>3
  <2>5. FilesOK'
    BY <1>1, <1>h, <1>y, <1>k, <2>2, <2>3 DEF IInv, IdOK, FilesOK, TurnOK
  <2>6. OneHandle'
    <3> SUFFICES ASSUME NEW j \in Known, NEW k \in Known, j # k,
                        convs'[j].vendor = convs'[k].vendor, convs'[j].vendor # NoId,
                        convs'[j].cwd = convs'[k].cwd
        PROVE  FALSE
      BY <1>1 DEF OneHandle
    <3>1. CASE y.vendor = convs[h].vendor
      BY <2>1, <2>2, <2>3, <3>1 DEF IInv, IdOK, OneHandle
    <3>2. CASE y.vendor # convs[h].vendor
      <4>1. calls[c].kind = "turn" /\ y.vendor = calls[c].cli
        BY <1>y, <3>2
      <4>2. \A i \in Known : i # h /\ convs[i].cwd = convs[h].cwd
                               => convs[i].vendor # y.vendor
        BY <1>k, <4>1 DEF IInv, IdOK, TurnOK
      <4>3. CASE j # h /\ k # h
        BY <2>1, <2>2, <4>3 DEF IInv, IdOK, OneHandle
      <4>4. CASE j = h \/ k = h
        BY <2>1, <2>2, <2>3, <4>2, <4>4
      <4> QED
        BY <4>3, <4>4
    <3> QED
      BY <3>1, <3>2
  <2>7. TurnOK'
    <3> SUFFICES ASSUME NEW d \in Calls, calls'[d].kind = "turn"
        PROVE  /\ calls[d].cli \in Vendors /\ files[calls[d].cli] # "none"
               /\ \/ calls[d].vendor = convs'[calls[d].h].vendor
                  \/ convs'[calls[d].h].vendor = NoId /\ calls[d].vendor = calls[d].cli
               /\ calls[d].cli \in past => calls[d].cli = convs'[calls[d].h].vendor
               /\ \A k \in Known :
                     k # calls[d].h /\ convs'[k].cwd = convs'[calls[d].h].cwd
                         => convs'[k].vendor # calls[d].cli
      BY <1>1, <2>4 DEF TurnOK
    <3>1. /\ d # c /\ calls[d].kind = "turn" /\ calls[d].h \in Known /\ calls[d].h # h
          /\ convs'[calls[d].h].vendor = convs[calls[d].h].vendor
      BY <2>2, <2>4
    <3>2. /\ calls[d].cli \in Vendors /\ files[calls[d].cli] # "none"
          /\ \/ calls[d].vendor = convs[calls[d].h].vendor
             \/ convs[calls[d].h].vendor = NoId /\ calls[d].vendor = calls[d].cli
          /\ calls[d].cli \in past => calls[d].cli = convs[calls[d].h].vendor
          /\ \A k \in Known :
                k # calls[d].h /\ convs[k].cwd = convs[calls[d].h].cwd
                    => convs[k].vendor # calls[d].cli
      BY <3>1 DEF IInv, IdOK, TurnOK
    <3>3. calls[c].kind = "turn" /\ convs[h].cwd = convs[calls[d].h].cwd
            => calls[c].cli # calls[d].cli
      BY <1>k, <3>1 DEF IInv, IdOK, ApartOK
    <3>4. \A k \in Known : k # calls[d].h /\ convs'[k].cwd = convs'[calls[d].h].cwd
                             => convs'[k].vendor # calls[d].cli
      BY <1>h, <1>y, <2>1, <2>2, <2>3, <3>1, <3>2, <3>3
    <3> QED
      BY <3>1, <3>2, <3>4
  <2>8. ApartOK'
    BY <2>1, <2>4 DEF IInv, IdOK, ApartOK
  <2> QED
    BY <2>5, <2>6, <2>7, <2>8 DEF IdOK
<1> QED
  BY <1>4, <1>5, <1>6, <1>7, <1>8, <1>9, <1>10, <1>11 DEF IInv

-----------------------------------------------------------------------------
(* Pins.                                                                   *)

LEMMA PinStep ==
    ASSUME ConversationConstants, IInv, NEW c \in Calls, NEW h \in Handles, Pin(c, h)
    PROVE  IInv'
<1> DEFINE x == [NoCall EXCEPT !.kind = "pin", !.h = h]
           y == [convs[h] EXCEPT !.pins = @ + 1]
<1>1. x \in CallType /\ x.kind = "pin" /\ x.h = h
  BY NoCallOf, HandleType
<1>2. /\ calls' \in [Calls -> CallType] /\ calls'[c] = x
      /\ \A d \in Calls : d # c => calls'[d] = calls[d]
  BY <1>1, HoldFacts DEF Pin, IInv, Typed
<1>h. h \in Known /\ convs[h] \in ConvType /\ calls[c].kind = "none"
  BY DEF Pin, Idle, IInv, Typed
<1>y. y \in ConvType /\ y = [convs[h] EXCEPT !.pins = convs[h].pins + 1]
  BY <1>h DEF ConvType
<1>3. /\ y.cwd = convs[h].cwd /\ y.vendor = convs[h].vendor
      /\ y.busy = convs[h].busy /\ y.taken = convs[h].taken /\ y.att = convs[h].att
      /\ y.released = convs[h].released /\ y.pins = convs[h].pins + 1
  BY <1>h DEF ConvType
<1>4. /\ Known' = Known /\ convs' \in [Known' -> ConvType]
      /\ convs'[h] = y
      /\ \A k \in Known : k # h => convs'[k] = convs[k]
  <2>1. convs' = [convs EXCEPT ![h] = y]
    BY DEF Pin
  <2> HIDE DEF y
  <2> QED
    BY <2>1, <1>h, <1>y, ConvFacts DEF IInv, Typed
<1>5. UNCHANGED <<next, files, named, past>>
  BY DEF Pin
<1>6. \A d \in Calls : calls[d].kind \in {"turn", "hold"} => calls[d].h \in Known
  BY DEF IInv, UserOK
<1> HIDE DEF x, y
<1>7. Typed'
  BY <1>2, <1>4, <1>5 DEF IInv, Typed
<1>8. UserOK'
  BY <1>1, <1>2, <1>h, <1>3, <1>4, <1>6, UserKept DEF IInv
<1>9. NumberOK'
  BY <1>1, <1>2, <1>h, <1>4, <1>5 DEF IInv, NumberOK, Idle, Typed
<1>10. PinOK'
  <2> SUFFICES ASSUME NEW k \in Nat \ {0}
      PROVE  /\ IsFiniteSet(Pinners(k)')
             /\ k \in Known' => convs'[k].pins = Cardinality(Pinners(k)')
    BY DEF PinOK
  <2>1. IsFiniteSet(Pinners(k)) /\ (k \in Known => convs[k].pins = Cardinality(Pinners(k)))
    BY DEF IInv, PinOK
  <2>2. CASE k = h
    <3>1. Pinners(k)' = Pinners(k) \cup {c} /\ c \notin Pinners(k)
      BY <1>1, <1>2, <1>h, <2>2 DEF Pinners
    <3>2. IsFiniteSet(Pinners(k)') /\ Cardinality(Pinners(k)') = Cardinality(Pinners(k)) + 1
      BY <2>1, <3>1, FS_AddElement
    <3> QED
      BY <1>h, <1>3, <1>4, <2>1, <2>2, <3>2
  <2>3. CASE k # h
    <3>1. Pinners(k)' = Pinners(k)
      BY <1>1, <1>2, <1>h, <2>3 DEF Pinners
    <3> QED
      BY <1>4, <2>1, <2>3, <3>1
  <2> QED
    BY <2>2, <2>3
<1>11. LimitOK'
  BY <1>4, LimitKept DEF IInv
<1>12. ReleasedGoes'
  BY <1>3, <1>4 DEF IInv, ReleasedGoes
<1>13. NoLostWakeup'
  BY <1>1, <1>2, <1>h, <1>3, <1>4 DEF IInv, NoLostWakeup
<1>14. IdOK'
  BY <1>1, <1>2, <1>h, <1>3, <1>4, <1>5, <1>6, IdKept DEF IInv
<1> QED
  BY <1>7, <1>8, <1>9, <1>10, <1>11, <1>12, <1>13, <1>14 DEF IInv

\* A pin that goes, its conversation kept, released while it is busy, or
\* gone before it.
LEMMA UnpinnedStep ==
    ASSUME ConversationConstants, IInv, NEW c \in Calls, calls[c].kind = "pin",
           calls' = [calls EXCEPT ![c] = NoCall],
           Known' = Known, convs' \in [Known' -> ConvType],
           \A k \in Known : k # calls[c].h => convs'[k] = convs[k],
           calls[c].h \in Known =>
              LET x == convs[calls[c].h]
                  y == convs'[calls[c].h]
              IN  /\ y.cwd = x.cwd /\ y.vendor = x.vendor /\ y.busy = x.busy
                  /\ y.taken = x.taken /\ y.att = x.att /\ y.pins = x.pins - 1
                  /\ y.released = x.released \/ x.busy,
           UNCHANGED <<next, files, named, past>>
    PROVE  IInv'
<1> DEFINE h == calls[c].h
<1>1. NoCall.kind = "none" /\ NoCall.h = 0
  BY DEF NoCall
<1>2. /\ calls' \in [Calls -> CallType]
      /\ calls'[c].kind = "none" /\ calls'[c].h = 0
      /\ \A d \in Calls : d # c => calls'[d] = calls[d]
  BY <1>1, NoCallType DEF IInv, Typed
<1>3. h \in Known => /\ convs'[h].cwd = convs[h].cwd /\ convs'[h].vendor = convs[h].vendor
                     /\ convs'[h].busy = convs[h].busy /\ convs'[h].taken = convs[h].taken
                     /\ convs'[h].att = convs[h].att
                     /\ convs'[h].pins = convs[h].pins - 1
                     /\ convs'[h].released = convs[h].released \/ convs[h].busy
  OBVIOUS
<1>4. \A k \in Known : k # h => convs'[k] = convs[k]
  OBVIOUS
<1>h. calls[c].kind = "pin" /\ calls[c].h = h
  OBVIOUS
<1> HIDE DEF h
<1>6. \A d \in Calls : calls[d].kind \in {"turn", "hold"} => calls[d].h \in Known
  BY DEF IInv, UserOK
<1>k. \A k \in Known : /\ convs'[k].cwd = convs[k].cwd
                       /\ convs'[k].vendor = convs[k].vendor
                       /\ convs'[k].busy = convs[k].busy
                       /\ convs'[k].taken = convs[k].taken
                       /\ convs'[k].att = convs[k].att
  BY <1>3, <1>4
<1>7. Typed'
  BY <1>2 DEF IInv, Typed
<1>8. UserOK'
  BY <1>2, <1>h, <1>6, <1>k, UserKept DEF IInv
<1>9. NumberOK'
  BY <1>2 DEF IInv, NumberOK, Idle, Typed
<1>10. PinOK'
  <2> SUFFICES ASSUME NEW k \in Nat \ {0}
      PROVE  /\ IsFiniteSet(Pinners(k)')
             /\ k \in Known' => convs'[k].pins = Cardinality(Pinners(k)')
    BY DEF PinOK
  <2>1. IsFiniteSet(Pinners(k)) /\ (k \in Known => convs[k].pins = Cardinality(Pinners(k)))
    BY DEF IInv, PinOK
  <2>2. CASE k = h
    <3>1. Pinners(k)' = Pinners(k) \ {c} /\ c \in Pinners(k)
      BY <1>2, <1>h, <2>2 DEF Pinners
    <3>2. IsFiniteSet(Pinners(k)') /\ Cardinality(Pinners(k)') = Cardinality(Pinners(k)) - 1
      BY <2>1, <3>1, FS_RemoveElement
    <3> QED
      BY <1>3, <2>1, <2>2, <3>2
  <2>3. CASE k # h
    <3>1. Pinners(k)' = Pinners(k)
      BY <1>2, <1>h, <2>3 DEF Pinners
    <3> QED
      BY <1>4, <2>1, <2>3, <3>1
  <2> QED
    BY <2>2, <2>3
<1>11. LimitOK'
  BY LimitKept DEF IInv
<1>12. ReleasedGoes'
  BY <1>3, <1>4, <1>k DEF IInv, ReleasedGoes
<1>13. NoLostWakeup'
  BY <1>2, <1>h, <1>k DEF IInv, NoLostWakeup
<1>14. IdOK'
  BY <1>2, <1>h, <1>6, <1>k, IdKept DEF IInv
<1> QED
  BY <1>7, <1>8, <1>9, <1>10, <1>11, <1>12, <1>13, <1>14 DEF IInv

-----------------------------------------------------------------------------
(* Takeovers and turns.                                                    *)

LEMMA TakeOverStep ==
    ASSUME ConversationConstants, IInv, NEW c \in Calls, NEW h \in Handles,
           TakeOver(c, h)
    PROVE  IInv'
<1> DEFINE x == [NoCall EXCEPT !.kind = "hold", !.h = h]
           y == [convs[h] EXCEPT !.busy = TRUE, !.taken = TRUE, !.att = FALSE,
                                 !.past = FALSE]
<1>1. x \in CallType /\ x.kind = "hold" /\ x.h = h
  BY NoCallOf, HandleType
<1>2. /\ calls' \in [Calls -> CallType] /\ calls'[c] = x
      /\ \A d \in Calls : d # c => calls'[d] = calls[d]
  BY <1>1, HoldFacts DEF TakeOver, IInv, Typed
<1>h. h \in Known /\ convs[h] \in ConvType /\ calls[c].kind = "none" /\ ~convs[h].busy
  BY DEF TakeOver, Idle, IInv, Typed
<1>3. /\ y \in ConvType
      /\ y.cwd = convs[h].cwd /\ y.vendor = convs[h].vendor
      /\ y.busy /\ y.taken /\ ~y.att
      /\ y.released = convs[h].released /\ y.pins = convs[h].pins
  BY <1>h DEF ConvType
<1>4. /\ Known' = Known /\ convs' \in [Known' -> ConvType]
      /\ convs'[h] = y
      /\ \A k \in Known : k # h => convs'[k] = convs[k]
  <2>1. convs' = [convs EXCEPT ![h] = y]
    BY DEF TakeOver
  <2> HIDE DEF y
  <2> QED
    BY <2>1, <1>h, <1>3, ConvFacts DEF IInv, Typed
<1>5. UNCHANGED <<next, files, named, past>>
  BY DEF TakeOver
<1> HIDE DEF x, y
<1>6. \A d \in Calls : calls[d].kind \in {"turn", "hold"} =>
          d # c /\ calls[d].h \in Known /\ calls[d].h # h
  BY <1>h DEF IInv, UserOK
<1>7. Typed'
  BY <1>2, <1>4, <1>5 DEF IInv, Typed
<1>8. UserOK'
  <2>1. \A d \in Calls : calls'[d].kind \in {"turn", "hold"} =>
            /\ calls'[d].h \in Known'
            /\ convs'[calls'[d].h].busy
            /\ convs'[calls'[d].h].taken <=> calls'[d].kind = "hold"
    BY <1>1, <1>2, <1>h, <1>3, <1>4, <1>6 DEF IInv, UserOK
  <2>2. \A k \in Known' : convs'[k].busy => \E d \in Calls : Uses(d, k)'
    BY <1>1, <1>2, <1>h, <1>4 DEF IInv, UserOK, Uses
  <2>3. \A a, b \in Calls : \A k \in Known' : Uses(a, k)' /\ Uses(b, k)' => a = b
    BY <1>1, <1>2, <1>4, <1>6 DEF IInv, UserOK, Uses
  <2>4. \A k \in Known' : convs'[k].taken => convs'[k].busy /\ ~convs'[k].att
    BY <1>3, <1>4 DEF IInv, UserOK
  <2> QED
    BY <2>1, <2>2, <2>3, <2>4 DEF UserOK
<1>9. NumberOK'
  BY <1>1, <1>2, <1>h, <1>4, <1>5 DEF IInv, NumberOK, Idle, Typed
<1>10. PinOK'
  BY <1>1, <1>2, <1>h, <1>3, <1>4, PinKept DEF IInv
<1>11. LimitOK'
  BY <1>4, LimitKept DEF IInv
<1>12. ReleasedGoes'
  BY <1>3, <1>4 DEF IInv, ReleasedGoes
<1>13. NoLostWakeup'
  BY <1>1, <1>2, <1>h, <1>3, <1>4 DEF IInv, NoLostWakeup
<1>14. IdOK'
  <2>1. \A k \in Known : convs'[k].cwd = convs[k].cwd /\ convs'[k].vendor = convs[k].vendor
    BY <1>3, <1>4
  <2> QED
    BY <1>1, <1>2, <1>h, <1>4, <1>5, <1>6, <2>1, IdKept DEF IInv
<1> QED
  BY <1>7, <1>8, <1>9, <1>10, <1>11, <1>12, <1>13, <1>14 DEF IInv

\* A turn of conversation h begins, others of them gone: it is new, or was
\* not in use and no other conversation has its session ID.
LEMMA TurnBegins ==
    ASSUME ConversationConstants, IInv, NEW c \in Calls, calls[c].kind = "none",
           NEW h \in Nat \ {0}, h \in Known \/ next < h, h <= next',
           next <= next', next' \in Nat,
           calls' \in [Calls -> CallType],
           \A d \in Calls : d # c => calls'[d] = calls[d],
           calls'[c].kind = "turn", calls'[c].h = h, calls'[c].cli \in Vendors,
           h \in Known', Known' \subseteq Known \cup {h},
           \A k \in Known : k \notin Known' => ~convs[k].busy,
           convs' \in [Known' -> ConvType],
           \A k \in Known' : k # h => convs'[k] = convs[k],
           convs'[h].busy, ~convs'[h].taken, ~convs'[h].released,
           \/ calls'[c].vendor = convs'[h].vendor
           \/ convs'[h].vendor = NoId /\ calls'[c].vendor = calls'[c].cli,
           LimitOK',
           files' \in [Vendors -> {"none", "young", "old", "gone"}],
           \A v \in Vendors : files[v] # "none" => files'[v] # "none",
           files'[calls'[c].cli] # "none",
           \/ files[calls'[c].cli] = "none"
           \/ h \in Known /\ convs[h].vendor = calls'[c].cli,
           h \in Known => /\ ~convs[h].busy
                          /\ convs'[h].cwd = convs[h].cwd
                          /\ convs'[h].vendor = convs[h].vendor
                          /\ convs'[h].pins = convs[h].pins,
           h \notin Known => convs'[h].vendor = NoId /\ convs'[h].pins = 0,
           UNCHANGED <<named, past>>
    PROVE  IInv'
<1> DEFINE gone == Known \ Known'
           x == calls'[c]
           y == convs'[h]
<1>0. /\ x.kind = "turn" /\ x.h = h /\ x.cli \in Vendors
      /\ y.busy /\ ~y.taken /\ ~y.released
      /\ \/ x.vendor = y.vendor
         \/ y.vendor = NoId /\ x.vendor = x.cli
      /\ files'[x.cli] # "none"
      /\ \/ files[x.cli] = "none"
         \/ h \in Known /\ convs[h].vendor = x.cli
      /\ h \in Known => y.cwd = convs[h].cwd /\ y.vendor = convs[h].vendor
                          /\ y.pins = convs[h].pins
      /\ h \notin Known => y.vendor = NoId /\ y.pins = 0
      /\ convs'[h] = y
      /\ h \notin gone
      /\ Known' = (Known \ gone) \cup {h}
      /\ \A k \in Known \ gone : k # h => convs'[k] = convs[k]
  OBVIOUS
<1>1. \A k \in gone : k \in Known /\ ~convs[k].busy
  OBVIOUS
<1>2. /\ calls' \in [Calls -> CallType] /\ calls'[c] = x
      /\ \A d \in Calls : d # c => calls'[d] = calls[d]
  OBVIOUS
<1> HIDE DEF gone, x, y
<1>u. \A d \in Calls : d # c => calls'[d].kind = calls[d].kind /\ calls'[d].h = calls[d].h
  BY <1>2
<1> USE <1>0
<1>3. \A d \in Calls : calls[d].kind \in {"turn", "hold"} =>
          d # c /\ calls[d].h \in Known \ gone /\ calls[d].h # h
  BY <1>1 DEF IInv, UserOK, NumberOK, Typed
<1>4. \A d \in Calls : calls[d].h <= next
  BY DEF IInv, NumberOK
<1>7. Typed'
  BY <1>2 DEF IInv, Typed
<1>8. UserOK'
  <2>1. \A d \in Calls : calls'[d].kind \in {"turn", "hold"} =>
            /\ calls'[d].h \in Known'
            /\ convs'[calls'[d].h].busy
            /\ convs'[calls'[d].h].taken <=> calls'[d].kind = "hold"
    <3> SUFFICES ASSUME NEW d \in Calls, calls'[d].kind \in {"turn", "hold"}
        PROVE  /\ calls'[d].h \in Known'
               /\ convs'[calls'[d].h].busy
               /\ convs'[calls'[d].h].taken <=> calls'[d].kind = "hold"
      OBVIOUS
    <3>1. CASE d = c
      BY <1>2, <3>1
    <3>2. CASE d # c
      <4>1. /\ calls[d].h \in Known /\ convs[calls[d].h].busy
            /\ convs[calls[d].h].taken <=> calls[d].kind = "hold"
        BY <1>u, <3>2 DEF IInv, UserOK
      <4>2. convs'[calls[d].h] = convs[calls[d].h] /\ calls[d].h \in Known'
        BY <1>3, <1>u, <3>2
      <4> QED
        BY <1>u, <3>2, <4>1, <4>2
    <3> QED
      BY <3>1, <3>2
  <2>2. \A k \in Known' : convs'[k].busy => \E d \in Calls : Uses(d, k)'
    BY <1>2 DEF IInv, UserOK, Uses
  <2>3. \A a, b \in Calls : \A k \in Known' : Uses(a, k)' /\ Uses(b, k)' => a = b
    BY <1>2, <1>3 DEF IInv, UserOK, Uses
  <2>4. \A k \in Known' : convs'[k].taken => convs'[k].busy /\ ~convs'[k].att
    BY DEF IInv, UserOK
  <2> QED
    BY <2>1, <2>2, <2>3, <2>4 DEF UserOK
<1>9. NumberOK'
  <2>1. Known' \subseteq 1..next'
    <3>1. Known \subseteq 1..next /\ next \in Nat
      BY DEF IInv, NumberOK, Typed
    <3>2. 1..next \subseteq 1..next' /\ h \in 1..next'
      BY <3>1
    <3> QED
      BY <3>1, <3>2
  <2>2. \A d \in Calls : calls'[d].h <= next'
    <3>1. next \in Nat /\ \A d \in Calls : calls[d].h \in Nat
      BY DEF IInv, Typed, CallType
    <3>2. \A d \in Calls : d # c => calls'[d].h <= next'
      BY <1>u, <1>4, <3>1
    <3> QED
      BY <1>2, <3>2
  <2>3. \A d \in Calls : calls'[d].kind = "none" => calls'[d].h = 0
    BY <1>2 DEF IInv, NumberOK, Idle
  <2>4. \A m \in named' : m \in Nat /\ m <= next'
    BY DEF IInv, NumberOK, Typed
  <2> QED
    BY <2>1, <2>2, <2>3, <2>4 DEF NumberOK, Idle
<1>10. PinOK'
  <2>1. \A d \in Calls : \A k \in Nat \ {0} :
            calls'[d].kind = "pin" /\ calls'[d].h = k
              <=> calls[d].kind = "pin" /\ calls[d].h = k
    BY <1>2
  <2>2. \A k \in Known' : k \in Nat \ {0} =>
            \/ k \in Known /\ convs'[k].pins = convs[k].pins
            \/ convs'[k].pins = 0 /\ \A d \in Calls : calls[d].h # k
    <3> SUFFICES ASSUME NEW k \in Known', k \in Nat \ {0}
        PROVE  \/ k \in Known /\ convs'[k].pins = convs[k].pins
               \/ convs'[k].pins = 0 /\ \A d \in Calls : calls[d].h # k
      OBVIOUS
    <3>1. CASE k # h
      BY <3>1
    <3>2. CASE k = h /\ h \in Known
      BY <3>2
    <3>3. CASE k = h /\ h \notin Known
      <4>1. \A d \in Calls : calls[d].h # k
        BY <1>4, <3>3 DEF IInv, Typed, CallType
      <4> QED
        BY <3>3, <4>1
    <3> QED
      BY <3>1, <3>2, <3>3
  <2> QED
    BY <2>1, <2>2, PinKept DEF IInv
<1>12. ReleasedGoes'
  BY DEF IInv, ReleasedGoes
<1>13. NoLostWakeup'
  <2> SUFFICES ASSUME NEW d \in Calls, calls'[d].kind = "asleep"
      PROVE  \/ calls'[d].h \in Known' /\ convs'[calls'[d].h].busy
             \/ \E b \in Calls : calls'[b].kind = "end" /\ calls'[b].h = calls'[d].h
    BY DEF NoLostWakeup
  <2>1. d # c /\ calls[d].kind = "asleep" /\ calls'[d].h = calls[d].h
    BY <1>2, <1>u
  <2>2. \/ calls[d].h \in Known /\ convs[calls[d].h].busy
        \/ \E b \in Calls : b # c /\ calls[b].kind = "end" /\ calls[b].h = calls[d].h
    BY <2>1 DEF IInv, NoLostWakeup
  <2>3. CASE calls[d].h \in Known /\ convs[calls[d].h].busy
    <3>1. calls[d].h \in Known \ gone
      BY <1>1, <2>3
    <3>2. convs'[calls[d].h].busy
      BY <2>3, <3>1
    <3> QED
      BY <2>1, <3>1, <3>2
  <2>4. CASE \E b \in Calls : b # c /\ calls[b].kind = "end" /\ calls[b].h = calls[d].h
    BY <1>u, <2>1, <2>4
  <2> QED
    BY <2>2, <2>3, <2>4
<1>14. IdOK'
  <2>1. \A k \in Known \ gone : convs'[k].cwd = convs[k].cwd
                                  /\ convs'[k].vendor = convs[k].vendor
    OBVIOUS
  <2>2. \A k \in Known' : \/ k \in Known \ gone
                          \/ k = h /\ h \notin Known /\ convs'[k].vendor = NoId
    OBVIOUS
  <2>3. \A k \in Known : convs[k].vendor \in IdOrNone
    BY DEF IInv, Typed, ConvType
  <2>n. NoId \notin Vendors
    BY DEF ConversationConstants
  <2>4. FilesOK'
    BY <2>1, <2>2, <2>3 DEF IInv, IdOK, FilesOK, IdOrNone
  <2>5. OneHandle'
    BY <2>1, <2>2 DEF IInv, IdOK, OneHandle
  \* Another conversation of the directory does not have the new turn's ID.
  <2>6. \A k \in Known' : k # h /\ convs'[k].cwd = y.cwd => convs'[k].vendor # x.cli
    <3> SUFFICES ASSUME NEW k \in Known \ gone, k # h, convs[k].cwd = y.cwd,
                        convs[k].vendor = x.cli
        PROVE  FALSE
      BY <2>1, <2>2
    <3>1. files[x.cli] # "none"
      BY <2>n DEF IInv, IdOK, FilesOK
    <3>2. h \in Known /\ convs[h].vendor = x.cli /\ convs[h].cwd = y.cwd
      BY <3>1
    <3> QED
      BY <3>2, <2>n DEF IInv, IdOK, OneHandle
  <2>7. x.cli \in past => x.cli = y.vendor
    BY DEF IInv, IdOK, FilesOK
  <2>8. TurnOK'
    <3> SUFFICES ASSUME NEW d \in Calls, calls'[d].kind = "turn"
        PROVE  /\ calls'[d].cli \in Vendors /\ files'[calls'[d].cli] # "none"
               /\ \/ calls'[d].vendor = convs'[calls'[d].h].vendor
                  \/ convs'[calls'[d].h].vendor = NoId /\ calls'[d].vendor = calls'[d].cli
               /\ calls'[d].cli \in past => calls'[d].cli = convs'[calls'[d].h].vendor
               /\ \A k \in Known' :
                     k # calls'[d].h /\ convs'[k].cwd = convs'[calls'[d].h].cwd
                         => convs'[k].vendor # calls'[d].cli
      BY DEF TurnOK
    <3>1. CASE d = c
      BY <1>2, <2>6, <2>7, <3>1
    <3>2. CASE d # c
      <4>1. calls'[d] = calls[d] /\ calls[d].kind = "turn" /\ calls[d].h \in Known \ gone
        BY <1>2, <1>3, <3>2
      <4>2. /\ calls[d].cli \in Vendors /\ files[calls[d].cli] # "none"
            /\ \/ calls[d].vendor = convs[calls[d].h].vendor
               \/ convs[calls[d].h].vendor = NoId /\ calls[d].vendor = calls[d].cli
            /\ calls[d].cli \in past => calls[d].cli = convs[calls[d].h].vendor
            /\ \A k \in Known :
                  k # calls[d].h /\ convs[k].cwd = convs[calls[d].h].cwd
                      => convs[k].vendor # calls[d].cli
        BY <4>1 DEF IInv, IdOK, TurnOK
      <4>3. \A k \in Known' : k # calls[d].h /\ convs'[k].cwd = convs'[calls[d].h].cwd
                                => convs'[k].vendor # calls[d].cli
        <5> SUFFICES ASSUME NEW k \in Known', k # calls[d].h,
                            convs'[k].cwd = convs'[calls[d].h].cwd
            PROVE  convs'[k].vendor # calls[d].cli
          OBVIOUS
        <5>1. convs'[calls[d].h].cwd = convs[calls[d].h].cwd
          BY <2>1, <4>1
        <5>2. CASE k \in Known \ gone
          BY <2>1, <4>2, <5>1, <5>2
        <5>3. CASE convs'[k].vendor = NoId
          BY <2>n, <4>2, <5>3
        <5> QED
          BY <2>2, <5>2, <5>3
      <4>4. convs'[calls[d].h].vendor = convs[calls[d].h].vendor
        BY <2>1, <4>1
      <4>5. calls[d].cli \in past' => calls[d].cli = convs[calls[d].h].vendor
        BY <4>2
      <4>6. files'[calls[d].cli] # "none"
        BY <4>2
      <4> QED
        BY <4>1, <4>2, <4>3, <4>4, <4>5, <4>6
    <3> QED
      BY <3>1, <3>2
  <2>9. ApartOK'
    <3>1. \A d \in Calls : d # c /\ calls[d].kind = "turn"
                             /\ convs'[calls[d].h].cwd = y.cwd => calls[d].cli # x.cli
      <4> SUFFICES ASSUME NEW d \in Calls, d # c, calls[d].kind = "turn",
                          convs'[calls[d].h].cwd = y.cwd, calls[d].cli = x.cli
          PROVE  FALSE
        OBVIOUS
      <4>1. calls[d].h \in Known \ gone /\ calls[d].h # h /\ convs[calls[d].h].cwd = y.cwd
        BY <1>3, <2>1
      <4>2. files[x.cli] # "none"
        BY DEF IInv, IdOK, TurnOK
      <4>3. h \in Known /\ convs[h].vendor = x.cli /\ convs[h].cwd = y.cwd
        BY <4>2
      <4> QED
        BY <4>1, <4>3 DEF IInv, IdOK, TurnOK
    <3>2. \A a, b \in Calls :
              calls[a].kind = "turn" /\ calls[b].kind = "turn" /\ a # b
                /\ convs'[calls[a].h].cwd = convs'[calls[b].h].cwd
                    => calls[a].cli # calls[b].cli
      <4>1. \A a \in Calls : calls[a].kind = "turn" =>
                convs'[calls[a].h].cwd = convs[calls[a].h].cwd
        BY <1>3, <2>1
      <4> QED
        BY <4>1 DEF IInv, IdOK, ApartOK
    <3> QED
      BY <1>2, <3>1, <3>2 DEF ApartOK
  <2> QED
    BY <2>4, <2>5, <2>8, <2>9 DEF IdOK
<1> QED
  BY <1>7, <1>8, <1>9, <1>10, <1>12, <1>13, <1>14 DEF IInv

LEMMA StartStep ==
    ASSUME ConversationConstants, IInv, NEW c \in Calls, NEW d \in Dirs,
           NEW v \in Vendors, NEW assign \in BOOLEAN, Start(c, d, v, assign)
    PROVE  IInv'
<1> DEFINE gone == Expired \cup Oldest(Expired)
           h == next + 1
           x == [NoCall EXCEPT !.kind = "turn", !.h = h, !.turn = 1, !.cli = v,
                               !.vendor = IF assign THEN v ELSE NoId]
           y == NewConv(d, NoId, 0, TRUE)
<1>1. gone \subseteq Evictable /\ gone \subseteq Known
  BY GoneFacts
<1>2. h \in Nat \ {0} /\ next < h /\ h \notin Known /\ next \in Nat
  BY DEF IInv, Typed, NumberOK
<1>3. /\ x \in CallType /\ x.kind = "turn" /\ x.h = h /\ x.cli = v
      /\ x.vendor = NoId \/ x.vendor = x.cli
  BY <1>2, NoCallType DEF CallType, NoCall, IdOrNone
<1>4. /\ y \in ConvType /\ y.busy /\ ~y.taken /\ ~y.released
      /\ y.vendor = NoId /\ y.pins = 0
  BY DEF NewConv, ConvType, IdOrNone
<1>5. /\ calls[c].kind = "none" /\ files[v] = "none" /\ HasRoom(gone)
      /\ next' = h
      /\ convs' = [k \in (Known \ gone) \cup {h} |-> IF k = h THEN y ELSE convs[k]]
      /\ files' = [files EXCEPT ![v] = "young"]
      /\ calls' = [calls EXCEPT ![c] = x]
      /\ UNCHANGED <<named, past>>
  BY DEF Start, Idle, Hold
<1>6. \A k \in Known : convs[k] \in ConvType
  BY DEF IInv, Typed
<1> HIDE DEF gone, h, x, y
<1>7. /\ Known' = (Known \ gone) \cup {h}
      /\ convs' \in [Known' -> ConvType]
      /\ convs'[h] = y
      /\ \A k \in Known \ gone : k # h => convs'[k] = convs[k]
  <2>1. Known' = (Known \ gone) \cup {h}
    BY <1>5 DEF Known
  <2> QED
    BY <1>4, <1>5, <1>6, <2>1
<1>8. /\ files' \in [Vendors -> {"none", "young", "old", "gone"}]
      /\ \A w \in Vendors : files[w] # "none" => files'[w] # "none"
      /\ files'[v] # "none"
  BY <1>5 DEF IInv, Typed
<1>9. LimitOK'
  BY <1>5, <1>7, LimitMade DEF IInv
<1>10. next <= next' /\ next' \in Nat /\ h <= next'
  BY <1>1, <1>2, <1>5
<1> QED
  <2>1. /\ calls' \in [Calls -> CallType] /\ calls'[c] = x
        /\ \A e \in Calls : e # c => calls'[e] = calls[e]
    BY <1>3, <1>5 DEF IInv, Typed
  <2>2. /\ h \in Known' /\ Known' \subseteq Known \cup {h}
        /\ \A k \in Known : k \notin Known' => ~convs[k].busy
        /\ \A k \in Known' : k # h => convs'[k] = convs[k]
    BY <1>1, <1>7 DEF Evictable
  <2>3. /\ calls'[c].kind = "turn" /\ calls'[c].h = h /\ calls'[c].cli = v
        /\ convs'[h].busy /\ ~convs'[h].taken /\ ~convs'[h].released
        /\ \/ calls'[c].vendor = convs'[h].vendor
           \/ convs'[h].vendor = NoId /\ calls'[c].vendor = calls'[c].cli
    BY <1>3, <1>4, <1>7, <2>1
  <2>4. /\ h \in Known => /\ ~convs[h].busy
                          /\ convs'[h].cwd = convs[h].cwd
                          /\ convs'[h].vendor = convs[h].vendor
                          /\ convs'[h].pins = convs[h].pins
        /\ h \notin Known => convs'[h].vendor = NoId /\ convs'[h].pins = 0
    BY <1>2, <1>4, <1>7
  <2>5. files[v] = "none" \/ (h \in Known /\ convs[h].vendor = v)
    BY <1>5
  <2>6. calls[c].kind = "none" /\ UNCHANGED <<named, past>>
    BY <1>5
  <2> QED
    BY <1>2, <2>6, <1>7, <1>8, <1>9, <1>10, <2>1, <2>2, <2>3, <2>4, <2>5, TurnBegins

LEMMA ContinueStep ==
    ASSUME ConversationConstants, IInv, NEW c \in Calls, NEW h \in Handles,
           NEW d \in Dirs, NEW v \in Vendors, Continue(c, h, d, v)
    PROVE  IInv'
<1> DEFINE x == [NoCall EXCEPT !.kind = "turn", !.h = h, !.turn = convs[h].turns + 1,
                               !.vendor = convs[h].vendor, !.cli = v,
                               !.att = convs[h].att]
           y == [convs[h] EXCEPT !.busy = TRUE, !.past = FALSE]
<1>1. Expired \subseteq Evictable
  BY GoneFacts
<1>2. /\ h \in Known \ Expired /\ ~convs[h].busy /\ ~convs[h].taken
      /\ calls[c].kind = "none"
      /\ v = convs[h].vendor \/ files[v] = "none"
      /\ convs' = [Without(convs, Expired) EXCEPT ![h].busy = TRUE, ![h].past = FALSE]
      /\ files' = [files EXCEPT ![v] = IF @ = "gone" THEN @ ELSE "young"]
      /\ calls' = [calls EXCEPT ![c] = x]
      /\ UNCHANGED <<next, named, past>>
  BY DEF Continue, Idle, Hold
<1>3. convs[h] \in ConvType /\ h \in Nat \ {0}
  BY <1>2, HandleType DEF IInv, Typed
<1>4. /\ x \in CallType /\ x.kind = "turn" /\ x.h = h /\ x.cli = v
      /\ x.vendor = convs[h].vendor
  <2>1. /\ convs[h].turns + 1 \in Nat /\ convs[h].vendor \in IdOrNone
        /\ convs[h].att \in BOOLEAN /\ v \in IdOrNone
    BY <1>3 DEF ConvType, IdOrNone
  <2> QED
    BY <1>3, <2>1, NoCallType DEF CallType, NoCall
<1>5. /\ y \in ConvType /\ y.busy /\ ~y.taken /\ y.released = convs[h].released
      /\ y.vendor = convs[h].vendor /\ y.pins = convs[h].pins /\ y.cwd = convs[h].cwd
  BY <1>2, <1>3 DEF ConvType
<1>6. ~y.released
  BY <1>2, <1>5 DEF IInv, ReleasedGoes
<1>7. /\ Known' = Known \ Expired
      /\ convs' \in [Known' -> ConvType]
      /\ convs'[h] = y
      /\ \A k \in Known \ Expired : k # h => convs'[k] = convs[k]
  <2>1. Without(convs, Expired) = [k \in Known \ Expired |-> convs[k]]
    BY DEF Without, Known
  <2>2. convs' = [k \in Known \ Expired |-> IF k = h THEN y ELSE convs[k]]
    BY <1>2, <2>1
  <2>3. \A k \in Known : convs[k] \in ConvType
    BY DEF IInv, Typed
  <2>4. Known' = Known \ Expired
    BY <2>2 DEF Known
  <2> HIDE DEF y
  <2> QED
    BY <1>2, <1>5, <2>2, <2>3, <2>4
<1> HIDE DEF x, y
<1>8. /\ files' \in [Vendors -> {"none", "young", "old", "gone"}]
      /\ \A w \in Vendors : files[w] # "none" => files'[w] # "none"
      /\ files'[v] # "none"
  BY <1>2 DEF IInv, Typed
<1>9. LimitOK'
  BY <1>7, LimitKept DEF IInv
<1>10. next \in Nat /\ h <= next
  BY <1>2 DEF IInv, Typed, NumberOK
<1> QED
  <2>1. /\ calls' \in [Calls -> CallType] /\ calls'[c] = x
        /\ \A e \in Calls : e # c => calls'[e] = calls[e]
    BY <1>2, <1>4 DEF IInv, Typed
  <2>2. /\ h \in Known' /\ Known' \subseteq Known \cup {h}
        /\ \A k \in Known : k \notin Known' => ~convs[k].busy
        /\ \A k \in Known' : k # h => convs'[k] = convs[k]
    BY <1>1, <1>2, <1>7 DEF Evictable
  <2>3. /\ calls'[c].kind = "turn" /\ calls'[c].h = h /\ calls'[c].cli = v
        /\ convs'[h].busy /\ ~convs'[h].taken /\ ~convs'[h].released
        /\ \/ calls'[c].vendor = convs'[h].vendor
           \/ convs'[h].vendor = NoId /\ calls'[c].vendor = calls'[c].cli
    BY <1>4, <1>5, <1>6, <1>7, <2>1
  <2>4. /\ h \in Known => /\ ~convs[h].busy
                          /\ convs'[h].cwd = convs[h].cwd
                          /\ convs'[h].vendor = convs[h].vendor
                          /\ convs'[h].pins = convs[h].pins
        /\ h \notin Known => convs'[h].vendor = NoId /\ convs'[h].pins = 0
    BY <1>2, <1>5, <1>7
  <2>5. files[v] = "none" \/ (h \in Known /\ convs[h].vendor = v)
    BY <1>2
  <2> QED
    BY <1>2, <1>3, <1>7, <1>8, <1>9, <1>10, <2>1, <2>2, <2>3, <2>4, <2>5, TurnBegins

LEMMA AdoptStep ==
    ASSUME ConversationConstants, IInv, NEW c \in Calls, NEW d \in Dirs,
           NEW v \in Vendors, Adopt(c, d, v)
    PROVE  IInv'
<1>1. UNCHANGED <<files, named, past>> /\ v \in past /\ calls[c].kind = "none"
  BY DEF Adopt, Idle
<1>2. CASE HeldAs(v, d) # {}
  <2>1. UNCHANGED <<next, calls>>
    BY <1>2 DEF Adopt
  <2>2. PICK k \in Known : convs' = [convs EXCEPT ![k].past = FALSE]
    BY <1>2 DEF Adopt, HeldAs
  <2>3. Known' = Known /\ convs' \in [Known -> ConvType]
    BY ZenonT(60), <2>2 DEF IInv, Typed, ConvType, Known
  <2>4. \A i \in Known : Alike(convs'[i], convs[i])
    BY <2>2 DEF IInv, Typed, ConvType, Known, Alike
  <2>5. Typed'
    BY <1>1, <2>1, <2>3 DEF IInv, Typed
  <2> QED
    BY <1>1, <2>1, <2>3, <2>4, <2>5, QuietStep DEF AlikeCall
<1>3. CASE HeldAs(v, d) = {}
  <2> DEFINE gone == Oldest({})
             h == next + 1
             x == [NoCall EXCEPT !.kind = "mark", !.io = Mark("write", v)]
             y == NewConv(d, v, 1, FALSE)
  <2>1. /\ HasRoom(gone)
        /\ next' = h
        /\ convs' = [k \in (Known \ gone) \cup {h} |-> IF k = h THEN y ELSE convs[k]]
        /\ Hold(c, x)
    BY <1>3 DEF Adopt
  <2>2. \A k \in gone : k \in Known /\ ~convs[k].busy
    BY GoneFacts
  <2>3. h \in Nat \ {0} /\ next < h /\ h \notin Known /\ next \in Nat
    BY DEF IInv, Typed, NumberOK
  <2>4. x \in CallType /\ x.kind = "mark" /\ x.h = 0
    <3>1. Mark("write", v) \in Seq({"write", "remove"} \X Vendors)
      BY MarkType DEF IdOrNone
    <3> QED
      BY <3>1, NoCallType DEF CallType, NoCall
  <2>5. /\ y \in ConvType /\ ~y.busy /\ ~y.taken /\ ~y.released
        /\ y.vendor = v /\ y.pins = 0 /\ y.cwd = d
    BY DEF NewConv, ConvType, IdOrNone
  <2>6. \A k \in Known : convs[k] \in ConvType
    BY DEF IInv, Typed
  <2> HIDE DEF gone, h, x, y
  <2>7. /\ Known' = (Known \ gone) \cup {h}
        /\ convs' \in [Known' -> ConvType]
        /\ convs'[h] = y
        /\ \A k \in Known \ gone : convs'[k] = convs[k]
    <3>1. Known' = (Known \ gone) \cup {h}
      BY <2>1 DEF Known
    <3> QED
      BY <2>1, <2>3, <2>5, <2>6, <3>1
  <2>8. /\ calls' \in [Calls -> CallType]
        /\ calls'[c].kind = "mark" /\ calls'[c].h = 0
        /\ \A e \in Calls : e # c => calls'[e] = calls[e]
    BY <2>1, <2>4, HoldFacts DEF IInv, Typed
  <2>9. \A e \in Calls : calls[e].kind \in {"turn", "hold"} =>
            e # c /\ calls[e].h \in Known \ gone /\ calls[e].h # h
    BY <1>1, <2>2, <2>3 DEF IInv, UserOK
  <2>10. \A e \in Calls : calls[e].h <= next
    BY DEF IInv, NumberOK
  <2>11. Typed'
    BY <1>1, <2>1, <2>3, <2>7, <2>8 DEF IInv, Typed
  <2>12. UserOK'
    <3>1. \A e \in Calls : calls'[e].kind \in {"turn", "hold"} =>
              /\ calls'[e].h \in Known'
              /\ convs'[calls'[e].h].busy
              /\ convs'[calls'[e].h].taken <=> calls'[e].kind = "hold"
      BY <2>7, <2>8, <2>9 DEF IInv, UserOK
    <3>2. \A k \in Known' : convs'[k].busy => \E e \in Calls : Uses(e, k)'
      BY <1>1, <2>5, <2>7, <2>8 DEF IInv, UserOK, Uses
    <3>3. \A a, b \in Calls : \A k \in Known' : Uses(a, k)' /\ Uses(b, k)' => a = b
      BY <2>7, <2>8, <2>9 DEF IInv, UserOK, Uses
    <3>4. \A k \in Known' : convs'[k].taken => convs'[k].busy /\ ~convs'[k].att
      BY <2>5, <2>7 DEF IInv, UserOK
    <3> QED
      BY <3>1, <3>2, <3>3, <3>4 DEF UserOK
  <2>13. NumberOK'
    <3>1. Known \subseteq 1..next /\ \A m \in named : m \in Nat /\ m <= next
      BY DEF IInv, NumberOK
    <3>2. next' = next + 1
      BY <2>1 DEF h
    <3>3. Known' \subseteq 1..next'
      <4>1. 1..next \subseteq 1..next' /\ h \in 1..next'
        BY <2>1, <2>3, <3>2
      <4> QED
        BY <2>7, <3>1, <4>1
    <3>4. \A m \in named' : m \in Nat /\ m <= next'
      BY <1>1, <2>3, <3>1, <3>2
    <3>5. \A e \in Calls : calls'[e].h <= next'
      <4>1. \A e \in Calls : calls[e].h \in Nat
        BY DEF IInv, Typed, CallType
      <4>2. \A e \in Calls : e # c => calls'[e].h <= next'
        BY <2>3, <2>8, <2>10, <3>2, <4>1
      <4>3. calls'[c].h <= next'
        BY <2>3, <2>8, <3>2
      <4> QED
        BY <4>2, <4>3
    <3>6. \A e \in Calls : calls'[e].kind = "none" => calls'[e].h = 0
      BY <2>8 DEF IInv, NumberOK, Idle
    <3> QED
      BY <3>3, <3>4, <3>5, <3>6 DEF NumberOK, Idle
  <2>14. PinOK'
    <3>1. \A e \in Calls : calls[e].h # h
      BY <2>3, <2>10 DEF IInv, Typed, CallType
    <3> QED
      BY <1>1, <2>5, <2>7, <2>8, <3>1, PinKept DEF IInv
  <2>15. LimitOK'
    BY <2>1, <2>7, LimitMade DEF IInv
  <2>16. ReleasedGoes'
    BY <2>5, <2>7 DEF IInv, ReleasedGoes
  <2>17. NoLostWakeup'
    BY <1>1, <2>2, <2>7, <2>8 DEF IInv, NoLostWakeup
  <2>18. IdOK'
    <3>1. \A k \in Known' : \/ k \in Known \ gone /\ convs'[k] = convs[k]
                            \/ k = h /\ convs'[k].vendor = v /\ convs'[k].cwd = d
      BY <2>5, <2>7
    <3>2. \A k \in Known : ~(convs[k].vendor = v /\ convs[k].cwd = d)
      BY <1>3 DEF HeldAs
    <3>3. \A k \in Known : convs[k].vendor \in IdOrNone
      BY DEF IInv, Typed, ConvType
    <3>4. FilesOK'
      BY <1>1, <3>1, <3>3 DEF IInv, IdOK, FilesOK, IdOrNone
    <3>5. OneHandle'
      BY <3>1, <3>2 DEF IInv, IdOK, OneHandle
    <3>6. \A e \in Calls : calls'[e].kind = "turn" =>
              /\ calls'[e] = calls[e] /\ calls[e].h \in Known \ gone /\ calls[e].h # h
              /\ convs'[calls[e].h] = convs[calls[e].h]
      BY <2>7, <2>8, <2>9
    \* A turn that will leave `v` here has it here already.
    <3>7. \A e \in Calls : calls[e].kind = "turn" /\ convs[calls[e].h].cwd = d
                             => calls[e].cli # v
      BY <1>1, <3>2, <2>9 DEF IInv, IdOK, TurnOK
    <3>8. TurnOK'
      <4> SUFFICES ASSUME NEW e \in Calls, calls'[e].kind = "turn"
          PROVE  /\ calls[e].cli \in Vendors /\ files'[calls[e].cli] # "none"
                 /\ \/ calls[e].vendor = convs[calls[e].h].vendor
                    \/ convs[calls[e].h].vendor = NoId /\ calls[e].vendor = calls[e].cli
                 /\ calls[e].cli \in past' => calls[e].cli = convs[calls[e].h].vendor
                 /\ \A k \in Known' :
                       k # calls[e].h /\ convs'[k].cwd = convs[calls[e].h].cwd
                           => convs'[k].vendor # calls[e].cli
        BY <3>6 DEF TurnOK
      <4>1. calls[e].kind = "turn"
        BY <3>6
      <4> QED
        BY <1>1, <3>1, <3>6, <3>7, <4>1 DEF IInv, IdOK, TurnOK
    <3>9. ApartOK'
      BY <3>6 DEF IInv, IdOK, ApartOK
    <3> QED
      BY <3>4, <3>5, <3>8, <3>9 DEF IdOK
  <2> QED
    BY <2>11, <2>12, <2>13, <2>14, <2>15, <2>16, <2>17, <2>18 DEF IInv
<1> QED
  BY <1>2, <1>3

LEMMA RefusedStep ==
    ASSUME ConversationConstants, IInv, NEW c \in Calls, NEW evicts \in BOOLEAN,
           Refused(c, evicts)
    PROVE  IInv'
BY EvictStep, GoneFacts DEF Refused, Forget

LEMMA FinishUnknownStep ==
    ASSUME ConversationConstants, IInv, NEW c \in Calls, FinishUnknown(c)
    PROVE  IInv'
<1>1. calls[c].vendor \in IdOrNone
  BY DEF IInv, Typed, CallType
<1>2. Mark("remove", calls[c].vendor) \in Seq({"write", "remove"} \X Vendors)
  BY <1>1, MarkType
<1> QED
  BY <1>2, DropStep DEF FinishUnknown, Drops

\* Marker operations one after the other.
LEMMA MarksType ==
    ASSUME NEW s \in Seq({"write", "remove"} \X Vendors),
           NEW t \in Seq({"write", "remove"} \X Vendors)
    PROVE  s \o t \in Seq({"write", "remove"} \X Vendors)
OBVIOUS

LEMMA FinishStep ==
    ASSUME ConversationConstants, IInv, NEW c \in Calls, NEW reported \in BOOLEAN,
           Finish(c, reported)
    PROVE  IInv'
<1> DEFINE h == calls[c].h
           v == IF reported THEN calls[c].cli ELSE calls[c].vendor
<1>1. /\ calls[c].kind = "turn" /\ h \in Known
      /\ UNCHANGED <<next, files, named, past>>
  BY DEF Finish
<1>2. /\ v \in IdOrNone /\ convs[h] \in ConvType /\ convs[h].vendor \in IdOrNone
      /\ calls[c].turn \in Nat /\ calls[c].att \in BOOLEAN
  BY <1>1 DEF IInv, Typed, CallType, ConvType
<1>3. /\ Mark("remove", convs[h].vendor) \in Seq({"write", "remove"} \X Vendors)
      /\ Mark("remove", v) \in Seq({"write", "remove"} \X Vendors)
      /\ Mark("write", v) \in Seq({"write", "remove"} \X Vendors)
  BY <1>2, MarkType
<1>4. CASE convs[h].released
  <2> DEFINE io == Mark("remove", convs[h].vendor) \o Mark("remove", v)
  <2>1. io \in Seq({"write", "remove"} \X Vendors)
    BY <1>3, MarksType
  <2>2. convs' = Without(convs, {calls[c].h}) /\ Ending(c, io)
    BY <1>4 DEF Finish, Drops
  <2> HIDE DEF io
  <2> QED
    BY <1>1, <2>1, <2>2, DropStep
<1>5. CASE ~convs[h].released
  <2> DEFINE io == (IF convs[h].vendor # v
                    THEN Mark("remove", convs[h].vendor) ELSE <<>>) \o Mark("write", v)
             y == Finished(convs[h], calls[c], v)
  <2>1. io \in Seq({"write", "remove"} \X Vendors)
    <3>1. <<>> \in Seq({"write", "remove"} \X Vendors)
      BY EmptySeq
    <3> QED
      BY <1>3, <3>1, MarksType
  <2>2. convs' = [convs EXCEPT ![calls[c].h] = y] /\ Ending(c, io)
    BY <1>5 DEF Finish
  <2>3. /\ y \in ConvType /\ y.cwd = convs[h].cwd /\ y.pins = convs[h].pins
        /\ y.released = convs[h].released /\ ~y.busy /\ y.taken = convs[h].taken
        /\ y.vendor = v
    <3>1. (convs[h].att \/ calls[c].att) \in BOOLEAN
      BY <1>2
    <3> QED
      BY <1>2, <3>1 DEF ConvType, Finished
  <2>4. ~convs[h].taken
    BY <1>1 DEF IInv, UserOK
  <2>5. y.vendor \in {calls[c].vendor, calls[c].cli}
    BY <2>3
  <2> HIDE DEF io, y, v
  <2> QED
    BY <1>1, <1>5, <2>1, <2>2, <2>3, <2>4, <2>5, SettleStep
<1> QED
  BY <1>4, <1>5

LEMMA ForgetTurnStep ==
    ASSUME ConversationConstants, IInv, NEW c \in Calls, ForgetTurn(c)
    PROVE  IInv'
<1> DEFINE io == (IF calls[c].h \in Known
                  THEN Mark("remove", convs[calls[c].h].vendor) ELSE <<>>)
                 \o Mark("remove", calls[c].vendor)
<1>1. calls[c].kind = "turn" /\ calls[c].h \in Known
  BY DEF ForgetTurn, IInv, UserOK
<1>2. calls[c].vendor \in IdOrNone /\ convs[calls[c].h].vendor \in IdOrNone
  BY <1>1 DEF IInv, Typed, CallType, ConvType
<1>3. io \in Seq({"write", "remove"} \X Vendors)
  BY <1>1, <1>2, MarkType, MarksType
<1>4. /\ convs' = Without(convs, {calls[c].h}) /\ Ending(c, io)
      /\ UNCHANGED <<next, files, named, past>>
  BY DEF ForgetTurn, Drops
<1> HIDE DEF io
<1> QED
  BY <1>1, <1>3, <1>4, DropStep

LEMMA DropTurnStep ==
    ASSUME ConversationConstants, IInv, NEW c \in Calls, DropTurn(c)
    PROVE  IInv'
<1> DEFINE h == calls[c].h
<1>1. /\ calls[c].kind = "turn" /\ h \in Known
      /\ UNCHANGED <<next, files, named, past>>
  BY DEF DropTurn, IInv, UserOK
<1>2. /\ calls[c].vendor \in IdOrNone /\ convs[h] \in ConvType
      /\ convs[h].vendor \in IdOrNone
  BY <1>1 DEF IInv, Typed, CallType, ConvType
<1>3. /\ Mark("remove", convs[h].vendor) \in Seq({"write", "remove"} \X Vendors)
      /\ Mark("remove", calls[c].vendor) \in Seq({"write", "remove"} \X Vendors)
      /\ <<>> \in Seq({"write", "remove"} \X Vendors)
  BY <1>2, MarkType, EmptySeq
<1>4. CASE Drops(h) /\ (Ending(c, Mark("remove", calls[c].vendor))
                          \/ Ending(c, Mark("remove", convs[h].vendor)))
  BY <1>1, <1>3, <1>4, DropStep DEF Drops
<1>5. CASE /\ ~convs[h].released /\ Ending(c, <<>>)
           /\ convs' = [convs EXCEPT ![h].busy = FALSE]
  <2> DEFINE y == [convs[h] EXCEPT !.busy = FALSE]
  <2>1. convs' = [convs EXCEPT ![calls[c].h] = y]
    BY <1>5
  <2>2. /\ y \in ConvType /\ y.cwd = convs[h].cwd /\ y.pins = convs[h].pins
        /\ y.released = convs[h].released /\ ~y.busy /\ y.taken = convs[h].taken
        /\ y.vendor = convs[h].vendor
    BY <1>2 DEF ConvType
  <2>3. ~convs[h].taken
    BY <1>1 DEF IInv, UserOK
  <2> HIDE DEF y
  <2> QED
    BY <1>1, <1>3, <1>5, <2>1, <2>2, <2>3, SettleStep
<1> QED
  BY <1>4, <1>5 DEF DropTurn

LEMMA UnpinStep ==
    ASSUME ConversationConstants, IInv, NEW c \in Calls, Unpin(c)
    PROVE  IInv'
<1>1. /\ calls[c].kind = "pin" /\ calls' = [calls EXCEPT ![c] = NoCall]
      /\ UNCHANGED <<next, files, named, past>>
      /\ convs' = [h \in Known |-> IF h = calls[c].h
                                   THEN [convs[h] EXCEPT !.pins = convs[h].pins - 1]
                                   ELSE convs[h]]
  BY DEF Unpin
<1>2. \A h \in Known :
          LET x == convs[h]
              y == [convs[h] EXCEPT !.pins = convs[h].pins - 1]
          IN  /\ x \in ConvType /\ y \in ConvType
              /\ y.cwd = x.cwd /\ y.vendor = x.vendor /\ y.busy = x.busy
              /\ y.taken = x.taken /\ y.att = x.att /\ y.pins = x.pins - 1
              /\ y.released = x.released
  BY DEF IInv, Typed, ConvType
<1>3. Known' = Known /\ convs' \in [Known' -> ConvType]
  BY <1>1, <1>2 DEF Known
<1> QED
  BY <1>1, <1>2, <1>3, UnpinnedStep

LEMMA ReleaseStep ==
    ASSUME ConversationConstants, IInv, NEW c \in Calls, Release(c)
    PROVE  IInv'
<1> DEFINE h == calls[c].h
<1>1. calls[c].kind = "pin" /\ UNCHANGED <<next, files, named, past>>
  BY DEF Release
<1>2. CASE /\ h \in Known /\ convs[h].busy
           /\ convs' = [convs EXCEPT ![h].released = TRUE, ![h].pins = @ - 1]
           /\ calls' = [calls EXCEPT ![c] = NoCall]
  <2> DEFINE y == [convs[h] EXCEPT !.released = TRUE, !.pins = convs[h].pins - 1]
  <2>1. convs[h] \in ConvType
    BY <1>2 DEF IInv, Typed
  <2>p. convs[h].pins - 1 \in Int
    BY <2>1 DEF ConvType
  <2>2. /\ y \in ConvType /\ y.cwd = convs[h].cwd /\ y.vendor = convs[h].vendor
        /\ y.busy = convs[h].busy /\ y.taken = convs[h].taken /\ y.att = convs[h].att
        /\ y.pins = convs[h].pins - 1
    BY <2>1, <2>p DEF ConvType
  <2>3. convs' = [convs EXCEPT ![h] = y]
    BY <1>2
  <2> HIDE DEF y
  <2>4. /\ Known' = Known /\ convs' \in [Known' -> ConvType]
        /\ convs'[h] = y
        /\ \A k \in Known : k # h => convs'[k] = convs[k]
    BY <1>2, <2>2, <2>3, ConvFacts DEF IInv, Typed
  <2> QED
    BY <1>1, <1>2, <2>2, <2>4, UnpinnedStep
<1>3. CASE /\ h \in Known /\ ~convs[h].busy /\ Drops(h)
           /\ Marking(c, Mark("remove", convs[h].vendor))
  <2>1. convs[h].vendor \in IdOrNone
    BY <1>3 DEF IInv, Typed, ConvType
  <2>2. Mark("remove", convs[h].vendor) \in Seq({"write", "remove"} \X Vendors)
    BY <2>1, MarkType
  <2> QED
    BY <1>1, <1>3, <2>2, DropStep DEF Drops
<1>4. CASE h \notin Known /\ calls' = [calls EXCEPT ![c] = NoCall] /\ convs' = convs
  <2>1. Known' = Known /\ convs' \in [Known' -> ConvType]
    BY <1>4 DEF IInv, Typed, Known
  <2> QED
    BY <1>1, <1>4, <2>1, UnpinnedStep
<1> QED
  BY <1>2, <1>3, <1>4 DEF Release

LEMMA EndTakeoverStep ==
    ASSUME ConversationConstants, IInv, NEW c \in Calls, EndTakeover(c)
    PROVE  IInv'
<1> DEFINE h == calls[c].h
<1>1. /\ calls[c].kind = "hold" /\ h \in Known
      /\ UNCHANGED <<next, files, named, past>>
  BY DEF EndTakeover
<1>2. convs[h] \in ConvType /\ convs[h].vendor \in IdOrNone
  BY <1>1 DEF IInv, Typed, ConvType
<1>3. /\ Mark("remove", convs[h].vendor) \in Seq({"write", "remove"} \X Vendors)
      /\ <<>> \in Seq({"write", "remove"} \X Vendors)
  BY <1>2, MarkType, EmptySeq
<1>4. CASE convs[h].released
  BY <1>1, <1>3, <1>4, DropStep DEF EndTakeover, Drops
<1>5. CASE ~convs[h].released
  <2> DEFINE y == [convs[h] EXCEPT !.busy = FALSE, !.taken = FALSE, !.past = FALSE]
  <2>1. convs' = [convs EXCEPT ![calls[c].h] = y] /\ Ending(c, <<>>)
    BY <1>5 DEF EndTakeover
  <2>2. /\ y \in ConvType /\ y.cwd = convs[h].cwd /\ y.pins = convs[h].pins
        /\ y.released = convs[h].released /\ ~y.busy /\ ~y.taken
        /\ y.vendor = convs[h].vendor
    BY <1>2 DEF ConvType
  <2> HIDE DEF y
  <2> QED
    BY <1>1, <1>3, <1>5, <2>1, <2>2, SettleStep
<1> QED
  BY <1>4, <1>5

-----------------------------------------------------------------------------
(* The invariant, and what follows from it.                                *)

\* Before the first call nothing is remembered.
LEMMA InitOK == ASSUME ConversationConstants, Init PROVE IInv
<1>1. Known = {} /\ next = 0 /\ past = {} /\ named = {}
  BY DEF Init, Empty, Known
<1>2. /\ calls \in [Calls -> CallType]
      /\ \A c \in Calls : calls[c].kind = "none" /\ calls[c].h = 0
  <2>1. NoCall.kind = "none" /\ NoCall.h = 0
    BY DEF NoCall
  <2> QED
    BY <2>1, NoCallType DEF Init
<1>3. Typed
  BY <1>1, <1>2 DEF Init, Typed, Empty, Known
<1>4. UserOK
  BY <1>1, <1>2 DEF UserOK, Uses
<1>5. NumberOK
  BY <1>1, <1>2 DEF NumberOK, Idle
<1>6. PinOK
  <2>1. \A h \in Nat \ {0} : Pinners(h) = {}
    BY <1>2 DEF Pinners
  <2> QED
    BY <1>1, <2>1, FS_EmptySet DEF PinOK
<1>7. LimitOK
  BY <1>1, FS_EmptySet DEF LimitOK, WithinLimit, ConversationConstants
<1>8. ReleasedGoes /\ NoLostWakeup
  BY <1>1, <1>2 DEF ReleasedGoes, NoLostWakeup
<1>9. IdOK
  BY <1>1, <1>2 DEF IdOK, FilesOK, OneHandle, TurnOK, ApartOK
<1> QED
  BY <1>3, <1>4, <1>5, <1>6, <1>7, <1>8, <1>9 DEF IInv

\* A step that changes nothing here keeps it.
LEMMA StutterOK == ASSUME IInv, UNCHANGED vars PROVE IInv'
BY DEF vars, IInv, Typed, UserOK, Uses, NumberOK, Idle, PinOK, Pinners, LimitOK,
       WithinLimit, ReleasedGoes, NoLostWakeup, IdOK, FilesOK, OneHandle, TurnOK,
       ApartOK, Known

\* Every step keeps the invariant.
LEMMA StepOK == ASSUME ConversationConstants, IInv, [Next]_vars PROVE IInv'
<1>1. ASSUME NEW c \in Calls, CallStep(c) PROVE IInv'
  BY <1>1, StartStep, ContinueStep, AdoptStep, RefusedStep, PinStep, TakeOverStep,
     WaitIdleStep, OpenActivityStep, AttachStep, UnpinStep, ReleaseStep DEF CallStep
<1>2. ASSUME NEW c \in Calls, TurnEnds(c) PROVE IInv'
  BY <1>2, FinishUnknownStep, ForgetTurnStep, DropTurnStep, EndTakeoverStep, FinishStep
  DEF TurnEnds
<1>3. ASSUME NEW c \in Calls, Settles(c) PROVE IInv'
  BY <1>3, MarkerIoStep, EndedStep, LookStep DEF Settles
<1>4. CASE \E h \in Handles : TimePasses(h)
  BY <1>4, TimePassesStep
<1>5. CASE \E v \in Vendors : Ages(v)
  BY <1>5, AgesStep
<1>6. CASE GcLive \/ GcRemove \/ RemoveStaleMarkers
  BY <1>6, GcStep
<1>7. CASE Crash
  BY <1>7, CrashStep
<1>8. CASE EndSession
  BY <1>8, EndSessionStep
<1>9. CASE UNCHANGED vars
  BY <1>9, StutterOK
<1> QED
  BY <1>1, <1>2, <1>3, <1>4, <1>5, <1>6, <1>7, <1>8, <1>9 DEF Next

\* The invariant holds of every behaviour.
THEOREM Invariance == ASSUME ConversationConstants PROVE Spec => []IInv
<1>1. Init => IInv
  BY InitOK
<1>2. IInv /\ [Next]_vars => IInv'
  BY StepOK
<1> QED
  BY <1>1, <1>2, PTL DEF Spec

\* A turn or a takeover has its conversation alone, one session of the
\* agent's own is one conversation of a directory, the session stays within
\* its limit, and a released conversation goes with its turn (begin,
\* continue_in, take_over, adopt, make_room, release).
THEOREM OneUserHolds ==
    ASSUME ConversationConstants
    PROVE  Spec => []OneUser
<1>1. ASSUME IInv PROVE UsedAlone
  <2>1. \A h \in Handles : Cardinality(Users(h)) <= 1
    <3> TAKE h \in Handles
    <3>1. CASE Users(h) = {}
      BY <3>1, FS_EmptySet
    <3>2. CASE Users(h) # {}
      <4>1. PICK c \in Users(h) : TRUE
        BY <3>2
      <4>2. h \in Known
        BY <1>1, <4>1 DEF IInv, UserOK, Users
      <4>3. Users(h) = {c}
        BY <1>1, <4>1, <4>2 DEF IInv, UserOK, Users, Uses
      <4> QED
        BY <4>3, FS_Singleton
    <3> QED
      BY <3>1, <3>2
  <2> QED
    BY <1>1, <2>1 DEF IInv, UserOK, Users, Uses, UsedAlone
<1>2. ASSUME IInv PROVE OneHandle /\ WithinLimit /\ ReleasedGoes
  BY <1>2 DEF IInv, IdOK, LimitOK
<1>3. IInv => OneUser
  BY <1>1, <1>2 DEF OneUser
<1> QED
  BY <1>3, Invariance, PTL

\* A caller waiting for a conversation to run no turn is not left asleep
\* (wait_idle, notify_waiters).
THEOREM NoWakeupIsLost == ASSUME ConversationConstants PROVE Spec => []NoLostWakeup
<1>1. IInv => NoLostWakeup
  BY DEF IInv
<1> QED
  BY <1>1, Invariance, PTL

-----------------------------------------------------------------------------
(* What no step does to a conversation in use.                             *)

CrashesOK == crashed \in Nat

\* Where none comes, those that go were not in use, or their caller is done.
LEMMA GoesOK ==
    ASSUME Known' \subseteq Known,
           \A h \in Known : h \notin Known' =>
              \/ ~convs[h].busy /\ convs[h].pins = 0
              \/ \E c \in Calls : calls[c].h = h /\ calls'[c] # calls[c]
    PROVE  InUseStaysStep /\ HandleIsNewStep
BY DEF InUseStaysStep, HandleIsNewStep, Known

LEMMA DropsOK ==
    ASSUME ConversationConstants, IInv, NEW c \in Calls,
           calls[c].kind \notin {"end", "mark"},
           NEW io, Drops(calls[c].h), Ending(c, io) \/ Marking(c, io)
    PROVE  InUseStaysStep /\ HandleIsNewStep
<1>1. Known' = Known \ {calls[c].h}
  BY WithoutFacts DEF Drops, IInv, Typed
<1>2. calls'[c].kind \in {"end", "mark"}
  BY DEF Ending, Marking, Hold, NoCall, IInv, Typed
<1> QED
  BY <1>1, <1>2, GoesOK

\* The actions that end a use.
LEMMA UsesEnd ==
    ASSUME ConversationConstants, IInv, NEW c \in Calls, TurnEnds(c) \/ Release(c)
    PROVE  InUseStaysStep /\ HandleIsNewStep
<1> DEFINE h == calls[c].h
<1>1. calls[c].kind \notin {"end", "mark"}
  BY DEF TurnEnds, FinishUnknown, Finish, ForgetTurn, DropTurn, EndTakeover, Release
<1>2. ASSUME NEW io, Drops(h), Ending(c, io) \/ Marking(c, io)
      PROVE  InUseStaysStep /\ HandleIsNewStep
  BY <1>1, <1>2, DropsOK
<1>3. ASSUME Known' = Known PROVE InUseStaysStep /\ HandleIsNewStep
  BY <1>3, GoesOK
<1>4. ASSUME NEW y, convs' = [convs EXCEPT ![h] = y]
      PROVE  InUseStaysStep /\ HandleIsNewStep
  <2>1. Known' = Known
    BY <1>4 DEF Known
  <2> QED
    BY <1>3, <2>1
<1>5. CASE FinishUnknown(c)
  BY <1>2, <1>5 DEF FinishUnknown
<1>6. CASE \E reported \in BOOLEAN : Finish(c, reported)
  BY <1>2, <1>4, <1>6 DEF Finish
<1>7. CASE ForgetTurn(c)
  BY <1>2, <1>7 DEF ForgetTurn
<1>8. CASE DropTurn(c)
  <2>1. ASSUME convs' = [convs EXCEPT ![h].busy = FALSE] PROVE Known' = Known
    BY <2>1 DEF Known
  <2> QED
    BY <1>2, <1>3, <1>8, <2>1 DEF DropTurn
<1>9. CASE EndTakeover(c)
  BY <1>2, <1>4, <1>9 DEF EndTakeover
<1>10. CASE Release(c)
  <2>1. ASSUME convs' = [convs EXCEPT ![h].released = TRUE, ![h].pins = @ - 1]
        PROVE  Known' = Known
    BY <2>1 DEF Known
  <2>2. ASSUME convs' = convs PROVE Known' = Known
    BY <2>2 DEF Known
  <2> QED
    BY <1>2, <1>3, <1>10, <2>1, <2>2 DEF Release
<1> QED
  BY <1>5, <1>6, <1>7, <1>8, <1>9, <1>10 DEF TurnEnds

\* Nothing but its turn's end, its release or the session's end takes away a
\* conversation that runs a turn or that a reviewed job holds; and a new
\* handle is one no run's state names (evict, expire, make_room, start).
LEMMA StaysStep ==
    ASSUME ConversationConstants, IInv, crashed \in Nat, [Next]_vars
    PROVE  InUseStaysStep /\ HandleIsNewStep
<1>1. ASSUME NEW gone, gone \subseteq Evictable, Known' = Known \ gone
      PROVE  InUseStaysStep /\ HandleIsNewStep
  BY <1>1, GoesOK DEF Evictable
<1>2. ASSUME NEW gone, gone \subseteq Evictable, Known' = (Known \ gone) \cup {next + 1}
      PROVE  InUseStaysStep /\ HandleIsNewStep
  <2>1. next + 1 \notin named /\ next + 1 \notin Known
    BY DEF IInv, Typed, NumberOK
  <2>2. InUseStaysStep
    BY <1>2 DEF InUseStaysStep, Evictable, Known
  <2>3. HandleIsNewStep
    BY <1>2, <2>1 DEF HandleIsNewStep, Known
  <2> QED
    BY <2>2, <2>3
<1>3. ASSUME Known' = Known PROVE InUseStaysStep /\ HandleIsNewStep
  BY <1>3, GoesOK
<1>4. ASSUME convs' = convs PROVE InUseStaysStep /\ HandleIsNewStep
  BY <1>3, <1>4 DEF Known
<1>5. ASSUME NEW c \in Calls, NEW d \in Dirs, NEW v \in Vendors,
             \E assign \in BOOLEAN : Start(c, d, v, assign)
      PROVE  InUseStaysStep /\ HandleIsNewStep
  <2>1. Known' = (Known \ (Expired \cup Oldest(Expired))) \cup {next + 1}
    BY <1>5 DEF Start, Known
  <2> QED
    BY <1>2, <2>1, GoneFacts
<1>6. ASSUME NEW c \in Calls, NEW d \in Dirs, NEW v \in Vendors, NEW h \in Handles,
             Continue(c, h, d, v)
      PROVE  InUseStaysStep /\ HandleIsNewStep
  <2>1. Known' = Known \ Expired
    BY <1>6 DEF Continue, Without, Known
  <2> QED
    BY <1>1, <2>1, GoneFacts
<1>7. ASSUME NEW c \in Calls, NEW d \in Dirs, NEW v \in Vendors, Adopt(c, d, v)
      PROVE  InUseStaysStep /\ HandleIsNewStep
  <2>1. \/ Known' = Known
        \/ Known' = (Known \ Oldest({})) \cup {next + 1}
    BY <1>7 DEF Adopt, Known
  <2> QED
    BY <1>2, <1>3, <2>1, GoneFacts
<1>8. ASSUME NEW c \in Calls, \E evicts \in BOOLEAN : Refused(c, evicts)
      PROVE  InUseStaysStep /\ HandleIsNewStep
  <2>1. PICK evicts \in BOOLEAN : Refused(c, evicts)
    BY <1>8
  <2> DEFINE gone == Expired \cup (IF evicts THEN Oldest(Expired) ELSE {})
  <2>2. gone \subseteq Evictable
    BY GoneFacts
  <2>3. convs' = Without(convs, gone)
    BY <2>1 DEF Refused, Forget
  <2> HIDE DEF gone
  <2>4. Known' = Known \ gone
    BY <2>3, WithoutFacts DEF IInv, Typed
  <2> QED
    BY <1>1, <2>2, <2>4
<1>9. ASSUME NEW c \in Calls, NEW h \in Handles,
             Pin(c, h) \/ TakeOver(c, h) \/ WaitIdle(c, h)
      PROVE  InUseStaysStep /\ HandleIsNewStep
  <2>1. Known' = Known
    BY <1>9 DEF Pin, TakeOver, WaitIdle, Known
  <2> QED
    BY <1>3, <2>1
<1>10. ASSUME NEW c \in Calls, OpenActivity(c) \/ Attach(c) \/ Unpin(c)
       PROVE  InUseStaysStep /\ HandleIsNewStep
  <2>1. Known' = Known
    BY <1>10 DEF OpenActivity, Attach, Unpin, Known
  <2> QED
    BY <1>3, <2>1
<1>11. ASSUME NEW c \in Calls, CallStep(c) PROVE InUseStaysStep /\ HandleIsNewStep
  BY <1>5, <1>6, <1>7, <1>8, <1>9, <1>10, <1>11, UsesEnd DEF CallStep
<1>12. ASSUME NEW c \in Calls, Settles(c) PROVE InUseStaysStep /\ HandleIsNewStep
  BY <1>4, <1>12 DEF Settles, MarkerIo, Ended, Look
<1>13. CASE \E h \in Handles : TimePasses(h)
  <2>1. Known' = Known
    BY <1>13 DEF TimePasses, Known
  <2> QED
    BY <1>3, <2>1
<1>14. CASE (\E v \in Vendors : Ages(v)) \/ GcLive \/ GcRemove \/ RemoveStaleMarkers
  BY <1>4, <1>14 DEF Ages, GcLive, GcRemove, RemoveStaleMarkers
<1>15. CASE Crash
  <2>1. Known' = {} /\ crashed' # crashed
    BY <1>15 DEF Crash, Empty, Known
  <2> QED
    BY <2>1 DEF InUseStaysStep, HandleIsNewStep, Known
<1>16. CASE EndSession
  <2>1. Known' = {}
    BY <1>16 DEF EndSession, Empty, Known
  <2> QED
    BY <1>16, <2>1, EndSessionStep, GoesOK
<1>17. CASE UNCHANGED vars
  BY <1>4, <1>17 DEF vars
<1> QED
  BY <1>11, <1>12, <1>13, <1>14, <1>15, <1>16, <1>17, UsesEnd DEF Next

\* Crashes are counted.
LEMMA CrashedStep == ASSUME CrashesOK, [Next]_vars PROVE CrashesOK'
<1> USE DEF CrashesOK
<1>1. ASSUME NEW c \in Calls, CallStep(c) PROVE crashed' = crashed
  BY ZenonT(60), <1>1 DEF CallStep, Start, Continue, Adopt, Refused, Pin, TakeOver, WaitIdle,
              OpenActivity, Attach, Unpin, Release
<1>2. ASSUME NEW c \in Calls, TurnEnds(c) \/ Settles(c) PROVE crashed' = crashed
  BY <1>2 DEF TurnEnds, FinishUnknown, ForgetTurn, DropTurn, EndTakeover, Finish,
              Settles, MarkerIo, Ended, Look
<1>3. CASE Crash
  BY <1>3 DEF Crash
<1>4. CASE \/ (\E h \in Handles : TimePasses(h)) \/ (\E v \in Vendors : Ages(v))
           \/ GcLive \/ GcRemove \/ RemoveStaleMarkers \/ EndSession \/ UNCHANGED vars
  BY <1>4 DEF TimePasses, Ages, GcLive, GcRemove, RemoveStaleMarkers, EndSession, vars
<1> QED
  BY <1>1, <1>2, <1>3, <1>4 DEF Next

\* No step but the end of its own turn, its release or the session's end takes
\* away a conversation that runs a turn or that a job has pinned, and a new
\* conversation's handle is one no run's state names (begin, adopt, evict,
\* release, and the numbering after a restart).
THEOREM InUseStaysHolds ==
    ASSUME ConversationConstants PROVE Spec => InUseStays
<1>1. Init => CrashesOK
  BY DEF Init, CrashesOK
<1>2. CrashesOK /\ [Next]_vars => CrashesOK'
  BY CrashedStep
<1>3. IInv /\ CrashesOK /\ [Next]_vars => InUseStaysStep /\ HandleIsNewStep
  BY StaysStep DEF CrashesOK
<1>4. Spec => [](IInv /\ CrashesOK)
  BY <1>1, <1>2, Invariance, PTL DEF Spec
<1> QED
  BY <1>3, <1>4, PTL DEF Spec, InUseStays
=============================================================================
