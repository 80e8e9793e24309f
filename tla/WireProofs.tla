------------------------------ MODULE WireProofs ------------------------------
(***************************************************************************)
(* Proofs about Wire for every set of messages, whole, cut or damaged, for *)
(* every limit and for every durable state of the coordinator.  They look  *)
(* at frames, sessions and answers; what a payload decodes to is left open.*)
(***************************************************************************)
EXTENDS Wire, TLAPS

\* What may be served: a message no part of whose frame was changed, or a hello.
Servable == msg.damaged = "none" \/ msg.kind = "hello"

\* Nothing is under way and nothing answered before a message is sent.
NothingUnderWay == stage = "idle" => msg = NoMessage /\ answers = <<>>

\* A frame that got past decode_frame was changed in its session or not at all.
DecodedFrames ==
    stage \in {"received", "answered"} => msg.damaged \in {"none", "session"}

\* Only what may be served is answered and stays connected.
AnsweredIsServable == stage = "answered" => Servable

\* A message that may not be served gets an error or no answer.
UnservedGetsAnError ==
    ~Servable => answers \in {<<>>, <<"error_response">>}

\* The inductive invariant behind DamagedNeverServed.
WInv ==
    /\ msg.damaged \in FrameParts \cup {"none"}
    /\ NothingUnderWay
    /\ DecodedFrames
    /\ AnsweredIsServable
    /\ UnservedGetsAnError

-----------------------------------------------------------------------------
\* decode_frame lets a frame through only if none of its parts was changed but
\* the session, the one part that no checksum covers.
LEMMA FramesThatDecode ==
    ASSUME NEW damaged \in FrameParts \cup {"none"}, DecodeFrame(damaged)
    PROVE  damaged \in {"none", "session"}
BY DEF DecodeFrame, FrameParts, HeaderCrcCovers

\* Every way of sending puts one message under way and answers nothing
\* (encode_frame and the send that follows it).
LEMMA SendingSends ==
    ASSUME Sending
    PROVE  /\ stage' = "sent"
           /\ msg'.damaged \in FrameParts \cup {"none"}
           /\ answers' = answers
<1>1. ASSUME NEW held, NEW kind, NEW value, NEW legal, NEW fields, NEW size, NEW damaged,
             Transmit(held, kind, value, legal, fields, size, damaged)
      PROVE  stage' = "sent" /\ msg'.damaged = damaged /\ answers' = answers
  BY <1>1 DEF Transmit
<1>2. PICK held \in Lives, kind \in Kinds :
         \/ \E value \in Legal[kind] : Send(held, kind, value, TRUE)
         \/ \E value \in Illegal[kind] : Send(held, kind, value, FALSE)
         \/ \E value \in Sample[kind] : SendCut(held, kind, value)
         \/ \E value \in Sample[kind], part \in FrameParts :
              SendDamaged(held, kind, value, part)
  BY DEF Sending
<1>3. CASE \E value \in Legal[kind] : Send(held, kind, value, TRUE)
  BY <1>1, <1>3 DEF Send
<1>4. CASE \E value \in Illegal[kind] : Send(held, kind, value, FALSE)
  BY <1>1, <1>4 DEF Send
<1>5. CASE \E value \in Sample[kind] : SendCut(held, kind, value)
  BY <1>1, <1>5 DEF SendCut
<1>6. CASE \E value \in Sample[kind], part \in FrameParts :
             SendDamaged(held, kind, value, part)
  <2>1. PICK value \in Sample[kind], part \in FrameParts :
               SendDamaged(held, kind, value, part)
    BY <1>6
  <2>2. stage' = "sent" /\ msg'.damaged = part /\ answers' = answers
    BY <1>1, <2>1 DEF SendDamaged
  <2>3. QED
    BY <2>2
<1>7. QED
  BY <1>2, <1>3, <1>4, <1>5, <1>6

\* on_frame serves a decoded frame whose session is the connection's own; any
\* other gets an error, changes nothing and loses its connection.
LEMMA AnswerServes ==
    ASSUME WInv, NEW reply, Answer(reply)
    PROVE  /\ stage' = "answered" => Servable
           /\ ~Servable => answers' = <<"error_response">> /\ live' = live
           /\ stage' \in {"answered", "closed"} /\ msg' = msg
<1>1. msg.damaged \in {"none", "session"}
  BY DEF WInv, DecodedFrames, Answer
<1>2. OwnSession => Servable
  BY <1>1 DEF OwnSession, Servable
<1>3. QED
  BY <1>2 DEF Answer

-----------------------------------------------------------------------------
\* When the server starts nothing is under way.
LEMMA InitHasNothing ==
    Init => WInv
BY DEF Init, WInv, NoMessage, NothingUnderWay, DecodedFrames, AnsweredIsServable,
       UnservedGetsAnError, Servable

\* Every step of a message keeps the invariant.
LEMMA StepKeepsFrames ==
    ASSUME WInv, [Next]_vars
    PROVE  WInv'
<1> USE DEF WInv, NothingUnderWay, DecodedFrames, AnsweredIsServable,
            UnservedGetsAnError, Servable
<1>1. CASE stage = "idle" /\ Sending
  <2>1. stage' = "sent" /\ answers' = answers
        /\ msg'.damaged \in FrameParts \cup {"none"}
    BY <1>1, SendingSends
  <2>2. answers = <<>>
    BY <1>1
  <2>3. QED
    BY <2>1, <2>2
<1>2. CASE Refuse
  BY <1>2 DEF Refuse
<1>3. CASE Receive
  BY <1>3, FramesThatDecode DEF Receive
<1>4. CASE \E reply \in Sample[ReplyKind[msg.kind]] : Answer(reply)
  BY <1>4, AnswerServes DEF Answer
<1>5. CASE Save
  BY <1>5 DEF Save
<1>6. CASE Restart
  BY <1>6 DEF Restart
<1>7. CASE \E c \in Found : StartFrom(c)
  BY <1>7 DEF StartFrom
<1>8. CASE UNCHANGED vars
  BY <1>8 DEF vars
<1>9. QED
  BY <1>1, <1>2, <1>3, <1>4, <1>5, <1>6, <1>7, <1>8 DEF Next, Done

\* The safety half of what Wire promises about frames, in every reachable state.
THEOREM FramesAreChecked == Spec => []WInv
<1>1. Init => WInv
  BY InitHasNothing
<1>2. WInv /\ [Next]_vars => WInv'
  BY StepKeepsFrames
<1>3. QED
  BY <1>1, <1>2, PTL DEF Spec

\* No step serves a damaged frame: it changes nothing the coordinator holds and
\* gets an error at most, also when the damage is in the session, which lies
\* outside both checksums (decode_frame, on_frame, session_loop).
THEOREM DamageIsNeverServed == Spec => DamagedNeverServed
<1> DEFINE Harmless ==
       msg.damaged # "none" /\ msg.kind # "hello" =>
          answers' \in {<<>>, <<"error_response">>} /\ live' = live
<1>1. ASSUME WInv, [Next]_vars
      PROVE  [Harmless]_vars
  <2> SUFFICES ASSUME ~Servable, Next
               PROVE  answers' \in {<<>>, <<"error_response">>} /\ live' = live
    BY <1>1 DEF Servable
  <2>1. answers \in {<<>>, <<"error_response">>}
    BY <1>1 DEF WInv, UnservedGetsAnError
  <2>2. stage # "idle"
    BY <1>1 DEF WInv, NothingUnderWay, NoMessage, Servable
  <2>3. stage # "answered"
    BY <1>1 DEF WInv, AnsweredIsServable
  <2>4. CASE Refuse \/ Receive
    BY <2>1, <2>4 DEF Refuse, Receive
  <2>5. CASE \E reply \in Sample[ReplyKind[msg.kind]] : Answer(reply)
    BY <1>1, <2>5, AnswerServes
  <2>6. CASE Done
    BY <2>1, <2>6 DEF Done, vars
  <2>7. QED
    BY <2>2, <2>3, <2>4, <2>5, <2>6 DEF Next, Save, Restart
<1>2. QED
  BY <1>1, FramesAreChecked, PTL DEF Spec, DamagedNeverServed
===============================================================================
