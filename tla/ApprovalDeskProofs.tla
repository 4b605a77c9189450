------------------------- MODULE ApprovalDeskProofs -------------------------
(***************************************************************************)
(* What the Inspector's approval slot guarantees, for any number of plans  *)
(* and of mishaps.  None of the properties is inductive: what is on the    *)
(* screen depends on the copy it is restored from, on replies that are on  *)
(* their way and on answers that may be late, and what the engine does     *)
(* depends on the answer that its handler was started with.  IInv relates  *)
(* them, and each action keeps each of its parts.                          *)
(***************************************************************************)
EXTENDS ApprovalDesk, TLAPS

(* An open approval was asked about, the page was told of decisions only,   *)
(* its copy is what is on the screen, and neither the screen nor a click is *)
(* about a plan that is undecided.                                          *)
StageInv ==
    /\ \A p \in open : stage[p] = "asked"
    /\ \A p \in seen : Decided(p)
    /\ slot # NoPlan => saved = slot
    /\ \A p \in Plan : p \in {slot, saved} => stage[p] # "undecided"
    /\ \A b \in Answer, p \in Plan : <<b, p>> \in clicked => stage[p] # "undecided"

(* The reply with an offer that the page has not captured is the only thing *)
(* that knows of it.                                                        *)
Offers(b, p) == calls[b].at = "replied" /\ calls[b].plan = p

OfferInv ==
    \A b \in Asking, p \in Plan : Offers(b, p) =>
        /\ stage[p] = "asked"
        /\ p \notin {slot, saved}
        /\ \A a \in Answer : <<a, p>> \notin clicked
        /\ \A c \in Asking : Offers(c, p) => c = b

(* An answer is under way only for what was clicked, and once it was taken  *)
(* up its approval is not open.  A request has no plan until it is served.  *)
AnswerInv ==
    /\ \A a \in late : a[2] # NoPlan => a \in clicked
    /\ \A b \in Answer : calls[b].at # "none" =>
         /\ calls[b].plan \in Plan
         /\ <<b, calls[b].plan>> \in clicked
         /\ calls[b].at # "sent" => calls[b].plan \notin open
    /\ \A b \in Asking : calls[b].at = "sent" => calls[b].plan = NoPlan

(* The handler that is served and the call it answers belong together, and  *)
(* a request that nobody waits for is displaced.                            *)
TaskInv ==
    /\ task.kind = "idle" => task = Idle
    /\ task.kind # "idle" => task.plan \in Plan
    /\ task.kind \in Answer => /\ <<task.kind, task.plan>> \in clicked
                               /\ task.plan \notin open
    /\ task.button \in Asking => task.kind = "ask"
    /\ task.button \in Answer => task.kind = task.button
    /\ \A b \in Button : task.button = b <=> calls[b].at = "running"
    /\ \A b \in Button : calls[b].at = "running" => calls[b].plan = task.plan
    /\ task.kind = "ask" /\ task.button = "none" => task.plan \in displaced

IInv ==
    /\ DeskTypeOK /\ StageInv /\ OfferInv /\ AnswerInv /\ TaskInv
    /\ OpenIsOnScreen /\ SeenIsOffScreen

-----------------------------------------------------------------------------
(* What is sent, and may be given up, is a request or a clicked answer.     *)
LEMMA UnservedAreSent ==
    ASSUME IInv
    PROVE  /\ Unserved \subseteq (Answer \X Plan) \cup (Asking \X {NoPlan})
           /\ \A a \in Unserved : a[2] # NoPlan => a \in clicked
<1> SUFFICES ASSUME NEW b \in Button, calls[b].at = "sent"
             PROVE  /\ <<b, calls[b].plan>> \in (Answer \X Plan) \cup (Asking \X {NoPlan})
                    /\ calls[b].plan # NoPlan => <<b, calls[b].plan>> \in clicked
  BY DEF Unserved
<1>1. CASE b \in Asking
  BY <1>1 DEF IInv, AnswerInv
<1>2. CASE b \in Answer
  BY <1>2 DEF IInv, AnswerInv
<1> QED
  BY <1>1, <1>2 DEF Button

(* A request goes out.                                                      *)
LEMMA ClickAskKeeps ==
    ASSUME IInv, NEW b \in Asking, ClickAsk(b)
    PROVE  IInv'
<1>1. DeskTypeOK'
  BY DEF IInv, DeskTypeOK, ClickAsk, Stage, Verdict,
     TaskRecord, Button, CallRecord, Answer, gate, server, screen, Asking, vars
<1>2. StageInv'
  BY DEF IInv, StageInv, ClickAsk, Decided, Answer, gate,
     server, screen, vars
<1>3. OfferInv'
  BY DEF IInv, OfferInv, ClickAsk, Asking, Offers, Answer,
     gate, server, screen, vars
<1>4. AnswerInv'
  BY DEF IInv, AnswerInv, DeskTypeOK, ClickAsk, Answer, Stage,
     Verdict, TaskRecord, Button, CallRecord, gate, server, screen, Asking, vars
<1>5. TaskInv'
  BY DEF IInv, TaskInv, ClickAsk, Idle, Answer, Asking, Button,
     gate, server, screen, vars
<1>6. OpenIsOnScreen'
  BY DEF IInv, OpenIsOnScreen, DeskTypeOK, ClickAsk, Asking,
     Stage, Verdict, TaskRecord, Button, CallRecord, Answer, gate, server,
     screen, vars
<1>7. SeenIsOffScreen'
  BY DEF IInv, SeenIsOffScreen, ClickAsk, gate, server, screen,
     vars
<1> QED
  BY <1>1, <1>2, <1>3, <1>4, <1>5, <1>6, <1>7 DEF IInv

(* An answer goes out, about the plan on the screen.                        *)
LEMMA ClickAnswerKeeps ==
    ASSUME IInv, NEW b \in Answer, ClickAnswer(b)
    PROVE  IInv'
<1>1. DeskTypeOK'
  BY DEF IInv, DeskTypeOK, ClickAnswer, Stage, Verdict,
     TaskRecord, Button, CallRecord, Answer, gate, server, screen, Asking, vars
<1>2. StageInv'
  BY DEF IInv, StageInv, ClickAnswer, Decided, Answer, gate,
     server, screen, vars
<1>3. OfferInv'
  BY DEF IInv, OfferInv, ClickAnswer, Asking, Offers, Answer,
     gate, server, screen, vars
<1>4. AnswerInv'
  BY DEF IInv, AnswerInv, DeskTypeOK, ClickAnswer, Answer,
     Stage, Verdict, TaskRecord, Button, CallRecord, gate, server, screen,
     Asking, vars
<1>5. TaskInv'
  BY DEF IInv, TaskInv, ClickAnswer, Idle, Answer, Asking,
     Button, gate, server, screen, vars
<1>6. OpenIsOnScreen'
  BY DEF IInv, OpenIsOnScreen, DeskTypeOK, ClickAnswer, Asking,
     Stage, Verdict, TaskRecord, Button, CallRecord, Answer, gate, server,
     screen, vars
<1>7. SeenIsOffScreen'
  BY DEF IInv, SeenIsOffScreen, ClickAnswer, gate, server,
     screen, vars
<1> QED
  BY <1>1, <1>2, <1>3, <1>4, <1>5, <1>6, <1>7 DEF IInv

(* The server takes up a request.                                           *)
LEMMA TakeAskKeeps ==
    ASSUME IInv, NEW b \in Asking, TakeAsk(b)
    PROVE  IInv'
<1>1. DeskTypeOK'
  BY DEF IInv, DeskTypeOK, TakeAsk, Stage, Verdict, TaskRecord,
     Button, CallRecord, Answer, Idle, gate, screen, Asking, vars
<1>2. StageInv'
  BY DEF IInv, StageInv, TakeAsk, Decided, Answer, Idle, gate,
     screen, vars
<1>3. OfferInv'
  BY DEF IInv, OfferInv, TakeAsk, Asking, Offers, Answer, Idle,
     gate, screen, vars
<1>4. AnswerInv'
  BY DEF IInv, AnswerInv, DeskTypeOK, TakeAsk, Answer, Stage,
     Verdict, TaskRecord, Button, CallRecord, Idle, gate, screen, Asking, vars
<1>5. TaskInv'
  BY DEF IInv, TaskInv, DeskTypeOK, TakeAsk, Idle, Answer,
     Asking, Button, Stage, Verdict, TaskRecord, CallRecord, gate, screen, vars
<1>6. OpenIsOnScreen'
  BY DEF IInv, OpenIsOnScreen, DeskTypeOK, TakeAsk, Asking,
     Stage, Verdict, TaskRecord, Button, CallRecord, Answer, Idle, gate, screen,
     vars
<1>7. SeenIsOffScreen'
  BY DEF IInv, SeenIsOffScreen, TakeAsk, Idle, gate, screen,
     vars
<1> QED
  BY <1>1, <1>2, <1>3, <1>4, <1>5, <1>6, <1>7 DEF IInv

(* The server takes up an answer, or replies that there is nothing to       *)
(* answer.                                                                  *)
LEMMA TakeAnswerKeeps ==
    ASSUME IInv, NEW b \in Answer, TakeAnswer(b)
    PROVE  IInv'
<1>1. DeskTypeOK'
  BY DEF IInv, DeskTypeOK, TakeAnswer, Stage, Verdict,
     TaskRecord, Button, CallRecord, Answer, Idle, gate, screen, Asking, vars
<1>2. StageInv'
  BY DEF IInv, StageInv, TakeAnswer, Decided, Answer, Idle,
     gate, screen, vars
<1>3. OfferInv'
  BY DEF IInv, OfferInv, DeskTypeOK, TakeAnswer, Asking,
     Offers, Answer, Stage, Verdict, TaskRecord, Button, CallRecord, Idle, gate,
     screen, vars
<1>4. AnswerInv'
  BY DEF IInv, AnswerInv, DeskTypeOK, TakeAnswer, Answer,
     Stage, Verdict, TaskRecord, Button, CallRecord, Idle, gate, screen, Asking,
     vars
<1>5. TaskInv'
  BY DEF IInv, TaskInv, DeskTypeOK, AnswerInv, TakeAnswer,
     Idle, Answer, Asking, Button, Stage, Verdict, TaskRecord, CallRecord, gate,
     screen, vars
<1>6. OpenIsOnScreen'
  BY DEF IInv, OpenIsOnScreen, DeskTypeOK, TakeAnswer, Asking,
     Stage, Verdict, TaskRecord, Button, CallRecord, Answer, Idle, gate, screen,
     vars
<1>7. SeenIsOffScreen'
  BY DEF IInv, SeenIsOffScreen, TakeAnswer, Idle, gate, screen,
     vars
<1> QED
  BY <1>1, <1>2, <1>3, <1>4, <1>5, <1>6, <1>7 DEF IInv

(* The server takes up an answer nobody waits for.                          *)
LEMMA TakeLateKeeps ==
    ASSUME IInv, TakeLate
    PROVE  IInv'
<1> PICK a \in late :
       /\ late' = late \ {a} /\ task = Idle
       /\ \/ /\ a[2] \in open /\ open' = open \ {a[2]}
             /\ task' = [kind |-> a[1], plan |-> a[2], button |-> "none"]
             /\ UNCHANGED <<issued, displaced>>
          \/ \E p \in Plan \ issued :
               /\ issued' = issued \cup {p} /\ open' = open
               /\ task' = [kind |-> "ask", plan |-> p, button |-> "none"]
               /\ displaced' = displaced \cup {p}
  BY DEF TakeLate
<1>0. /\ a \in (Answer \X Plan) \cup (Asking \X {NoPlan})
      /\ a[2] \in open => a[1] \in Answer /\ a[2] \in Plan /\ <<a[1], a[2]>> \in clicked
  <2>1. a \in (Answer \X Plan) \cup (Asking \X {NoPlan}) /\ open \subseteq Plan
    BY DEF IInv, DeskTypeOK
  <2>2. a[2] # NoPlan => a \in clicked
    BY DEF IInv, AnswerInv
  <2>3. ASSUME a \in Answer \X Plan PROVE a[1] \in Answer /\ a[2] \in Plan /\ a = <<a[1], a[2]>>
    BY <2>3
  <2>4. a \in Asking \X {NoPlan} => a[2] = NoPlan
    OBVIOUS
  <2> QED
    BY <2>1, <2>2, <2>3, <2>4, NoPlanAssumption
<1>9. UNCHANGED <<stage, touched, verdict, calls, slot, saved, seen, clicked, mishaps>>
  BY DEF TakeLate, gate, vars
<1>1. DeskTypeOK'
  <2>1. task' \in TaskRecord
    BY <1>0 DEF TaskRecord, Answer, Button
  <2> QED
    BY <1>9, <2>1 DEF IInv, DeskTypeOK
<1>2. StageInv'
  BY DEF IInv, StageInv, TakeLate, Decided, Answer, Idle, gate,
     screen, vars
<1>3. OfferInv'
  BY DEF IInv, OfferInv, TakeLate, Asking, Offers, Answer,
     Idle, gate, screen, vars
<1>4. AnswerInv'
  BY DEF IInv, AnswerInv, TakeLate, Answer, Idle, gate, screen,
     vars
<1>5. TaskInv'
  BY <1>0, <1>9 DEF IInv, TaskInv, Idle, Answer, Asking, Button
<1>6. OpenIsOnScreen'
  BY DEF IInv, OpenIsOnScreen, TakeLate, Asking, Idle, gate,
     screen, vars
<1>7. SeenIsOffScreen'
  BY DEF IInv, SeenIsOffScreen, TakeLate, Idle, gate, screen,
     vars
<1> QED
  BY <1>1, <1>2, <1>3, <1>4, <1>5, <1>6, <1>7 DEF IInv

(* The handler goes on.                                                     *)
LEMMA ServeKeeps ==
    ASSUME IInv, Serve
    PROVE  IInv'
<1>1. DeskTypeOK'
  BY DEF IInv, DeskTypeOK, Serve, Stage, Verdict, TaskRecord,
     Button, CallRecord, Answer, Clear, Grant, Idle, Start, Touch, server,
     screen, Asking, Moves
<1>2. StageInv'
  BY DEF IInv, StageInv, DeskTypeOK, TaskInv, Serve, Decided,
     Answer, Stage, Verdict, TaskRecord, Button, CallRecord, Idle, Asking,
     Clear, Grant, Start, Touch, server, screen, Moves
<1>3. OfferInv'
  BY DEF IInv, OfferInv, DeskTypeOK, TaskInv, Serve, Asking,
     Offers, Answer, Stage, Verdict, TaskRecord, Button, CallRecord, Idle,
     Clear, Grant, Start, Touch, server, screen, Moves
<1>4. AnswerInv'
  BY DEF IInv, AnswerInv, Serve, Answer, Clear, Grant, Idle,
     Start, Touch, server, screen, Moves
<1>5. TaskInv'
  BY DEF IInv, TaskInv, Serve, Idle, Answer, Asking, Button,
     Clear, Grant, Start, Touch, server, screen, Moves
<1>6. OpenIsOnScreen'
  BY DEF IInv, OpenIsOnScreen, Serve, Asking, Clear, Grant,
     Idle, Start, Touch, server, screen, Moves
<1>7. SeenIsOffScreen'
  BY DEF IInv, SeenIsOffScreen, Serve, Clear, Grant, Idle,
     Start, Touch, server, screen, Moves
<1> QED
  BY <1>1, <1>2, <1>3, <1>4, <1>5, <1>6, <1>7 DEF IInv

(* The handler asks, and replies with what there is to approve.             *)
LEMMA ReplyOfferKeeps ==
    ASSUME IInv, ReplyOffer
    PROVE  IInv'
<1>1. DeskTypeOK'
  BY DEF IInv, DeskTypeOK, TaskInv, ReplyOffer, Stage, Verdict,
     TaskRecord, Button, CallRecord, Answer, Idle, Asking, Ask, Reply, screen,
     Moves
<1>2. StageInv'
  BY DEF IInv, StageInv, DeskTypeOK, TaskInv, ReplyOffer,
     Decided, Answer, Stage, Verdict, TaskRecord, Button, CallRecord, Idle,
     Asking, Ask, Reply, screen, Moves
<1>3. OfferInv'
  BY DEF IInv, OfferInv, DeskTypeOK, TaskInv, StageInv,
     ReplyOffer, Asking, Offers, Answer, Stage, Verdict, TaskRecord, Button,
     CallRecord, Idle, Decided, Ask, Reply, screen, Moves
<1>4. AnswerInv'
  BY DEF IInv, AnswerInv, DeskTypeOK, TaskInv, StageInv,
     ReplyOffer, Answer, Stage, Verdict, TaskRecord, Button, CallRecord, Idle,
     Asking, Decided, Ask, Reply, screen, Moves
<1>5. TaskInv'
  BY DEF IInv, TaskInv, DeskTypeOK, ReplyOffer, Idle, Answer,
     Asking, Button, Stage, Verdict, TaskRecord, CallRecord, Ask, Reply, screen,
     Moves
<1>6. OpenIsOnScreen'
  BY DEF IInv, OpenIsOnScreen, DeskTypeOK, TaskInv, StageInv,
     ReplyOffer, Asking, Stage, Verdict, TaskRecord, Button, CallRecord, Answer,
     Idle, Decided, Ask, Reply, screen, Moves
<1>7. SeenIsOffScreen'
  BY DEF IInv, SeenIsOffScreen, ReplyOffer, Ask, Reply, screen,
     Moves, Idle
<1> QED
  BY <1>1, <1>2, <1>3, <1>4, <1>5, <1>6, <1>7 DEF IInv

(* The handler replies with a result.                                       *)
LEMMA ReplyResultKeeps ==
    ASSUME IInv, ReplyResult
    PROVE  IInv'
<1>1. DeskTypeOK'
  BY DEF IInv, DeskTypeOK, ReplyResult, Stage, Verdict,
     TaskRecord, Button, CallRecord, Answer, Deny, Reject, Idle, Conclude,
     Reply, screen, Asking, Moves
<1>2. StageInv'
  BY DEF IInv, StageInv, DeskTypeOK, TaskInv, ReplyResult,
     Decided, Answer, Stage, Verdict, TaskRecord, Button, CallRecord, Idle,
     Asking, Deny, Reject, Conclude, Reply, screen, Moves
<1>3. OfferInv'
  BY NoPlanAssumption DEF IInv, OfferInv, DeskTypeOK, TaskInv, ReplyResult,
     Asking, Offers, Answer, Stage, Verdict, TaskRecord, Button, CallRecord,
     Idle, Deny, Reject, Conclude, Reply, screen, Moves
<1>4. AnswerInv'
  BY DEF IInv, AnswerInv, TaskInv, ReplyResult, Answer, Idle,
     Asking, Button, Deny, Reject, Conclude, Reply, screen, Moves
<1>5. TaskInv'
  BY DEF IInv, TaskInv, DeskTypeOK, ReplyResult, Idle, Answer,
     Asking, Button, Stage, Verdict, TaskRecord, CallRecord, Deny, Reject,
     Conclude, Reply, screen, Moves
<1>6. OpenIsOnScreen'
  BY DEF IInv, OpenIsOnScreen, DeskTypeOK, TaskInv,
     ReplyResult, Asking, Stage, Verdict, TaskRecord, Button, CallRecord,
     Answer, Idle, Deny, Reject, Conclude, Reply, screen, Moves
<1>7. SeenIsOffScreen'
  BY DEF IInv, SeenIsOffScreen, ReplyResult, Deny, Reject,
     Idle, Conclude, Reply, screen, Moves
<1> QED
  BY <1>1, <1>2, <1>3, <1>4, <1>5, <1>6, <1>7 DEF IInv

(* The handler raises.                                                      *)
LEMMA FailKeeps ==
    ASSUME IInv, Fail
    PROVE  IInv'
<1>1. DeskTypeOK'
  BY DEF IInv, DeskTypeOK, Fail, Stage, Verdict, TaskRecord,
     Button, CallRecord, Answer, Idle, Mishap, NoCall, gate, screen, Asking,
     vars
<1>2. StageInv'
  BY DEF IInv, StageInv, Fail, Decided, Answer, Idle, Mishap,
     NoCall, gate, screen, vars
<1>3. OfferInv'
  BY DEF IInv, OfferInv, Fail, Asking, Offers, Answer, Idle,
     Mishap, NoCall, gate, screen, vars
<1>4. AnswerInv'
  BY DEF IInv, AnswerInv, Fail, Answer, Idle, Mishap, NoCall,
     gate, screen, vars
<1>5. TaskInv'
  BY DEF IInv, TaskInv, DeskTypeOK, Fail, Idle, Answer, Asking,
     Button, Stage, Verdict, TaskRecord, CallRecord, Mishap, NoCall, gate,
     screen, vars
<1>6. OpenIsOnScreen'
  BY DEF IInv, OpenIsOnScreen, DeskTypeOK, TaskInv, Fail,
     Asking, Stage, Verdict, TaskRecord, Button, CallRecord, Answer, Idle,
     Mishap, NoCall, gate, screen, vars
<1>7. SeenIsOffScreen'
  BY DEF IInv, SeenIsOffScreen, Fail, Idle, Mishap, NoCall,
     gate, screen, vars
<1> QED
  BY <1>1, <1>2, <1>3, <1>4, <1>5, <1>6, <1>7 DEF IInv

(* The process ends and another starts.                                     *)
LEMMA CrashKeeps ==
    ASSUME IInv, Crash
    PROVE  IInv'
<1>1. DeskTypeOK'
  BY DEF IInv, DeskTypeOK, Crash, Stage, Verdict, TaskRecord,
     Button, CallRecord, Answer, Mishap, Idle, NoCall, gate, screen, Asking,
     vars
<1>2. StageInv'
  BY DEF IInv, StageInv, Crash, Decided, Answer, Mishap, Idle,
     Button, NoCall, gate, screen, Asking, vars
<1>3. OfferInv'
  BY DEF IInv, OfferInv, Crash, Asking, Offers, Answer, Mishap,
     Idle, Button, NoCall, gate, screen, vars
<1>4. AnswerInv'
  BY DEF IInv, AnswerInv, Crash, Answer, Mishap, Idle, Button,
     NoCall, gate, screen, Asking, vars
<1>5. TaskInv'
  BY DEF IInv, TaskInv, Crash, Idle, Answer, Asking, Button,
     Mishap, NoCall, gate, screen, vars
<1>6. OpenIsOnScreen'
  BY DEF IInv, OpenIsOnScreen, Crash, Asking, Mishap, Idle,
     Button, NoCall, gate, screen, Answer, vars
<1>7. SeenIsOffScreen'
  BY DEF IInv, SeenIsOffScreen, Crash, Mishap, Idle, Button,
     NoCall, gate, screen, Asking, Answer, vars
<1> QED
  BY <1>1, <1>2, <1>3, <1>4, <1>5, <1>6, <1>7 DEF IInv

(* An approval expires.                                                     *)
LEMMA ExpireKeeps ==
    ASSUME IInv, Expire
    PROVE  IInv'
<1>1. DeskTypeOK'
  BY DEF IInv, DeskTypeOK, Expire, Stage, Verdict, TaskRecord,
     Button, CallRecord, Answer, gate, screen, Asking, vars
<1>2. StageInv'
  BY DEF IInv, StageInv, Expire, Decided, Answer, gate, screen,
     vars
<1>3. OfferInv'
  BY DEF IInv, OfferInv, Expire, Asking, Offers, Answer, gate,
     screen, vars
<1>4. AnswerInv'
  BY DEF IInv, AnswerInv, Expire, Answer, gate, screen, vars
<1>5. TaskInv'
  BY DEF IInv, TaskInv, Expire, Idle, Answer, Asking, Button,
     gate, screen, vars
<1>6. OpenIsOnScreen'
  BY DEF IInv, OpenIsOnScreen, Expire, Asking, gate, screen,
     vars
<1>7. SeenIsOffScreen'
  BY DEF IInv, SeenIsOffScreen, Expire, gate, screen, vars
<1> QED
  BY <1>1, <1>2, <1>3, <1>4, <1>5, <1>6, <1>7 DEF IInv

(* The page captures a reply: what it offers was asked about, and so was    *)
(* not decided.                                                             *)
LEMMA CapturedKeeps ==
    ASSUME IInv, NEW b \in Asking, Captured(b)
    PROVE  IInv'
<1>1. UNCHANGED <<stage, open, seen, clicked>>
  BY DEF Captured, Shows, gate, vars, server, screen
<1>2. UNCHANGED <<slot, saved>>
      \/ \E p \in Plan : stage[p] = "asked" /\ slot' = p /\ saved' = p
  <2>1. CASE calls[b].plan = NoPlan
    BY <2>1 DEF Captured, screen
  <2>2. CASE calls[b].plan # NoPlan
    <3>1. slot' = calls[b].plan /\ saved' = calls[b].plan
      BY <2>2 DEF Captured, Shows
    <3>2. calls[b].plan \in Plan /\ Offers(b, calls[b].plan)
      BY <2>2 DEF Captured, IInv, DeskTypeOK, CallRecord, Offers, Button
    <3> QED  BY <3>1, <3>2 DEF IInv, OfferInv
  <2> QED  BY <2>1, <2>2
<1>3. DeskTypeOK'
  BY DEF IInv, DeskTypeOK, Captured, Stage, Verdict,
     TaskRecord, Button, CallRecord, Answer, NoCall, screen, Shows, gate,
     server, Asking, vars
<1>4. StageInv'
  BY <1>1, <1>2, NoPlanAssumption DEF IInv, StageInv, Decided
<1>5. OfferInv'
  BY DEF IInv, OfferInv, DeskTypeOK, Captured, Asking, Offers,
     Answer, Stage, Verdict, TaskRecord, Button, CallRecord, NoCall, screen,
     Shows, gate, server, vars
<1>6. AnswerInv'
  BY DEF IInv, AnswerInv, Captured, Answer, NoCall, screen,
     Shows, gate, server, vars
<1>7. TaskInv'
  BY DEF IInv, TaskInv, Captured, Idle, Answer, Asking, Button,
     NoCall, screen, Shows, gate, server, vars
<1>8. OpenIsOnScreen'
  BY NoPlanAssumption DEF IInv, OpenIsOnScreen, DeskTypeOK, Captured, Asking,
     Stage, Verdict, TaskRecord, Button, CallRecord, Answer, NoCall, screen,
     Shows, gate, server, vars
<1>9. SeenIsOffScreen'
  BY <1>1, <1>2 DEF IInv, StageInv, SeenIsOffScreen, Decided
<1> QED
  BY <1>3, <1>4, <1>5, <1>6, <1>7, <1>8, <1>9 DEF IInv

(* The page goes on after the reply to an answer.                           *)
LEMMA AnsweredKeeps ==
    ASSUME IInv, NEW b \in Answer, Answered(b)
    PROVE  IInv'
<1>1. DeskTypeOK'
  BY DEF IInv, DeskTypeOK, Answered, Stage, Verdict,
     TaskRecord, Button, CallRecord, Answer, NoCall, gate, server, Asking, vars
<1>2. StageInv'
  BY NoPlanAssumption DEF IInv, StageInv, Answered, Decided, Answer, NoCall,
     gate, server, vars
<1>3. OfferInv'
  BY NoPlanAssumption DEF IInv, OfferInv, Answered, Asking, Offers, Answer,
     NoCall, gate, server, vars
<1>4. AnswerInv'
  BY DEF IInv, AnswerInv, Answered, Answer, NoCall, gate,
     server, vars
<1>5. TaskInv'
  BY DEF IInv, TaskInv, Answered, Idle, Answer, Asking, Button,
     NoCall, gate, server, vars
<1>6. OpenIsOnScreen'
  BY DEF IInv, OpenIsOnScreen, DeskTypeOK, AnswerInv, Answered,
     Asking, Stage, Verdict, TaskRecord, Button, CallRecord, Answer, NoCall,
     gate, server, vars
<1>7. SeenIsOffScreen'
  BY NoPlanAssumption DEF IInv, SeenIsOffScreen, DeskTypeOK, Answered, Stage,
     Verdict, TaskRecord, Button, CallRecord, Answer, NoCall, gate, server,
     Asking, vars
<1> QED
  BY <1>1, <1>2, <1>3, <1>4, <1>5, <1>6, <1>7 DEF IInv

(* The page is told of a decision.                                          *)
LEMMA SeeKeeps ==
    ASSUME IInv, NEW q \in Plan, See(q)
    PROVE  IInv'
<1>1. DeskTypeOK'
  BY DEF IInv, DeskTypeOK, See, Stage, Verdict, TaskRecord,
     Button, CallRecord, Answer, Decided, gate, server, Asking, vars
<1>2. StageInv'
  BY NoPlanAssumption DEF IInv, StageInv, See, Decided, Answer, gate, server,
     vars
<1>3. OfferInv'
  BY NoPlanAssumption DEF IInv, OfferInv, See, Asking, Offers, Answer, Decided,
     gate, server, vars
<1>4. AnswerInv'
  BY DEF IInv, AnswerInv, See, Answer, Decided, gate, server,
     vars
<1>5. TaskInv'
  BY DEF IInv, TaskInv, See, Idle, Answer, Asking, Button,
     Decided, gate, server, vars
<1>6. OpenIsOnScreen'
  BY DEF IInv, OpenIsOnScreen, StageInv, See, Asking, Decided,
     Answer, gate, server, vars
<1>7. SeenIsOffScreen'
  BY NoPlanAssumption DEF IInv, SeenIsOffScreen, DeskTypeOK, See, Stage,
     Verdict, TaskRecord, Button, CallRecord, Answer, Decided, gate, server,
     Asking, vars
<1> QED
  BY <1>1, <1>2, <1>3, <1>4, <1>5, <1>6, <1>7 DEF IInv

(* The page gives up a call.                                                *)
LEMMA GiveUpKeeps ==
    ASSUME IInv, NEW b \in Button, GiveUp(b)
    PROVE  IInv'
<1>1. DeskTypeOK'
  BY UnservedAreSent DEF IInv, DeskTypeOK, AnswerInv, GiveUp, Stage, Verdict,
     TaskRecord, Button, CallRecord, Answer, Mishap, NoCall, Asking, gate, vars
<1>2. StageInv'
  BY DEF IInv, StageInv, GiveUp, Decided, Answer, Mishap,
     NoCall, Asking, gate, vars
<1>3. OfferInv'
  BY DEF IInv, OfferInv, GiveUp, Asking, Offers, Answer,
     Mishap, NoCall, gate, vars
<1>4. AnswerInv'
  BY UnservedAreSent DEF IInv, AnswerInv, GiveUp, Answer, Mishap, NoCall,
     Asking, gate, vars
<1>5. TaskInv'
  BY NoPlanAssumption DEF IInv, TaskInv, DeskTypeOK, GiveUp, Idle, Answer,
     Asking, Button, Stage, Verdict, TaskRecord, CallRecord, Mishap, NoCall,
     gate, vars
<1>6. OpenIsOnScreen'
  BY NoPlanAssumption DEF IInv, OpenIsOnScreen, DeskTypeOK, GiveUp, Asking,
     Stage, Verdict, TaskRecord, Button, CallRecord, Answer, Mishap, NoCall,
     gate, vars
<1>7. SeenIsOffScreen'
  BY DEF IInv, SeenIsOffScreen, GiveUp, Mishap, NoCall, Answer,
     Asking, gate, vars
<1> QED
  BY <1>1, <1>2, <1>3, <1>4, <1>5, <1>6, <1>7 DEF IInv

(* The page is loaded again.                                                *)
LEMMA ReloadKeeps ==
    ASSUME IInv, Reload
    PROVE  IInv'
<1>1. DeskTypeOK'
  BY UnservedAreSent DEF IInv, Decisions, DeskTypeOK, AnswerInv, Reload, Stage, Verdict,
     TaskRecord, Button, CallRecord, Answer, AllGivenUp, Decided, Asking,
     Mishap, NoCall, gate, vars
<1>2. StageInv'
  BY NoPlanAssumption DEF IInv, Decisions, StageInv, Reload, Decided, Answer, AllGivenUp,
     Mishap, Button, NoCall, Asking, gate, vars
<1>3. OfferInv'
  BY DEF IInv, Decisions, OfferInv, Reload, Asking, Offers, Answer,
     AllGivenUp, Decided, Mishap, Button, NoCall, gate, vars
<1>4. AnswerInv'
  BY UnservedAreSent DEF IInv, Decisions, AnswerInv, Reload, Answer, AllGivenUp, Decided,
     Mishap, Button, NoCall, Asking, gate, vars
<1>5. TaskInv'
  BY NoPlanAssumption DEF IInv, Decisions, TaskInv, DeskTypeOK, Reload, Idle, Answer,
     Asking, Button, Stage, Verdict, TaskRecord, CallRecord, AllGivenUp,
     Decided, Mishap, NoCall, gate, vars
<1>6. OpenIsOnScreen'
  BY NoPlanAssumption DEF IInv, Decisions, OpenIsOnScreen, DeskTypeOK, StageInv, Reload,
     Asking, Stage, Verdict, TaskRecord, Button, CallRecord, Answer, Decided,
     AllGivenUp, Mishap, NoCall, gate, vars
<1>7. SeenIsOffScreen'
  BY NoPlanAssumption DEF IInv, Decisions, SeenIsOffScreen, Reload, AllGivenUp, Decided,
     Mishap, Button, NoCall, Answer, Asking, gate, vars
<1> QED
  BY <1>1, <1>2, <1>3, <1>4, <1>5, <1>6, <1>7 DEF IInv
-----------------------------------------------------------------------------
(* No plan is offered or clicked at the start.                              *)
LEMMA InitIInv == DeskInit => IInv
<1> SUFFICES ASSUME DeskInit PROVE IInv
  OBVIOUS
<1>1. DeskTypeOK
  BY DEF DeskInit, Init, DeskTypeOK, NoCall, Idle, Asking, Answer, Button,
     CallRecord, TaskRecord, Stage, Verdict
<1>2. StageInv /\ OfferInv
  BY NoPlanAssumption DEF DeskInit, StageInv, OfferInv, Offers, NoCall, Asking, Answer,
     Button
<1>3. AnswerInv /\ TaskInv
  BY DEF DeskInit, AnswerInv, TaskInv, NoCall, Idle, Asking, Answer, Button
<1>4. OpenIsOnScreen /\ SeenIsOffScreen
  BY DEF DeskInit, OpenIsOnScreen, SeenIsOffScreen
<1> QED
  BY <1>1, <1>2, <1>3, <1>4 DEF IInv

LEMMA StutterIInv ==
    ASSUME IInv, UNCHANGED deskVars
    PROVE  IInv'
BY DEF IInv, DeskTypeOK, StageInv, OfferInv, Offers, AnswerInv, TaskInv, OpenIsOnScreen,
   SeenIsOffScreen, Decided, deskVars, gate, vars, server, screen

(* Every step keeps the invariant.                                          *)
LEMMA NextIInv == IInv /\ [DeskNext]_deskVars => IInv'
<1> SUFFICES ASSUME IInv, DeskNext PROVE IInv'
  BY StutterIInv
<1>1. CASE \E b \in Asking : ClickAsk(b) \/ TakeAsk(b) \/ Captured(b)
  BY <1>1, ClickAskKeeps, TakeAskKeeps, CapturedKeeps
<1>2. CASE \E b \in Answer : ClickAnswer(b) \/ TakeAnswer(b) \/ Answered(b)
  BY <1>2, ClickAnswerKeeps, TakeAnswerKeeps, AnsweredKeeps
<1>3. CASE TakeLate \/ Serve \/ ReplyOffer \/ ReplyResult
  BY <1>3, TakeLateKeeps, ServeKeeps, ReplyOfferKeeps, ReplyResultKeeps
<1>4. CASE Fail \/ Crash \/ Expire
  BY <1>4, FailKeeps, CrashKeeps, ExpireKeeps
<1>5. CASE \/ \E p \in Plan : See(p)
           \/ \E b \in Button : GiveUp(b)
           \/ Reload
  BY <1>5, SeeKeeps, GiveUpKeeps, ReloadKeeps
<1> QED
  BY <1>1, <1>2, <1>3, <1>4, <1>5 DEF DeskNext

LEMMA DeskInvariant == DeskSpec => []IInv
BY InitIInv, NextIInv, PTL DEF DeskSpec

(* Only the handler decides, and it decides as its answer was clicked.      *)
LEMMA DecidesAsClicked ==
    ASSUME IInv, DeskNext, NEW p \in Plan, stage[p] = "asked"
    PROVE  /\ stage'[p] = "released" => <<"approve", p>> \in clicked
           /\ stage'[p] = "refused"  => <<"reject", p>> \in clicked
<1>1. stage' # stage => Serve \/ ReplyOffer \/ ReplyResult
  BY DEF DeskNext, ClickAsk, ClickAnswer, TakeAsk, TakeAnswer, TakeLate, Fail, Crash, Expire,
     Captured, Answered, See, GiveUp, Reload, AllGivenUp, gate, vars
<1>2. CASE Serve
  BY <1>2 DEF Serve, Clear, Grant, Start, Touch, Moves, IInv, DeskTypeOK, TaskInv, Answer
<1>3. CASE ReplyOffer
  BY <1>3 DEF ReplyOffer, Ask, Moves, IInv, DeskTypeOK
<1>4. CASE ReplyResult
  BY <1>4 DEF ReplyResult, Deny, Reject, Conclude, Moves, IInv, DeskTypeOK, TaskInv, Answer
<1> QED
  BY <1>1, <1>2, <1>3, <1>4

-----------------------------------------------------------------------------
(* Every reachable state of the slot, the calls and the engine behind them  *)
(* is of its type.                                                          *)
THEOREM DeskTypeCorrect == DeskSpec => []DeskTypeOK
BY DeskInvariant, PTL DEF IInv

(* An approval that can be given is on the screen or in a reply, unless it  *)
(* was displaced in one of the ways the program has.                        *)
THEOREM OpenApprovalsAreShown == DeskSpec => []OpenIsOnScreen
BY DeskInvariant, PTL DEF IInv

(* No approval is offered of whose decision the page was told since it was  *)
(* loaded, whichever decisions the history held at the load.                *)
THEOREM DecidedApprovalsAreNotShown == DeskSpec => []SeenIsOffScreen
BY DeskInvariant, PTL DEF IInv

(* The engine grants and rejects what the operator clicked on that plan.    *)
THEOREM OperatorsDecide == DeskSpec => AnswersAreTheOperators
<1>1. IInv /\ [DeskNext]_deskVars =>
        [\A p \in Plan : stage[p] = "asked" =>
            /\ stage'[p] = "released" => <<"approve", p>> \in clicked
            /\ stage'[p] = "refused"  => <<"reject", p>> \in clicked]_deskVars
  BY DecidesAsClicked
<1> QED
  BY <1>1, DeskInvariant, PTL DEF DeskSpec, AnswersAreTheOperators
=============================================================================
