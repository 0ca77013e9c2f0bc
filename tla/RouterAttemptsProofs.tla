------------------------ MODULE RouterAttemptsProofs -----------------------
(***************************************************************************)
(* What a request tries, and in which order: how far its walk is can be    *)
(* told from its attempts, for every list of targets and keys. And what a  *)
(* client sees: one whole answer or one gapless stream, as RequestLife     *)
(* promises, whatever the providers send and however clients leave. Then   *)
(* how a request ends and what it is answered, and what requests leave     *)
(* behind for one another: the verdicts in the Chat-only caches and the    *)
(* entries of the blackout tracker, whatever steps and reloads interleave. *)
(***************************************************************************)
EXTENDS RouterProofs

\* The stages of an attempt that is not yet recorded.
InHand == {"ready", "calling", "judged", "early", "commit", "pump", "gone"}

\* What an attempt that called a provider can come to.
Verdicts == Outcomes \ {"error", "skipped_blackout"}

\* The keys a phase has for the target t, and: it has none left to try for it
\* after the first n attempts.
KeysOf(r, t, phase) ==
    Elements(IF phase = "normal" THEN ProviderOf(r, t).keys ELSE FallbackKeySet(ProviderOf(r, t)))
Spent(r, t, phase, n) ==
    t.provider \in DOMAIN OwnCfg(r).providers =>
        \/ Barred(r, t, n)
        \/ phase = "fallback" /\ ~FallbackAllows(ProviderOf(r, t), t.model)
        \/ \A k \in KeysOf(r, t, phase) : Covered(r, t, k, phase, n)

\* How many attempts r has recorded.
Recorded(r) == Len(attempts[r])

\* Before its first step a request has tried nothing.
Untried(r) ==
    pc[r] = "new" => attempts[r] = <<>> /\ scan[r].phase = "normal" /\ scan[r].at = 1 /\ scan[r].barred = {}

\* Every target behind r in this phase is spent, and in the second phase every
\* target is spent for the first.
TargetsBehind(r) ==
    \A i \in DOMAIN route[r].targets :
        /\ i < scan[r].at => Spent(r, route[r].targets[i], scan[r].phase, Recorded(r))
        /\ scan[r].phase = "fallback" => Spent(r, route[r].targets[i], "normal", Recorded(r))

\* The keys of the target at hand that are no longer left have been tried, but
\* for the one in hand, unless the target is barred.
KeysBehind(r) ==
    pc[r] \in InTarget =>
        \/ CurTarget(r) \in scan[r].barred /\ scan[r].left = {}
        \/ \A k \in DOMAIN CurKeys(r) \ scan[r].left :
            \/ k = scan[r].key /\ pc[r] \in InHand
            \/ Covered(r, CurTarget(r), CurKeys(r)[k], scan[r].phase, Recorded(r))

\* prohibited is what the attempts say of policy blocks.
BarredIsKnown(r) ==
    pc[r] # "done" => \A t \in Target : t \in scan[r].barred <=> Barred(r, t, Recorded(r))

\* A barred target is not tried in the second phase.
FallbackIsClear(r) ==
    pc[r] \in InTarget /\ scan[r].phase = "fallback" =>
        CurTarget(r) \notin scan[r].barred \/ (pc[r] = "pick" /\ scan[r].left = {})

\* Fallback attempts belong to the second phase, where they come after all
\* normal keys and avoid what is barred.
AttemptsInOrder(r) ==
    \A i \in DOMAIN attempts[r] :
        attempts[r][i].type = "fallback" =>
            /\ scan[r].phase = "fallback"
            /\ \A j \in DOMAIN route[r].targets : Spent(r, route[r].targets[j], "normal", i - 1)
            /\ ~Barred(r, attempts[r][i].target, i - 1)

Book(r) ==
    /\ Untried(r) /\ TargetsBehind(r) /\ KeysBehind(r) /\ BarredIsKnown(r)
    /\ FallbackIsClear(r) /\ AttemptsInOrder(r)
Books == \A r \in Requests : Book(r)

-----------------------------------------------------------------------------
(* What the steps of a request do, field by field *)

\* A step of r leaves everything of the other requests alone.
Apart(r) ==
    /\ ask' = ask /\ client' = client
    /\ \A q \in Requests \ {r} :
        /\ pc'[q] = pc[q] /\ route'[q] = route[q] /\ scan'[q] = scan[q] /\ call'[q] = call[q]
        /\ attempts'[q] = attempts[q] /\ last'[q] = last[q] /\ buf'[q] = buf[q]
        /\ wire'[q] = wire[q] /\ result'[q] = result[q]

LEMMA StepsAreApart ==
    ASSUME Inv, NEW r \in Requests, Handle(r)
    PROVE  Apart(r)
<1>0. /\ DOMAIN pc = Requests /\ DOMAIN route = Requests /\ DOMAIN scan = Requests
      /\ DOMAIN call = Requests /\ DOMAIN attempts = Requests /\ DOMAIN last = Requests
      /\ DOMAIN buf = Requests /\ DOMAIN wire = Requests /\ DOMAIN result = Requests
  BY DEF Inv, TypeOK
<1>. USE <1>0 DEF Apart, Goto, sharedVars, requestVars
<1>1. ASSUME Walk(r) PROVE Apart(r)
  <2>1. CASE Start(r) BY <2>1 DEF Start
  <2>2. CASE UndefinedTarget(r) BY <2>2 DEF UndefinedTarget
  <2>3. CASE SkipFallback(r) BY <2>3 DEF SkipFallback
  <2>4. CASE EnterTarget(r) BY <2>4 DEF EnterTarget
  <2>5. CASE LeaveTarget(r) BY <2>5 DEF LeaveTarget
  <2>6. CASE BeginFallback(r) BY <2>6 DEF BeginFallback
  <2>7. CASE SkipBlackedOut(r) BY <2>7 DEF SkipBlackedOut
  <2>8. CASE TakeKey(r) BY <2>8 DEF TakeKey
  <2>. QED  BY <1>1, <2>1, <2>2, <2>3, <2>4, <2>5, <2>6, <2>7, <2>8 DEF Walk
<1>2. ASSUME Try(r) PROVE Apart(r)
  <2>1. CASE SendCall(r) BY <2>1 DEF SendCall
  <2>2. CASE ReplyArrives(r) BY <2>2 DEF ReplyArrives
  <2>3. CASE StreamOpens(r) BY <2>3 DEF StreamOpens
  <2>4. CASE EarlyFrame(r) BY <2>4 DEF EarlyFrame, ReadFrame
  <2>5. CASE EarlyEnd(r) BY <2>5 DEF EarlyEnd
  <2>6. CASE SettleSuccess(r) BY <2>6 DEF SettleSuccess, Settle
  <2>7. CASE SettleCanceled(r) BY <2>7 DEF SettleCanceled, Settle
  <2>8. CASE SettleProhibited(r) BY <2>8 DEF SettleProhibited, Settle
  <2>9. CASE SettleNext(r) BY <2>9 DEF SettleNext, Settle
  <2>10. CASE SettleError(r) BY <2>10 DEF SettleError, Settle
  <2>11. CASE FinishFail(r) BY <2>11 DEF FinishFail
  <2>. QED  BY <1>2, <2>1, <2>2, <2>3, <2>4, <2>5, <2>6, <2>7, <2>8, <2>9, <2>10, <2>11 DEF Try
<1>3. ASSUME Deliver(r) PROVE Apart(r)
  <2>1. CASE Commit(r) BY <2>1 DEF Commit
  <2>2. CASE WriteFrame(r) BY <2>2 DEF WriteFrame
  <2>3. CASE PumpFrame(r) BY <2>3 DEF PumpFrame, ReadFrame
  <2>4. CASE PumpEnd(r) BY <2>4 DEF PumpEnd
  <2>5. CASE AnswerExhausted(r) BY <2>5 DEF AnswerExhausted
  <2>6. CASE SendRefusal(r) BY <2>6 DEF SendRefusal
  <2>. QED  BY <1>3, <2>1, <2>2, <2>3, <2>4, <2>5, <2>6 DEF Deliver
<1>. QED  BY <1>1, <1>2, <1>3 DEF Handle

\* How the steps of the walk change r's place.
LEMMA StartEffect ==
    ASSUME Inv, NEW r \in Requests, Start(r)
    PROVE  pc[r] = "new" /\ pc'[r] \in {"enter", "done"} /\ scan'[r] = scan[r] /\ attempts'[r] = attempts[r]
  BY DEF Start, Goto, Inv, TypeOK

LEMMA PassEffect ==
    ASSUME Inv, NEW r \in Requests, UndefinedTarget(r) \/ SkipFallback(r) \/ LeaveTarget(r)
    PROVE  /\ pc'[r] = "enter" /\ route'[r] = route[r]
           /\ scan'[r].at = scan[r].at + 1 /\ scan'[r].phase = scan[r].phase
           /\ scan'[r].barred = scan[r].barred
<1>1. scan[r] \in Place /\ scan \in [Requests -> Place] /\ pc \in [Requests -> Stages]
  BY DEF Inv, TypeOK
<1>2. pc'[r] = "enter" /\ route' = route
  BY <1>1 DEF UndefinedTarget, SkipFallback, LeaveTarget, InTargets, Goto
<1>3. scan'[r] = [scan[r] EXCEPT !.at = scan[r].at + 1]
  BY <1>1 DEF UndefinedTarget, SkipFallback, LeaveTarget
<1>. QED  BY <1>1, <1>2, <1>3 DEF Place

LEMMA EnterEffect ==
    ASSUME Inv, NEW r \in Requests, EnterTarget(r)
    PROVE  /\ pc'[r] = "pick" /\ route'[r] = route[r] /\ attempts'[r] = attempts[r]
           /\ scan'[r].at = scan[r].at /\ scan'[r].phase = scan[r].phase
           /\ scan'[r].barred = scan[r].barred /\ scan'[r].left = DOMAIN CurKeys(r)
<1>1. scan[r] \in Place /\ scan \in [Requests -> Place] /\ pc \in [Requests -> Stages]
  BY DEF Inv, TypeOK
<1>2. pc'[r] = "pick" /\ route' = route /\ attempts' = attempts
  BY <1>1 DEF EnterTarget, Goto
<1>3. scan'[r] = [scan[r] EXCEPT !.left = DOMAIN CurKeys(r)]
  BY <1>1 DEF EnterTarget
<1>. QED  BY <1>1, <1>2, <1>3 DEF Place

LEMMA BeginFallbackEffect ==
    ASSUME Inv, NEW r \in Requests, BeginFallback(r)
    PROVE  /\ pc'[r] = "enter" /\ route'[r] = route[r] /\ attempts'[r] = attempts[r]
           /\ scan'[r].at = 1 /\ scan'[r].phase = "fallback" /\ scan'[r].barred = scan[r].barred
<1>1. scan[r] \in Place /\ scan \in [Requests -> Place]
  BY DEF Inv, TypeOK
<1>2. pc'[r] = "enter" /\ route' = route /\ attempts' = attempts
  BY DEF BeginFallback
<1>3. scan'[r] = [scan[r] EXCEPT !.phase = "fallback", !.at = 1]
  BY <1>1, Zenon DEF BeginFallback
<1>. QED  BY <1>1, <1>2, <1>3, Zenon DEF Place

LEMMA SkipEffect ==
    ASSUME Inv, NEW r \in Requests, SkipBlackedOut(r)
    PROVE  \E k \in scan[r].left :
             /\ pc'[r] = "pick" /\ route'[r] = route[r]
             /\ attempts'[r] = Append(attempts[r],
                    [target |-> CurTarget(r), type |-> "normal", key |-> CurKeys(r)[k],
                     outcome |-> "skipped_blackout", reply |-> NoReply])
             /\ scan'[r].at = scan[r].at /\ scan'[r].phase = scan[r].phase
             /\ scan'[r].barred = scan[r].barred /\ scan'[r].left = scan[r].left \ {k}
<1>1. scan[r] \in Place /\ scan \in [Requests -> Place] /\ attempts \in [Requests -> Seq(Attempt)]
  BY DEF Inv, TypeOK
<1>2. PICK k \in scan[r].left :
        /\ scan' = [scan EXCEPT ![r].left = @ \ {k}]
        /\ attempts' = [attempts EXCEPT ![r] = Append(@,
                [target |-> CurTarget(r), type |-> "normal", key |-> CurKeys(r)[k],
                 outcome |-> "skipped_blackout", reply |-> NoReply])]
  BY DEF SkipBlackedOut
<1>3. scan'[r] = [scan[r] EXCEPT !.left = scan[r].left \ {k}]
  BY <1>1, <1>2
<1>4. pc'[r] = "pick" /\ route' = route
  BY DEF SkipBlackedOut
<1>. QED  BY <1>1, <1>2, <1>3, <1>4 DEF Place

LEMMA TakeEffect ==
    ASSUME Inv, NEW r \in Requests, TakeKey(r)
    PROVE  \E k \in scan[r].left :
             /\ pc[r] = "pick" /\ pc'[r] = "ready" /\ route'[r] = route[r] /\ attempts'[r] = attempts[r]
             /\ scan'[r].at = scan[r].at /\ scan'[r].phase = scan[r].phase
             /\ scan'[r].barred = scan[r].barred
             /\ scan'[r].left = scan[r].left \ {k} /\ scan'[r].key = k
<1>1. scan[r] \in Place /\ scan \in [Requests -> Place] /\ pc \in [Requests -> Stages]
  BY DEF Inv, TypeOK
<1>2. PICK k \in scan[r].left : scan' = [scan EXCEPT ![r].left = @ \ {k}, ![r].key = k]
  BY DEF TakeKey
<1>3. scan'[r] = [scan[r] EXCEPT !.left = scan[r].left \ {k}, !.key = k]
  BY <1>1, <1>2, Zenon
<1>4. pc[r] = "pick" /\ pc'[r] = "ready" /\ route' = route /\ attempts' = attempts
  BY <1>1 DEF TakeKey, Goto
<1>5. /\ scan'[r].at = scan[r].at /\ scan'[r].phase = scan[r].phase
      /\ scan'[r].barred = scan[r].barred
      /\ scan'[r].left = scan[r].left \ {k} /\ scan'[r].key = k
  BY <1>1, <1>3, Zenon DEF Place
<1>. QED  BY <1>4, <1>5

\* The steps of an attempt that is not recorded yet.
LEMMA InHandEffect ==
    ASSUME Inv, NEW r \in Requests,
           \/ SendCall(r) \/ ReplyArrives(r) \/ StreamOpens(r) \/ EarlyFrame(r) \/ EarlyEnd(r)
           \/ Commit(r) \/ WriteFrame(r) \/ PumpFrame(r)
    PROVE  /\ pc[r] \in InHand /\ pc'[r] \in InHand
           /\ route'[r] = route[r] /\ scan'[r] = scan[r] /\ attempts'[r] = attempts[r]
           /\ last'[r] = last[r]
<1>1. pc \in [Requests -> Stages]
  BY DEF Inv, TypeOK
<1>. USE <1>1 DEF InHand, Goto, requestVars
<1>2. CASE SendCall(r) BY <1>2 DEF SendCall
<1>3. CASE ReplyArrives(r) BY <1>3 DEF ReplyArrives
<1>4. CASE StreamOpens(r) BY <1>4 DEF StreamOpens
<1>5. CASE EarlyFrame(r) BY <1>5 DEF EarlyFrame
<1>6. CASE EarlyEnd(r) BY <1>6 DEF EarlyEnd
<1>7. CASE Commit(r) BY <1>7 DEF Commit
<1>8. CASE WriteFrame(r) BY <1>8 DEF WriteFrame
<1>9. CASE PumpFrame(r) BY <1>9 DEF PumpFrame
<1>. QED  BY <1>2, <1>3, <1>4, <1>5, <1>6, <1>7, <1>8, <1>9

\* An attempt is recorded, and nothing but a policy block changes r's place.
LEMMA RecordEffect ==
    ASSUME Inv, NEW r \in Requests,
           \/ SettleSuccess(r) \/ SettleCanceled(r) \/ SettleProhibited(r) \/ SettleNext(r)
           \/ SettleError(r) \/ PumpEnd(r)
    PROVE  \E v \in Verdicts, x \in Reply :
             /\ pc[r] \in InHand /\ pc'[r] \in {"pick", "failing", "done"} /\ route'[r] = route[r]
             /\ attempts'[r] = Append(attempts[r], Tried(r, v, x)) /\ Tried(r, v, x) \in Attempt
             /\ scan'[r].at = scan[r].at /\ scan'[r].phase = scan[r].phase
             /\ \/ v # "prohibited_content" /\ scan'[r] = scan[r]
                \/ pc'[r] = "done" /\ scan'[r] = scan[r]
                \/ /\ v = "prohibited_content" /\ pc'[r] = "pick" /\ scan'[r].left = {}
                   /\ scan'[r].barred = scan[r].barred \cup {CurTarget(r)}
             /\ v = "canceled" => pc'[r] = "done"
<1>1. /\ scan[r] \in Place /\ scan \in [Requests -> Place] /\ attempts \in [Requests -> Seq(Attempt)]
      /\ pc \in [Requests -> Stages] /\ call[r].reply \in Reply
  BY DEF Inv, TypeOK, CallMade
<1>2. ASSUME NEW v \in Verdicts, Settle(r, v)
      PROVE  /\ pc[r] \in InHand /\ route' = route
             /\ attempts'[r] = Append(attempts[r], Tried(r, v, call[r].reply))
             /\ Tried(r, v, call[r].reply) \in Attempt
  <2>1. Tried(r, v, call[r].reply) \in Attempt
    BY <1>1, <1>2, TriedIsAttempt DEF Settle, InCall, InTarget, Stages, Verdicts
  <2>. QED  BY <1>1, <1>2, <2>1 DEF Settle, InHand
<1>3. CASE SettleSuccess(r) \/ SettleCanceled(r) \/ SettleNext(r) \/ SettleError(r)
  <2>1. PICK v \in Verdicts \ {"prohibited_content"} : Settle(r, v) /\ (v = "canceled" => pc'[r] = "done")
    <3>1. CASE SettleSuccess(r) BY <3>1 DEF SettleSuccess, Outcomes, Verdicts
    <3>2. CASE SettleCanceled(r) BY <1>1, <3>2 DEF SettleCanceled, Outcomes, Goto, Verdicts
    <3>3. CASE SettleNext(r) BY <3>3 DEF SettleNext, Outcomes, Verdicts
    <3>4. CASE SettleError(r) BY <3>4 DEF SettleError, Outcomes, Verdicts
    <3>. QED  BY <1>3, <3>1, <3>2, <3>3, <3>4
  <2>2. scan' = scan /\ pc'[r] \in {"pick", "failing", "done"}
    BY <1>1, <1>3 DEF SettleSuccess, SettleCanceled, SettleNext, SettleError, Goto
  <2>. QED  BY <1>1, <1>2, <2>1, <2>2
<1>4. CASE SettleProhibited(r)
  <2>1. Settle(r, "prohibited_content") /\ pc'[r] = "pick" /\ "prohibited_content" \in Verdicts
    BY <1>1, <1>4 DEF SettleProhibited, Goto, Outcomes, Verdicts
  <2>2. scan'[r] = [scan[r] EXCEPT !.barred = scan[r].barred \cup {CurTarget(r)}, !.left = {}]
    BY <1>1, <1>4, Zenon DEF SettleProhibited
  <2>3. /\ scan'[r].at = scan[r].at /\ scan'[r].phase = scan[r].phase /\ scan'[r].left = {}
        /\ scan'[r].barred = scan[r].barred \cup {CurTarget(r)}
    BY <1>1, <2>2, Zenon DEF Place
  <2>. QED  BY <1>1, <1>2, <2>1, <2>3
<1>5. CASE PumpEnd(r)
  <2>1. PICK e \in IF pc[r] = "gone" THEN {call[r].reply} ELSE PumpEnds(r) :
          /\ attempts' = [attempts EXCEPT ![r] = Append(@, Tried(r, PumpVerdict(r, e), e))]
          /\ \/ PumpVerdict(r, e) = "provider_error" /\ Goto(r, "failing")
             \/ Goto(r, "done")
    BY <1>5 DEF PumpEnd
  <2>2. e \in Reply /\ PumpVerdict(r, e) \in Verdicts /\ PumpVerdict(r, e) \in Outcomes
    BY <1>1, <2>1, EndsAreTyped DEF PumpEnds, PumpVerdict, Verdicts, Outcomes
  <2>3. pc[r] \in InCall /\ pc[r] \in InHand /\ route' = route /\ scan' = scan
    BY <1>5 DEF PumpEnd, InCall, InTarget, Stages, InHand
  <2>4. Tried(r, PumpVerdict(r, e), e) \in Attempt
    BY <2>2, <2>3, TriedIsAttempt
  <2>5. attempts'[r] = Append(attempts[r], Tried(r, PumpVerdict(r, e), e))
    BY <1>1, <2>1
  <2>6. \/ PumpVerdict(r, e) = "provider_error" /\ pc'[r] = "failing"
        \/ pc'[r] = "done"
    BY <1>1, <2>1 DEF Goto
  <2>. QED  BY <2>2, <2>3, <2>4, <2>5, <2>6
<1>. QED  BY <1>3, <1>4, <1>5

\* The last steps of a request that leave its attempts as they are.
LEMMA EndEffect ==
    ASSUME Inv, NEW r \in Requests, AnswerExhausted(r) \/ SendRefusal(r) \/ FinishFail(r)
    PROVE  /\ route'[r] = route[r] /\ scan'[r] = scan[r] /\ attempts'[r] = attempts[r]
           /\ last'[r] = last[r]
           /\ \/ pc'[r] = "done" /\ pc[r] # "new"
              \/ pc[r] = "failing" /\ pc'[r] = "pick"
  BY DEF AnswerExhausted, SendRefusal, FinishFail, AllTried, Goto, requestVars, Inv, TypeOK

-----------------------------------------------------------------------------
(* What is recorded stays recorded *)

\* r keeps its route, and its attempts are as they were or have one more.
Grows(r) ==
    /\ route'[r] = route[r]
    /\ attempts'[r] = attempts[r] \/ \E a \in Attempt : attempts'[r] = Append(attempts[r], a)

\* The first attempts of a request are never rewritten, nor what they say.
LEMMA RecordedStays ==
    ASSUME Inv, NEW r \in Requests, Grows(r), NEW n \in 0..Recorded(r)
    PROVE  /\ Recorded(r) <= Recorded(r)'
           /\ \A i \in 1..n : attempts'[r][i] = attempts[r][i]
           /\ \A t, key, type : Covered(r, t, key, type, n)' <=> Covered(r, t, key, type, n)
           /\ \A t : Barred(r, t, n)' <=> Barred(r, t, n)
           /\ \A t, phase : Spent(r, t, phase, n)' <=> Spent(r, t, phase, n)
<1>1. attempts[r] \in Seq(Attempt) /\ n \in Nat /\ n <= Len(attempts[r])
  BY DEF Inv, TypeOK, Recorded
<1>2. \A i \in 1..n : attempts'[r][i] = attempts[r][i]
  BY <1>1 DEF Grows
<1>3. Recorded(r) <= Recorded(r)'
  BY <1>1 DEF Grows, Recorded
<1>4. \A t, key, type : Covered(r, t, key, type, n)' <=> Covered(r, t, key, type, n)
  BY <1>2, Zenon DEF Covered
<1>5. \A t : Barred(r, t, n)' <=> Barred(r, t, n)
  BY <1>2, Zenon DEF Barred
<1>6. \A t, phase : Spent(r, t, phase, n)' <=> Spent(r, t, phase, n)
  BY <1>4, <1>5 DEF Spent, KeysOf, ProviderOf, OwnCfg, Grows
<1>. QED  BY <1>2, <1>3, <1>4, <1>5, <1>6

\* What is spent, covered or barred now is so after the step.
LEMMA SpentStays ==
    ASSUME Inv, Inv', NEW r \in Requests, Grows(r)
    PROVE  /\ \A t, key, type : Covered(r, t, key, type, Recorded(r)) => Covered(r, t, key, type, Recorded(r))'
           /\ \A t : Barred(r, t, Recorded(r)) => Barred(r, t, Recorded(r))'
           /\ \A t, phase : Spent(r, t, phase, Recorded(r)) => Spent(r, t, phase, Recorded(r))'
<1>1. Recorded(r) \in Nat /\ Recorded(r)' \in Nat /\ Recorded(r) \in 0..Recorded(r)
  BY DEF Inv, TypeOK, Recorded
<1>2. /\ Recorded(r) <= Recorded(r)'
      /\ \A i \in 1..Recorded(r) : attempts'[r][i] = attempts[r][i]
  BY <1>1, RecordedStays
<1>3. \A i \in 1..Recorded(r) : i \in 1..Recorded(r)' /\ attempts'[r][i] = attempts[r][i]
  BY <1>1, <1>2
<1>4. \A t, key, type : Covered(r, t, key, type, Recorded(r)) => Covered(r, t, key, type, Recorded(r))'
  BY <1>3, Zenon DEF Covered
<1>5. \A t : Barred(r, t, Recorded(r)) => Barred(r, t, Recorded(r))'
  BY <1>3, Zenon DEF Barred
<1>6. \A t, phase : Spent(r, t, phase, Recorded(r)) => Spent(r, t, phase, Recorded(r))'
  BY <1>4, <1>5 DEF Spent, KeysOf, ProviderOf, OwnCfg, Grows
<1>. QED  BY <1>4, <1>5, <1>6

\* One more attempt covers its own key, and bars its target if it was blocked.
LEMMA AttemptCounts ==
    ASSUME Inv, NEW r \in Requests, NEW a \in Attempt, attempts'[r] = Append(attempts[r], a)
    PROVE  /\ Covered(r, a.target, a.key, a.type, Recorded(r))'
           /\ \A t : Barred(r, t, Recorded(r))' <=>
                \/ Barred(r, t, Recorded(r))
                \/ t = a.target /\ a.outcome = "prohibited_content"
<1>1. attempts[r] \in Seq(Attempt) /\ Recorded(r) \in Nat
  BY DEF Inv, TypeOK, Recorded
<1>2. /\ Recorded(r)' = Recorded(r) + 1 /\ attempts'[r][Recorded(r) + 1] = a
      /\ \A i \in 1..Recorded(r) : attempts'[r][i] = attempts[r][i]
  BY <1>1 DEF Recorded
<1>3. Recorded(r) + 1 \in 1..Recorded(r)' /\ \A i : i \in 1..Recorded(r)' <=> i \in 1..Recorded(r) \/ i = Recorded(r) + 1
  BY <1>1, <1>2
<1>4. Covered(r, a.target, a.key, a.type, Recorded(r))'
  BY <1>2, <1>3, Zenon DEF Covered
<1>5. \A t : Barred(r, t, Recorded(r))' <=>
        Barred(r, t, Recorded(r)) \/ (t = a.target /\ a.outcome = "prohibited_content")
  BY <1>2, <1>3, Zenon DEF Barred
<1>. QED  BY <1>4, <1>5

\* At the target at hand the keys of the phase are the keys the walk goes through.
LEMMA KeysAtHand ==
    ASSUME Inv, NEW r \in Requests, pc[r] \in InTarget
    PROVE  /\ scan[r].at \in DOMAIN route[r].targets /\ CurTarget(r) \in Target
           /\ KeysOf(r, CurTarget(r), scan[r].phase) = Elements(CurKeys(r))
<1>1. scan[r].at <= Len(route[r].targets) /\ Defined(r)
  BY DEF Inv, WalkInBounds, InBounds
<1>2. scan[r].at \in Nat \ {0} /\ route[r].targets \in Seq(Target)
  BY DEF Inv, TypeOK, Place, RouteTaken
<1>3. CurTarget(r) \in Target
  BY <1>1, HereIsTyped DEF Inv
<1>4. KeysOf(r, CurTarget(r), scan[r].phase) = Elements(CurKeys(r))
  BY DEF KeysOf, CurKeys, ProviderOf, CurProvider, OwnCfg, Cfg
<1>. QED  BY <1>1, <1>2, <1>3, <1>4

-----------------------------------------------------------------------------
(* Every step keeps the book: the conjuncts that most steps leave alone *)

\* Targets behind r stay spent while r stays at its target.
LEMMA BehindStays ==
    ASSUME Inv, Inv', NEW r \in Requests, Grows(r), TargetsBehind(r),
           scan'[r].at = scan[r].at, scan'[r].phase = scan[r].phase
    PROVE  TargetsBehind(r)'
<1>1. \A t, phase : Spent(r, t, phase, Recorded(r)) => Spent(r, t, phase, Recorded(r))'
  BY SpentStays
<1>. QED  BY <1>1 DEF TargetsBehind, Grows

\* Attempts stay in order if a new fallback attempt is made in the second phase
\* on a target that is not barred.
LEMMA OrderStays ==
    ASSUME Inv, Inv', NEW r \in Requests, route'[r] = route[r],
           TargetsBehind(r), AttemptsInOrder(r),
           scan[r].phase = "fallback" => scan'[r].phase = "fallback",
           \/ attempts'[r] = attempts[r]
           \/ \E a \in Attempt :
                /\ attempts'[r] = Append(attempts[r], a)
                /\ a.type = "fallback" => /\ scan[r].phase = "fallback"
                                          /\ ~Barred(r, a.target, Recorded(r))
    PROVE  AttemptsInOrder(r)'
<1>0. Grows(r) /\ attempts[r] \in Seq(Attempt) /\ Recorded(r) \in Nat /\ Recorded(r) \in 0..Recorded(r)
  BY DEF Grows, Inv, TypeOK, Recorded
<1>. SUFFICES ASSUME NEW i \in DOMAIN attempts'[r], attempts'[r][i].type = "fallback"
              PROVE  /\ scan'[r].phase = "fallback"
                     /\ \A j \in DOMAIN route[r].targets :
                            Spent(r, route[r].targets[j], "normal", i - 1)'
                     /\ ~Barred(r, attempts[r][i].target, i - 1)'
  BY DEF AttemptsInOrder, Grows
<1>1. CASE i \in DOMAIN attempts[r]
  <2>1. i - 1 \in 0..Recorded(r) /\ attempts'[r][i] = attempts[r][i]
    BY <1>0, <1>1 DEF Grows, Recorded
  <2>2. /\ scan[r].phase = "fallback"
        /\ \A j \in DOMAIN route[r].targets : Spent(r, route[r].targets[j], "normal", i - 1)
        /\ ~Barred(r, attempts[r][i].target, i - 1)
    BY <1>1, <2>1 DEF AttemptsInOrder
  <2>3. /\ \A t : Barred(r, t, i - 1)' <=> Barred(r, t, i - 1)
        /\ \A t, phase : Spent(r, t, phase, i - 1)' <=> Spent(r, t, phase, i - 1)
    BY <1>0, <2>1, RecordedStays
  <2>. QED  BY <2>1, <2>2, <2>3
<1>2. CASE i \notin DOMAIN attempts[r]
  <2>1. PICK a \in Attempt : /\ attempts'[r] = Append(attempts[r], a)
                             /\ a.type = "fallback" => /\ scan[r].phase = "fallback"
                                                       /\ ~Barred(r, a.target, Recorded(r))
    BY <1>2
  <2>2. i - 1 = Recorded(r) /\ attempts'[r][i] = a
    BY <1>0, <1>2, <2>1 DEF Recorded
  <2>3. /\ \A t : Barred(r, t, i - 1)' <=> Barred(r, t, i - 1)
        /\ \A t, phase : Spent(r, t, phase, i - 1)' <=> Spent(r, t, phase, i - 1)
    BY <1>0, <2>2, RecordedStays
  <2>4. /\ \A j \in DOMAIN route[r].targets : Spent(r, route[r].targets[j], "normal", i - 1)
        /\ ~Barred(r, a.target, i - 1)
    BY <2>1, <2>2 DEF TargetsBehind
  <2>. QED  BY <2>1, <2>2, <2>3, <2>4
<1>. QED  BY <1>1, <1>2

-----------------------------------------------------------------------------
(* Every step keeps the book: one lemma per kind of step *)

LEMMA StartKeepsBook ==
    ASSUME Inv, Inv', NEW r \in Requests, Book(r), Start(r)
    PROVE  Book(r)'
<1>1. /\ pc[r] = "new" /\ pc'[r] \in {"enter", "done"} /\ scan'[r] = scan[r]
      /\ attempts'[r] = attempts[r]
  BY StartEffect
<1>2. attempts[r] = <<>> /\ scan[r].phase = "normal" /\ scan[r].at = 1 /\ scan[r].barred = {}
  BY <1>1 DEF Book, Untried
<1>3. Recorded(r)' = 0 /\ \A t : ~Barred(r, t, Recorded(r))'
  BY <1>1, <1>2 DEF Recorded, Barred
<1>4. Untried(r)' /\ KeysBehind(r)' /\ FallbackIsClear(r)'
  BY <1>1 DEF Untried, KeysBehind, FallbackIsClear, InTarget, Stages
<1>5. route'[r].targets \in Seq(Target)
  BY DEF Inv, TypeOK, RouteTaken
<1>6. TargetsBehind(r)'
  BY <1>1, <1>2, <1>5 DEF TargetsBehind
<1>7. BarredIsKnown(r)' /\ AttemptsInOrder(r)'
  BY <1>1, <1>2, <1>3 DEF BarredIsKnown, AttemptsInOrder
<1>. QED  BY <1>4, <1>6, <1>7 DEF Book

\* Whoever goes on to the next target has nothing left to try at this one.
LEMMA PassKeepsBook ==
    ASSUME Inv, Inv', NEW r \in Requests, Book(r),
           UndefinedTarget(r) \/ SkipFallback(r) \/ LeaveTarget(r)
    PROVE  Book(r)'
<1>1. /\ pc[r] \in {"enter", "pick"} /\ pc'[r] = "enter" /\ route'[r] = route[r]
      /\ scan'[r].at = scan[r].at + 1 /\ scan'[r].phase = scan[r].phase
      /\ scan'[r].barred = scan[r].barred
  BY PassEffect DEF UndefinedTarget, SkipFallback, LeaveTarget, InTargets
<1>2. /\ scan[r].at \in DOMAIN route[r].targets /\ scan[r].at \in Nat /\ CurTarget(r) \in Target
      /\ route[r].targets \in Seq(Target)
  <2>1. route[r].targets \in Seq(Target) /\ scan[r].at \in Nat \ {0}
    BY DEF Inv, TypeOK, Place, RouteTaken
  <2>2. scan[r].at <= Len(route[r].targets)
    BY <1>1 DEF UndefinedTarget, SkipFallback, LeaveTarget, InTargets, Inv, WalkInBounds, InBounds,
                InTarget, Stages
  <2>. QED  BY <2>1, <2>2, HereIsTyped DEF Inv
<1>3. \/ attempts'[r] = attempts[r]
      \/ \E a \in Attempt : /\ attempts'[r] = Append(attempts[r], a)
                            /\ a.type = "normal" /\ a.outcome = "error"
  <2>1. CASE UndefinedTarget(r)
    <3>. DEFINE a == [target |-> CurTarget(r), type |-> "normal", key |-> NoKey,
                      outcome |-> "error", reply |-> NoReply]
    <3>1. a \in Attempt /\ a.type = "normal" /\ a.outcome = "error"
      BY <1>2, NoReplyIsReply DEF Attempt, Outcomes
    <3>2. attempts' = attempts \/ attempts' = [attempts EXCEPT ![r] = Append(@, a)]
      BY <2>1 DEF UndefinedTarget
    <3>. HIDE DEF a
    <3>3. attempts \in [Requests -> Seq(Attempt)]
      BY DEF Inv, TypeOK
    <3>. QED  BY <3>1, <3>2, <3>3
  <2>2. CASE SkipFallback(r) \/ LeaveTarget(r)
    BY <2>2 DEF SkipFallback, LeaveTarget
  <2>. QED  BY <2>1, <2>2
<1>4. Grows(r)
  BY <1>1, <1>3 DEF Grows
<1>5. \A t : Barred(r, t, Recorded(r))' <=> Barred(r, t, Recorded(r))
  <2>1. CASE attempts'[r] = attempts[r]
    BY <2>1 DEF Barred, Recorded
  <2>2. CASE attempts'[r] # attempts[r]
    BY <1>3, <2>2, AttemptCounts
  <2>. QED  BY <2>1, <2>2
<1>6. Spent(r, CurTarget(r), scan[r].phase, Recorded(r))
  <2>1. CASE UndefinedTarget(r)
    BY <2>1 DEF UndefinedTarget, Spent, Defined, Cfg, OwnCfg
  <2>2. CASE SkipFallback(r)
    <3>1. CurTarget(r) \in scan[r].barred => Barred(r, CurTarget(r), Recorded(r))
      BY <1>1, <1>2 DEF Book, BarredIsKnown
    <3>. QED  BY <2>2, <3>1 DEF SkipFallback, Spent, ProviderOf, CurProvider, OwnCfg, Cfg
  <2>3. CASE LeaveTarget(r)
    <3>1. pc[r] = "pick" /\ pc[r] \in InTarget /\ pc[r] \notin InHand /\ scan[r].left = {}
      BY <2>3 DEF LeaveTarget, InTarget, Stages, InHand
    <3>2. CASE CurTarget(r) \in scan[r].barred
      BY <1>1, <1>2, <3>2 DEF Book, BarredIsKnown, Spent
    <3>3. CASE CurTarget(r) \notin scan[r].barred
      <4>1. \A k \in DOMAIN CurKeys(r) :
              Covered(r, CurTarget(r), CurKeys(r)[k], scan[r].phase, Recorded(r))
        BY <3>1, <3>3 DEF Book, KeysBehind
      <4>. QED  BY <3>1, <4>1, KeysAtHand DEF Spent, Elements
    <3>. QED  BY <3>2, <3>3
  <2>. QED  BY <2>1, <2>2, <2>3
<1>7. TargetsBehind(r)'
  <2>1. \A t, phase : Spent(r, t, phase, Recorded(r)) => Spent(r, t, phase, Recorded(r))'
    BY <1>4, SpentStays
  <2>2. \A i \in DOMAIN route[r].targets :
          i < scan[r].at + 1 => i < scan[r].at \/ i = scan[r].at
    BY <1>2
  <2>. QED  BY <1>1, <1>6, <2>1, <2>2 DEF TargetsBehind, Book, CurTarget
<1>8. Untried(r)' /\ KeysBehind(r)' /\ FallbackIsClear(r)'
  BY <1>1 DEF Untried, KeysBehind, FallbackIsClear, InTarget, Stages
<1>9. BarredIsKnown(r)'
  BY <1>1, <1>5 DEF BarredIsKnown, Book
<1>10. AttemptsInOrder(r)'
  BY <1>1, <1>3, OrderStays DEF Book
<1>. QED  BY <1>7, <1>8, <1>9, <1>10 DEF Book

\* A target is entered with all its keys left, in the second phase unless barred.
LEMMA EnterKeepsBook ==
    ASSUME Inv, Inv', NEW r \in Requests, Book(r), EnterTarget(r)
    PROVE  Book(r)'
<1>1. /\ pc[r] = "enter" /\ pc'[r] = "pick" /\ route'[r] = route[r] /\ attempts'[r] = attempts[r]
      /\ scan'[r].at = scan[r].at /\ scan'[r].phase = scan[r].phase
      /\ scan'[r].barred = scan[r].barred /\ scan'[r].left = DOMAIN CurKeys(r)
      /\ scan[r].phase = "fallback" => CurTarget(r) \notin scan[r].barred
  BY EnterEffect DEF EnterTarget, InTargets
<1>2. CurKeys(r)' = CurKeys(r) /\ CurTarget(r)' = CurTarget(r)
  BY <1>1, SamePlace
<1>3. Untried(r)' /\ KeysBehind(r)'
  BY <1>1, <1>2 DEF Untried, KeysBehind
<1>4. FallbackIsClear(r)'
  BY <1>1, <1>2 DEF FallbackIsClear
<1>5. TargetsBehind(r)' /\ AttemptsInOrder(r)'
  BY <1>1, BehindStays, OrderStays DEF Book, Grows
<1>6. BarredIsKnown(r)'
  BY <1>1 DEF BarredIsKnown, Book, Barred, Recorded
<1>. QED  BY <1>3, <1>4, <1>5, <1>6 DEF Book

\* The second phase begins when every target is spent for the first.
LEMMA BeginFallbackKeepsBook ==
    ASSUME Inv, Inv', NEW r \in Requests, Book(r), BeginFallback(r)
    PROVE  Book(r)'
<1>1. /\ pc[r] = "enter" /\ pc'[r] = "enter" /\ route'[r] = route[r] /\ attempts'[r] = attempts[r]
      /\ scan'[r].at = 1 /\ scan'[r].phase = "fallback" /\ scan'[r].barred = scan[r].barred
      /\ scan[r].at > Len(route[r].targets) /\ scan[r].phase = "normal"
  BY BeginFallbackEffect DEF BeginFallback
<1>2. route[r].targets \in Seq(Target) /\ scan[r].at \in Nat
  BY DEF Inv, TypeOK, RouteTaken, Place
<1>3. \A t, phase : Spent(r, t, phase, Recorded(r)) => Spent(r, t, phase, Recorded(r))'
  BY <1>1, SpentStays DEF Grows
<1>4. TargetsBehind(r)'
  BY <1>1, <1>2, <1>3 DEF TargetsBehind, Book
<1>5. Untried(r)' /\ KeysBehind(r)' /\ FallbackIsClear(r)'
  BY <1>1 DEF Untried, KeysBehind, FallbackIsClear, InTarget, Stages
<1>6. AttemptsInOrder(r)'
  BY <1>1, OrderStays DEF Book
<1>7. BarredIsKnown(r)'
  BY <1>1 DEF BarredIsKnown, Book, Barred, Recorded
<1>. QED  BY <1>4, <1>5, <1>6, <1>7 DEF Book

\* A skipped key counts as tried.
LEMMA SkipKeepsBook ==
    ASSUME Inv, Inv', NEW r \in Requests, Book(r), SkipBlackedOut(r)
    PROVE  Book(r)'
<1>. DEFINE a(k) == [target |-> CurTarget(r), type |-> "normal", key |-> CurKeys(r)[k],
                     outcome |-> "skipped_blackout", reply |-> NoReply]
<1>1. PICK k \in scan[r].left :
        /\ pc'[r] = "pick" /\ route'[r] = route[r] /\ attempts'[r] = Append(attempts[r], a(k))
        /\ scan'[r].at = scan[r].at /\ scan'[r].phase = scan[r].phase
        /\ scan'[r].barred = scan[r].barred /\ scan'[r].left = scan[r].left \ {k}
  BY SkipEffect
<1>2. /\ pc[r] = "pick" /\ pc[r] \in InTarget /\ pc[r] \notin InHand /\ scan[r].phase = "normal"
      /\ k \in DOMAIN CurKeys(r) /\ scan[r].at <= Len(route[r].targets) /\ Defined(r)
  BY DEF SkipBlackedOut, Inv, WalkInBounds, InBounds, InTarget, Stages, InHand
<1>3. /\ a(k) \in Attempt /\ a(k).target = CurTarget(r) /\ a(k).key = CurKeys(r)[k]
      /\ a(k).type = "normal" /\ a(k).outcome # "prohibited_content"
  BY <1>2, HereIsTyped, PairIsTyped, NoReplyIsReply DEF Inv, Attempt, Outcomes
<1>. HIDE DEF a
<1>4. Grows(r)
  BY <1>1, <1>3 DEF Grows
<1>5. CurKeys(r)' = CurKeys(r) /\ CurTarget(r)' = CurTarget(r)
  BY <1>1, SamePlace
<1>6. KeysBehind(r)'
  <2>1. CurTarget(r) \notin scan[r].barred \/ scan[r].left # {}
    BY <1>1
  <2>2. ASSUME NEW j \in DOMAIN CurKeys(r) \ (scan[r].left \ {k})
        PROVE  Covered(r, CurTarget(r), CurKeys(r)[j], scan[r].phase, Recorded(r))'
    <3>1. CASE j = k
      BY <1>1, <1>2, <1>3, <1>5, <3>1, AttemptCounts
    <3>2. CASE j # k
      <4>1. Covered(r, CurTarget(r), CurKeys(r)[j], scan[r].phase, Recorded(r))
        BY <1>1, <1>2, <2>2, <3>2 DEF Book, KeysBehind
      <4>. QED  BY <1>1, <1>4, <1>5, <4>1, SpentStays
    <3>. QED  BY <3>1, <3>2
  <2>. QED  BY <1>1, <1>5, <2>2 DEF KeysBehind
<1>7. Untried(r)' /\ FallbackIsClear(r)'
  BY <1>1, <1>2 DEF Untried, FallbackIsClear
<1>8. TargetsBehind(r)' /\ AttemptsInOrder(r)'
  BY <1>1, <1>2, <1>3, <1>4, BehindStays, OrderStays DEF Book
<1>9. BarredIsKnown(r)'
  BY <1>1, <1>2, <1>3, AttemptCounts DEF BarredIsKnown, Book
<1>. QED  BY <1>6, <1>7, <1>8, <1>9 DEF Book

\* A key that is taken is in hand.
LEMMA TakeKeepsBook ==
    ASSUME Inv, Inv', NEW r \in Requests, Book(r), TakeKey(r)
    PROVE  Book(r)'
<1>1. PICK k \in scan[r].left :
        /\ pc[r] = "pick" /\ pc'[r] = "ready" /\ route'[r] = route[r] /\ attempts'[r] = attempts[r]
        /\ scan'[r].at = scan[r].at /\ scan'[r].phase = scan[r].phase
        /\ scan'[r].barred = scan[r].barred
        /\ scan'[r].left = scan[r].left \ {k} /\ scan'[r].key = k
  BY TakeEffect
<1>2. pc[r] \in InTarget /\ pc[r] \notin InHand /\ pc'[r] \in InHand
  BY <1>1 DEF InTarget, Stages, InHand
<1>3. Grows(r)
  BY <1>1 DEF Grows
<1>4. CurKeys(r)' = CurKeys(r) /\ CurTarget(r)' = CurTarget(r)
  BY <1>1, SamePlace
<1>5. KeysBehind(r)'
  <2>1. ASSUME NEW j \in DOMAIN CurKeys(r) \ (scan[r].left \ {k}), j # k
        PROVE  Covered(r, CurTarget(r), CurKeys(r)[j], scan[r].phase, Recorded(r))'
    <3>1. Covered(r, CurTarget(r), CurKeys(r)[j], scan[r].phase, Recorded(r))
      BY <1>1, <1>2, <2>1 DEF Book, KeysBehind
    <3>. QED  BY <1>1, <1>3, <1>4, <3>1, SpentStays
  <2>. QED  BY <1>1, <1>2, <1>4, <2>1 DEF KeysBehind
<1>6. Untried(r)' /\ FallbackIsClear(r)'
  BY <1>1, <1>2, <1>4 DEF Untried, FallbackIsClear, Book
<1>7. TargetsBehind(r)' /\ AttemptsInOrder(r)'
  BY <1>1, <1>3, BehindStays, OrderStays DEF Book
<1>8. BarredIsKnown(r)'
  BY <1>1 DEF BarredIsKnown, Book, Barred, Recorded
<1>. QED  BY <1>5, <1>6, <1>7, <1>8 DEF Book

\* A step that changes nothing the book is about.
LEMMA StillKeepsBook ==
    ASSUME Inv, Inv', NEW r \in Requests, Book(r), route'[r] = route[r], scan'[r] = scan[r],
           attempts'[r] = attempts[r],
           \/ pc'[r] = pc[r]
           \/ pc[r] \in InHand /\ pc'[r] \in InHand
           \/ pc[r] = "failing" /\ pc'[r] = "pick"
           \/ pc[r] # "new" /\ pc'[r] = "done"
    PROVE  Book(r)'
<1>1. CurKeys(r)' = CurKeys(r) /\ CurTarget(r)' = CurTarget(r)
  BY SamePlace
<1>2. Untried(r)'
  BY DEF Untried, InHand, Book
<1>3. TargetsBehind(r)' /\ AttemptsInOrder(r)'
  BY BehindStays, OrderStays DEF Book, Grows
<1>4. BarredIsKnown(r)'
  BY DEF BarredIsKnown, Book, Barred, Recorded, InHand
<1>5. \/ pc'[r] = "done"
      \/ /\ pc'[r] \in InTarget => pc[r] \in InTarget
         /\ pc[r] \in InHand <=> pc'[r] \in InHand
         /\ pc[r] = "pick" => pc'[r] = "pick"
  BY DEF InTarget, InHand, Stages
<1>6. KeysBehind(r)'
  <2>1. \A t, key, type : Covered(r, t, key, type, Recorded(r))' <=> Covered(r, t, key, type, Recorded(r))
    BY DEF Covered, Recorded
  <2>. QED  BY <1>1, <1>5, <2>1 DEF KeysBehind, Book, InTarget
<1>7. FallbackIsClear(r)'
  BY <1>1, <1>5 DEF FallbackIsClear, Book, InTarget
<1>. QED  BY <1>2, <1>3, <1>4, <1>6, <1>7 DEF Book

\* The attempt in hand is recorded: its key is tried, and a policy block is known.
LEMMA RecordKeepsBook ==
    ASSUME Inv, Inv', NEW r \in Requests, Book(r),
           \/ SettleSuccess(r) \/ SettleCanceled(r) \/ SettleProhibited(r) \/ SettleNext(r)
           \/ SettleError(r) \/ PumpEnd(r)
    PROVE  Book(r)'
<1>1. PICK v \in Verdicts, x \in Reply :
        /\ pc[r] \in InHand /\ pc'[r] \in {"pick", "failing", "done"} /\ route'[r] = route[r]
        /\ attempts'[r] = Append(attempts[r], Tried(r, v, x)) /\ Tried(r, v, x) \in Attempt
        /\ scan'[r].at = scan[r].at /\ scan'[r].phase = scan[r].phase
        /\ \/ v # "prohibited_content" /\ scan'[r] = scan[r]
           \/ pc'[r] = "done" /\ scan'[r] = scan[r]
           \/ /\ v = "prohibited_content" /\ pc'[r] = "pick" /\ scan'[r].left = {}
              /\ scan'[r].barred = scan[r].barred \cup {CurTarget(r)}
  BY RecordEffect
<1>2. /\ pc[r] \in InTarget /\ pc[r] \notin {"pick", "done"} /\ pc'[r] \notin InHand
      /\ pc'[r] = "done" => pc'[r] \notin InTarget
  BY <1>1 DEF InTarget, Stages, InHand
<1>3. /\ Tried(r, v, x).target = CurTarget(r) /\ Tried(r, v, x).key = CurKeys(r)[scan[r].key]
      /\ Tried(r, v, x).type = scan[r].phase /\ Tried(r, v, x).outcome = v
  BY DEF Tried
<1>4. Grows(r)
  BY <1>1 DEF Grows
<1>5. CurKeys(r)' = CurKeys(r) /\ CurTarget(r)' = CurTarget(r)
  BY <1>1, SamePlace
<1>6. scan[r].phase = "fallback" => CurTarget(r) \notin scan[r].barred
  BY <1>2 DEF Book, FallbackIsClear
<1>7. CurTarget(r) \in Target
  BY <1>2, KeysAtHand
<1>8. KeysBehind(r)'
  <2>1. CASE scan'[r] = scan[r]
    <3>1. ASSUME NEW j \in DOMAIN CurKeys(r) \ scan[r].left,
                 ~(CurTarget(r) \in scan[r].barred /\ scan[r].left = {})
          PROVE  Covered(r, CurTarget(r), CurKeys(r)[j], scan[r].phase, Recorded(r))'
      <4>1. CASE j = scan[r].key
        BY <1>1, <1>3, <1>5, <4>1, AttemptCounts
      <4>2. CASE j # scan[r].key
        <5>1. Covered(r, CurTarget(r), CurKeys(r)[j], scan[r].phase, Recorded(r))
          BY <1>2, <3>1, <4>2 DEF Book, KeysBehind
        <5>. QED  BY <1>1, <1>4, <1>5, <5>1, SpentStays
      <4>. QED  BY <4>1, <4>2
    <3>. QED  BY <1>5, <2>1, <3>1 DEF KeysBehind
  <2>2. CASE scan'[r] # scan[r]
    BY <1>1, <1>5, <2>2 DEF KeysBehind
  <2>. QED  BY <2>1, <2>2
<1>9. Untried(r)' /\ FallbackIsClear(r)'
  BY <1>1, <1>2, <1>5, <1>6 DEF Untried, FallbackIsClear
<1>10. TargetsBehind(r)'
  BY <1>1, <1>4, BehindStays DEF Book
<1>11. scan[r].phase = "fallback" => ~Barred(r, CurTarget(r), Recorded(r))
  BY <1>2, <1>6, <1>7 DEF Book, BarredIsKnown
<1>12. AttemptsInOrder(r)'
  BY <1>1, <1>3, <1>11, OrderStays DEF Book
<1>13. BarredIsKnown(r)'
  <2>1. \A t : Barred(r, t, Recorded(r))' <=>
                Barred(r, t, Recorded(r)) \/ (t = CurTarget(r) /\ v = "prohibited_content")
    BY <1>1, <1>3, AttemptCounts
  <2>. QED  BY <1>1, <1>2, <2>1 DEF BarredIsKnown, Book
<1>. QED  BY <1>8, <1>9, <1>10, <1>12, <1>13 DEF Book

LEMMA HandleKeepsBook ==
    ASSUME Inv, Inv', NEW r \in Requests, Book(r), Handle(r)
    PROVE  Book(r)'
<1>1. CASE Walk(r)
  BY <1>1, StartKeepsBook, PassKeepsBook, EnterKeepsBook, BeginFallbackKeepsBook, SkipKeepsBook,
     TakeKeepsBook DEF Walk
<1>2. CASE Try(r)
  BY <1>2, InHandEffect, EndEffect, StillKeepsBook, RecordKeepsBook DEF Try
<1>3. CASE Deliver(r)
  BY <1>3, InHandEffect, EndEffect, StillKeepsBook, RecordKeepsBook DEF Deliver
<1>. QED  BY <1>1, <1>2, <1>3 DEF Handle

LEMMA StepKeepsBooks ==
    ASSUME Inv, Inv', Books, [Next]_vars
    PROVE  Books'
<1>. SUFFICES ASSUME NEW q \in Requests PROVE Book(q)'
  BY DEF Books
<1>1. Book(q)
  BY DEF Books
<1>2. ASSUME UNCHANGED <<pc, route, scan, attempts>>
      PROVE  Book(q)'
  BY <1>1, <1>2, StillKeepsBook
<1>3. ASSUME NEW r \in Requests, Handle(r)
      PROVE  Book(q)'
  <2>1. CASE q = r
    BY <1>1, <1>3, <2>1, HandleKeepsBook
  <2>2. CASE q # r
    <3>1. pc'[q] = pc[q] /\ route'[q] = route[q] /\ scan'[q] = scan[q] /\ attempts'[q] = attempts[q]
      BY <1>3, <2>2, StepsAreApart DEF Apart
    <3>. QED  BY <1>1, <3>1, StillKeepsBook
  <2>. QED  BY <2>1, <2>2
<1>4. ASSUME NEW r \in Requests, ClientLeaves(r) \/ ContextEnds(r)
      PROVE  UNCHANGED <<pc, route, scan, attempts>>
  BY <1>4 DEF ClientLeaves, ContextEnds, requestVars
<1>5. CASE Reload \/ ClockTicks \/ Finished \/ UNCHANGED vars
  BY <1>2, <1>5 DEF Reload, SwapState, SetWindow, ClockTicks, Finished, vars, requestVars
<1>. QED  BY <1>2, <1>3, <1>4, <1>5 DEF Next

LEMMA InitKeepsBooks ==
    ASSUME RouterInit
    PROVE  Books
<1>. SUFFICES ASSUME NEW r \in Requests PROVE Book(r)
  BY DEF Books
<1>1. /\ pc[r] = "new" /\ attempts[r] = <<>> /\ route[r].targets = <<>>
      /\ scan[r].phase = "normal" /\ scan[r].at = 1 /\ scan[r].barred = {}
  BY DEF RouterInit
<1>2. Recorded(r) = 0 /\ \A t : ~Barred(r, t, Recorded(r))
  BY <1>1 DEF Recorded, Barred
<1>. QED  BY <1>1, <1>2 DEF Book, Untried, TargetsBehind, KeysBehind, BarredIsKnown, FallbackIsClear,
                         AttemptsInOrder, InTarget, Stages

\* A request's place in its two phases can always be told from its attempts: what
\* is behind it is spent, what is left is not, and what is barred was blocked.
THEOREM BooksAreKept == Spec => [](Inv /\ Books)
<1>1. RouterInit => Books
  BY InitKeepsBooks
<1>2. Books /\ Inv /\ Inv' /\ [Next]_vars => Books'
  BY StepKeepsBooks
<1>3. Spec => []Inv
  BY InvHolds
<1>. QED  BY <1>1, <1>2, <1>3, PTL DEF Spec

\* However many requests run and whatever is reloaded, a fallback key is called
\* only after every target's normal keys were called or skipped (run's two phases).
THEOREM FallbackComesLast == Spec => []FallbackIsLastResort
<1>1. ASSUME Inv, Books PROVE FallbackIsLastResort
  <2>. SUFFICES ASSUME NEW r \in Requests, NEW i \in DOMAIN attempts[r],
                       attempts[r][i].type = "fallback", NEW t \in DefinedTargets(r)
                PROVE  \/ Barred(r, t, i - 1)
                       \/ \A k \in Elements(ProviderOf(r, t).keys) : Covered(r, t, k, "normal", i - 1)
    BY DEF FallbackIsLastResort, AllNormalKeysSpent
  <2>1. PICK j \in DOMAIN route[r].targets : t = route[r].targets[j]
    BY DEF DefinedTargets, TargetsOf
  <2>2. Spent(r, t, "normal", i - 1)
    BY <1>1, <2>1 DEF Books, Book, AttemptsInOrder
  <2>. QED  BY <2>2 DEF Spent, KeysOf, DefinedTargets
<1>. QED  BY <1>1, BooksAreKept, PTL

\* A combo that answered with a policy block is never asked again with a fallback
\* key (prohibited in run).
THEOREM PolicyBlocksStand == Spec => []NoFallbackAfterPolicyBlock
<1>1. Inv /\ Books => NoFallbackAfterPolicyBlock
  BY DEF Books, Book, AttemptsInOrder, NoFallbackAfterPolicyBlock
<1>. QED  BY <1>1, BooksAreKept, PTL

-----------------------------------------------------------------------------
(* A request stays in the configuration it started under *)

\* One attempt of r, as UsesItsOwnGeneration has it.
IsOwn(r, a) ==
    IF a.outcome = "error" THEN a.target.provider \notin DOMAIN OwnCfg(r).providers
    ELSE /\ a.target.provider \in DOMAIN OwnCfg(r).providers
         /\ a.key \in Elements(ProviderOf(r, a.target).keys)
                     \cup Elements(FallbackKeySet(ProviderOf(r, a.target)))
AttemptsAreOwn(r) == \A i \in DOMAIN attempts[r] : IsOwn(r, attempts[r][i])

\* What a request appends to its attempts is its own.
LEMMA NewAttemptIsOwn ==
    ASSUME Inv, NEW r \in Requests, Handle(r), attempts'[r] # attempts[r]
    PROVE  \E a \in Attempt : attempts'[r] = Append(attempts[r], a) /\ IsOwn(r, a)
<1>1. ASSUME scan[r].at <= Len(route[r].targets), Defined(r), NEW k \in DOMAIN CurKeys(r)
      PROVE  /\ CurTarget(r).provider \in DOMAIN OwnCfg(r).providers
             /\ CurKeys(r)[k] \in Elements(ProviderOf(r, CurTarget(r)).keys)
                            \cup Elements(FallbackKeySet(ProviderOf(r, CurTarget(r))))
  BY <1>1 DEF Defined, CurKeys, CurProvider, OwnCfg, ProviderOf, Cfg, Elements
<1>2. CASE UndefinedTarget(r)
  <2>. DEFINE a == [target |-> CurTarget(r), type |-> "normal", key |-> NoKey,
                    outcome |-> "error", reply |-> NoReply]
  <2>1. a \in Attempt
    BY <1>2, HereIsTyped, NoReplyIsReply DEF UndefinedTarget, InTargets, Inv, Attempt, Outcomes
  <2>2. IsOwn(r, a)
    BY <1>2 DEF UndefinedTarget, IsOwn, Defined, Cfg, OwnCfg
  <2>3. attempts' = [attempts EXCEPT ![r] = Append(@, a)] /\ attempts \in [Requests -> Seq(Attempt)]
    BY <1>2 DEF UndefinedTarget, Inv, TypeOK
  <2>. QED  BY <2>1, <2>2, <2>3
<1>3. CASE SkipBlackedOut(r)
  <2>. DEFINE a(k) == [target |-> CurTarget(r), type |-> "normal", key |-> CurKeys(r)[k],
                       outcome |-> "skipped_blackout", reply |-> NoReply]
  <2>1. PICK k \in scan[r].left : attempts'[r] = Append(attempts[r], a(k))
    BY <1>3, SkipEffect
  <2>2. k \in DOMAIN CurKeys(r) /\ scan[r].at <= Len(route[r].targets) /\ Defined(r)
    BY <1>3 DEF SkipBlackedOut, Inv, WalkInBounds, InBounds, InTarget, Stages
  <2>3. a(k) \in Attempt
    BY <2>2, HereIsTyped, PairIsTyped, NoReplyIsReply DEF Inv, Attempt, Outcomes
  <2>4. IsOwn(r, a(k))
    BY <1>1, <2>2 DEF IsOwn
  <2>. QED  BY <2>1, <2>3, <2>4
<1>4. CASE \/ SettleSuccess(r) \/ SettleCanceled(r) \/ SettleProhibited(r) \/ SettleNext(r)
           \/ SettleError(r) \/ PumpEnd(r)
  <2>1. PICK v \in Verdicts, x \in Reply :
          /\ pc[r] \in InHand /\ attempts'[r] = Append(attempts[r], Tried(r, v, x))
          /\ Tried(r, v, x) \in Attempt
    BY <1>4, RecordEffect
  <2>2. /\ scan[r].key \in DOMAIN CurKeys(r) /\ scan[r].at <= Len(route[r].targets) /\ Defined(r)
        /\ v # "error"
    BY <2>1 DEF InHand, InTarget, InCall, Stages, Inv, WalkInBounds, InBounds, Verdicts
  <2>3. IsOwn(r, Tried(r, v, x))
    BY <1>1, <2>2 DEF IsOwn, Tried
  <2>. QED  BY <2>1, <2>3
<1>5. CASE SkipFallback(r) \/ LeaveTarget(r)
  BY <1>5 DEF SkipFallback, LeaveTarget
<1>6. CASE Walk(r)
  BY <1>2, <1>3, <1>5, <1>6, StartEffect, EnterEffect, BeginFallbackEffect, TakeEffect DEF Walk
<1>7. CASE Try(r) \/ Deliver(r)
  BY <1>4, <1>7, InHandEffect, EndEffect DEF Try, Deliver
<1>. QED  BY <1>6, <1>7 DEF Handle

LEMMA StepKeepsOwn ==
    ASSUME Inv, Books, NEW r \in Requests, AttemptsAreOwn(r), [Next]_vars
    PROVE  AttemptsAreOwn(r)'
<1>1. ASSUME attempts'[r] = attempts[r], attempts[r] = <<>> \/ route'[r] = route[r]
      PROVE  AttemptsAreOwn(r)'
  <2>1. CASE attempts[r] = <<>>
    BY <1>1, <2>1 DEF AttemptsAreOwn
  <2>2. CASE route'[r] = route[r]
    <3>1. \A a : IsOwn(r, a)' <=> IsOwn(r, a)
      BY <2>2 DEF IsOwn, OwnCfg, ProviderOf
    <3>. QED  BY <1>1, <3>1 DEF AttemptsAreOwn
  <2>. QED  BY <1>1, <2>1, <2>2
<1>2. ASSUME Handle(r) PROVE AttemptsAreOwn(r)'
  <2>1. CASE attempts'[r] = attempts[r]
    <3>1. CASE Start(r)
      BY <1>1, <2>1, <3>1, StartEffect DEF Books, Book, Untried
    <3>2. CASE ~Start(r)
      <4>1. route'[r] = route[r]
        BY <1>2, <3>2, EnterEffect, PassEffect, BeginFallbackEffect, SkipEffect, TakeEffect, InHandEffect,
           RecordEffect, EndEffect DEF Handle, Walk, Try, Deliver
      <4>. QED  BY <1>1, <2>1, <4>1
    <3>. QED  BY <3>1, <3>2
  <2>2. CASE attempts'[r] # attempts[r]
    <3>1. PICK a \in Attempt : attempts'[r] = Append(attempts[r], a) /\ IsOwn(r, a)
      BY <1>2, <2>2, NewAttemptIsOwn
    <3>2. route'[r] = route[r]
      BY <1>2, <2>2, StartEffect, EnterEffect, PassEffect, BeginFallbackEffect, SkipEffect, TakeEffect,
         InHandEffect, RecordEffect, EndEffect DEF Handle, Walk, Try, Deliver
    <3>3. attempts[r] \in Seq(Attempt)
      BY DEF Inv, TypeOK
    <3>4. \A b : IsOwn(r, b)' <=> IsOwn(r, b)
      BY <3>2 DEF IsOwn, OwnCfg, ProviderOf
    <3>5. \A i \in DOMAIN attempts'[r] : IsOwn(r, attempts'[r][i])
      BY <3>1, <3>3 DEF AttemptsAreOwn
    <3>. QED  BY <3>4, <3>5 DEF AttemptsAreOwn
  <2>. QED  BY <2>1, <2>2
<1>3. ASSUME NEW q \in Requests, q # r, Handle(q) PROVE AttemptsAreOwn(r)'
  BY <1>1, <1>3, StepsAreApart DEF Apart
<1>4. CASE \/ \E q \in Requests : ClientLeaves(q) \/ ContextEnds(q)
           \/ Reload \/ ClockTicks \/ Finished \/ UNCHANGED vars
  <2>1. UNCHANGED <<route, attempts>>
    BY <1>4 DEF ClientLeaves, ContextEnds, Reload, SwapState, SetWindow, ClockTicks, Finished, vars,
                requestVars
  <2>. QED  BY <1>1, <2>1
<1>. QED  BY <1>2, <1>3, <1>4 DEF Next

\* A request uses the keys and providers of the configuration it started under,
\* however many reloads happen meanwhile (state.Load once per request).
THEOREM OwnGenerationIsUsed == Spec => []UsesItsOwnGeneration
<1>. DEFINE Own == \A r \in Requests : AttemptsAreOwn(r)
<1>1. RouterInit => Own
  BY DEF RouterInit, AttemptsAreOwn
<1>2. Own /\ Inv /\ Books /\ [Next]_vars => Own'
  BY StepKeepsOwn
<1>3. Own => UsesItsOwnGeneration
  BY DEF AttemptsAreOwn, IsOwn, UsesItsOwnGeneration
<1>. QED  BY <1>1, <1>2, <1>3, BooksAreKept, PTL DEF Spec

-----------------------------------------------------------------------------
(* What the client sees *)

\* A request is committed while its stream is pumped and never before, and only
\* a request for a stream gets near one.
CommitFits(r) ==
    /\ pc[r] \in {"pump", "gone"} => result[r].committed
    /\ result[r].committed => pc[r] \in {"pump", "gone", "failing", "done"}
    /\ pc[r] \in {"early", "commit", "pump", "gone"} => IsStreamed(r)
    /\ pc[r] = "judged" /\ call[r].verdict = "success" => ~IsStreamed(r)

\* The frame at place k of the attempt r is making.
FrameAt(r, k) == [try |-> Recorded(r) + 1, n |-> k]

\* What the client got, and then what is kept for it, are the frames of this one
\* attempt in order; nothing is sent before the commit.
FramesFit(r) ==
    /\ ~result[r].committed => wire[r] = <<>>
    /\ pc[r] = "calling" => buf[r] = <<>>
    /\ pc[r] \in {"calling", "early"} => call[r].reply.none
    /\ pc[r] \in {"calling", "early", "commit", "pump", "gone"} =>
            \A i \in DOMAIN wire[r] : wire[r][i] = FrameAt(r, i)
    /\ pc[r] \in {"calling", "early", "commit", "pump"} =>
            /\ \A i \in DOMAIN buf[r] : buf[r][i] = FrameAt(r, Len(wire[r]) + i)
            /\ call[r].reply.none => call[r].read = Len(wire[r]) + Len(buf[r])

Delivery(r) == CommitFits(r) /\ FramesFit(r)
Deliveries == \A r \in Requests : Delivery(r)

-----------------------------------------------------------------------------
(* Every step keeps the delivery in order *)

\* A request between attempts, failing or done holds no frame.
LEMMA BetweenAttempts ==
    ASSUME NEW r \in Requests, pc'[r] \in {"enter", "pick", "ready", "failing", "done"},
           result'[r].committed => pc'[r] \in {"failing", "done"},
           ~result'[r].committed => wire'[r] = <<>>
    PROVE  Delivery(r)'
<1>1. CommitFits(r)'
  BY DEF CommitFits
<1>2. FramesFit(r)'
  BY DEF FramesFit
<1>. QED  BY <1>1, <1>2 DEF Delivery

LEMMA WalkKeepsDelivery ==
    ASSUME Inv, NEW r \in Requests, Delivery(r), Walk(r)
    PROVE  Delivery(r)'
<1>1. ~result[r].committed /\ wire[r] = <<>>
  BY DEF Walk, Start, UndefinedTarget, SkipFallback, EnterTarget, LeaveTarget, BeginFallback,
         SkipBlackedOut, TakeKey, InTargets, Delivery, CommitFits, FramesFit
<1>2. pc'[r] \in {"enter", "pick", "ready", "done"}
  BY StartEffect, PassEffect, EnterEffect, BeginFallbackEffect, SkipEffect, TakeEffect DEF Walk
<1>3. wire' = wire
  BY DEF Walk, Start, UndefinedTarget, SkipFallback, EnterTarget, LeaveTarget, BeginFallback,
         SkipBlackedOut, TakeKey
<1>4. result'[r].committed = result[r].committed
  <2>1. result' = result \/ result' = [result EXCEPT ![r].status = 400]
    BY DEF Walk, Start, UndefinedTarget, SkipFallback, EnterTarget, LeaveTarget, BeginFallback,
           SkipBlackedOut, TakeKey
  <2>2. result \in [Requests -> Result] /\ result[r] \in Result
    BY DEF Inv, TypeOK
  <2>. QED  BY <2>1, <2>2 DEF Result
<1>. QED  BY <1>1, <1>2, <1>3, <1>4, BetweenAttempts

\* Settling an attempt sends nothing.
LEMMA SettleKeepsDelivery ==
    ASSUME Inv, NEW r \in Requests, Delivery(r),
           \/ SettleSuccess(r) \/ SettleCanceled(r) \/ SettleProhibited(r) \/ SettleNext(r)
           \/ SettleError(r)
    PROVE  Delivery(r)'
<1>1. pc[r] = "judged" /\ wire' = wire /\ pc'[r] \in {"pick", "failing", "done"}
  BY RecordEffect DEF SettleSuccess, SettleCanceled, SettleProhibited, SettleNext, SettleError, Settle
<1>2. ~result[r].committed /\ wire[r] = <<>>
  BY <1>1 DEF Delivery, CommitFits, FramesFit
<1>3. result'[r].committed = result[r].committed
  <2>1. result \in [Requests -> Result] /\ result[r] \in Result
    BY DEF Inv, TypeOK
  <2>2. \/ result' = result \/ result' = [result EXCEPT ![r].status = 499]
        \/ result' = [result EXCEPT ![r].success = TRUE, ![r].status = call[r].reply.status]
    BY DEF SettleSuccess, SettleCanceled, SettleProhibited, SettleNext, SettleError
  <2>. QED  BY <2>1, <2>2 DEF Result
<1>. QED  BY <1>1, <1>2, <1>3, BetweenAttempts

\* So do the last steps; a refusal alone sends a frame, at once with its commit.
LEMMA EndKeepsDelivery ==
    ASSUME Inv, NEW r \in Requests, Delivery(r),
           FinishFail(r) \/ AnswerExhausted(r) \/ SendRefusal(r) \/ PumpEnd(r)
    PROVE  Delivery(r)'
<1>1. result \in [Requests -> Result] /\ result[r] \in Result /\ pc \in [Requests -> Stages]
  BY DEF Inv, TypeOK
<1>2. CASE FinishFail(r)
  <2>1. /\ pc'[r] = IF result[r].committed THEN "done" ELSE "pick"
        /\ result' = result /\ wire' = wire
    BY <1>1, <1>2 DEF FinishFail, Goto, requestVars
  <2>. QED  BY <2>1, BetweenAttempts DEF Delivery, FramesFit
<1>3. CASE AnswerExhausted(r)
  <2>1. /\ pc[r] = "enter" /\ pc'[r] = "done" /\ wire' = wire
        /\ result'[r].committed = result[r].committed
    BY <1>1, <1>3 DEF AnswerExhausted, AllTried, Goto, Result
  <2>. QED  BY <2>1, BetweenAttempts DEF Delivery, FramesFit
<1>4. CASE SendRefusal(r)
  <2>1. pc'[r] = "done" /\ result'[r].committed
    BY <1>1, <1>4 DEF SendRefusal, Goto, Result
  <2>. QED  BY <2>1, BetweenAttempts
<1>5. CASE PumpEnd(r)
  <2>1. PICK b \in BOOLEAN : /\ result' = [result EXCEPT ![r].success = b]
                             /\ pc'[r] \in {"failing", "done"}
    <3>1. PICK e \in IF pc[r] = "gone" THEN {call[r].reply} ELSE PumpEnds(r) :
            result' = [result EXCEPT ![r].success = (PumpVerdict(r, e) = "success")]
      BY <1>5 DEF PumpEnd
    <3>2. pc'[r] \in {"failing", "done"}
      BY <1>1, <1>5 DEF PumpEnd, Goto
    <3>3. (PumpVerdict(r, e) = "success") \in BOOLEAN
      OBVIOUS
    <3>. QED  BY <3>1, <3>2, <3>3
  <2>2. result'[r].committed = result[r].committed
    BY <1>1, <2>1 DEF Result
  <2>3. result[r].committed
    BY <1>5 DEF PumpEnd, Delivery, CommitFits
  <2>. QED  BY <2>1, <2>2, <2>3, BetweenAttempts
<1>. QED  BY <1>2, <1>3, <1>4, <1>5

\* Every attempt begins without frames.
LEMMA SendCallKeepsDelivery ==
    ASSUME Inv, NEW r \in Requests, Delivery(r), SendCall(r)
    PROVE  Delivery(r)'
<1>1. /\ pc[r] = "ready" /\ pc'[r] = "calling" /\ buf'[r] = <<>> /\ wire'[r] = wire[r]
      /\ result'[r] = result[r] /\ call'[r].reply = NoReply /\ call'[r].read = 0
  BY DEF SendCall, Goto, Inv, TypeOK
<1>2. ~result[r].committed /\ wire[r] = <<>>
  BY <1>1 DEF Delivery, CommitFits, FramesFit
<1>3. CommitFits(r)'
  BY <1>1, <1>2 DEF CommitFits
<1>4. NoReply.none
  BY DEF NoReply
<1>5. FramesFit(r)'
  BY <1>1, <1>2, <1>4 DEF FramesFit
<1>. QED  BY <1>3, <1>5 DEF Delivery

\* Whatever a call returns is a reply.
LEMMA RepliesAreThere ==
    ASSUME NEW r, NEW path, NEW x \in Returns(r, path)
    PROVE  ~x.none
<1>1. CASE x \in {[Empty EXCEPT !.incompatible = TRUE, !.learn = (path = "probed")],
                  [Empty EXCEPT !.err = TRUE, !.status = 400, !.body = TRUE]}
  BY <1>1 DEF Empty, NoReply
<1>2. CASE x \notin {[Empty EXCEPT !.incompatible = TRUE, !.learn = (path = "probed")],
                     [Empty EXCEPT !.err = TRUE, !.status = 400, !.body = TRUE]}
  <2>1. PICK y \in Replies : x = [AsSeen(r, y) EXCEPT !.learn = (path = "probed")]
    BY <1>2, Zenon DEF Returns
  <2>2. y \in Reply /\ ~y.none
    BY RouterAssumption
  <2>3. AsSeen(r, y) = y \/ AsSeen(r, y) = [y EXCEPT !.status = IF y.timedOut THEN 504 ELSE 502, !.body = TRUE]
    BY Zenon DEF AsSeen
  <2>. QED  BY <2>1, <2>2, <2>3 DEF Reply
<1>. QED  BY <1>1, <1>2

\* A whole reply is judged, or becomes the frames of a stream.
LEMMA ReplyArrivesKeepsDelivery ==
    ASSUME Inv, NEW r \in Requests, Delivery(r), ReplyArrives(r)
    PROVE  Delivery(r)'
<1>. DEFINE frames(n) == [i \in 1..n |-> [try |-> Len(attempts[r]) + 1, n |-> i]]
<1>1. /\ pc[r] = "calling" /\ wire'[r] = wire[r] /\ result'[r] = result[r] /\ ask' = ask
      /\ attempts' = attempts
  BY DEF ReplyArrives
<1>2. ~result[r].committed /\ wire[r] = <<>> /\ buf[r] = <<>>
  BY <1>1 DEF Delivery, CommitFits, FramesFit
<1>3. PICK path \in Paths(r) : \E x \in Returns(r, path) :
        /\ call' = [call EXCEPT ![r].reply = x, ![r].verdict = Judge(r, x)]
        /\ \/ /\ Judge(r, x) = "success" /\ IsStreamed(r)
              /\ \E n \in 1..MaxFrames : buf' = [buf EXCEPT ![r] = frames(n)]
              /\ Goto(r, "commit")
           \/ ~(Judge(r, x) = "success" /\ IsStreamed(r)) /\ UNCHANGED buf /\ Goto(r, "judged")
  BY Zenon DEF ReplyArrives
<1>4. PICK x \in Returns(r, path) :
        /\ call' = [call EXCEPT ![r].reply = x, ![r].verdict = Judge(r, x)]
        /\ \/ /\ Judge(r, x) = "success" /\ IsStreamed(r)
              /\ \E n \in 1..MaxFrames : buf' = [buf EXCEPT ![r] = frames(n)]
              /\ Goto(r, "commit")
           \/ ~(Judge(r, x) = "success" /\ IsStreamed(r)) /\ UNCHANGED buf /\ Goto(r, "judged")
  BY <1>3, Zenon
<1>5. call'[r].reply = x /\ call'[r].verdict = Judge(r, x) /\ ~x.none
  <2>1. call \in [Requests -> CallMade] /\ call[r] \in CallMade
    BY DEF Inv, TypeOK
  <2>2. call'[r] = [call[r] EXCEPT !.reply = x, !.verdict = Judge(r, x)]
    BY <1>4, <2>1, Zenon
  <2>. QED  BY <2>1, <2>2, RepliesAreThere, Zenon DEF CallMade
<1>6. CASE Judge(r, x) = "success" /\ IsStreamed(r)
  <2>1. PICK n \in 1..MaxFrames : buf' = [buf EXCEPT ![r] = frames(n)] /\ Goto(r, "commit")
    BY <1>4, <1>6
  <2>2. pc'[r] = "commit" /\ buf'[r] = frames(n)
    BY <2>1 DEF Goto, Inv, TypeOK
  <2>3. CommitFits(r)'
    BY <1>1, <1>2, <1>6, <2>2 DEF CommitFits, IsStreamed
  <2>4. \A i \in DOMAIN buf'[r] : buf'[r][i] = FrameAt(r, i)'
    BY <1>1, <2>2 DEF FrameAt, Recorded
  <2>5. \A i \in DOMAIN buf'[r] : Len(wire'[r]) + i = i
    BY <1>1, <1>2, <2>2
  <2>6. \A i \in DOMAIN buf'[r] : buf'[r][i] = FrameAt(r, Len(wire[r]) + i)'
    BY <2>4, <2>5
  <2>7. FramesFit(r)'
    BY <1>1, <1>2, <1>5, <2>2, <2>6 DEF FramesFit
  <2>. QED  BY <2>3, <2>7 DEF Delivery
<1>7. CASE ~(Judge(r, x) = "success" /\ IsStreamed(r))
  <2>1. pc'[r] = "judged"
    BY <1>4, <1>7 DEF Goto, Inv, TypeOK
  <2>2. CommitFits(r)' /\ FramesFit(r)'
    BY <1>1, <1>2, <1>5, <1>7, <2>1 DEF CommitFits, FramesFit, IsStreamed
  <2>. QED  BY <2>2 DEF Delivery
<1>. QED  BY <1>6, <1>7

\* A frame that is read takes the next place.
LEMMA ReadFrameFits ==
    ASSUME Inv, NEW r \in Requests, Delivery(r), ReadFrame(r), attempts' = attempts, wire' = wire,
           pc[r] \in {"early", "pump"}, call[r].reply.none
    PROVE  /\ \A i \in DOMAIN buf'[r] : buf'[r][i] = FrameAt(r, Len(wire[r]) + i)'
           /\ call'[r].read = Len(wire'[r]) + Len(buf'[r]) /\ call'[r].reply = call[r].reply
           /\ call'[r].verdict = call[r].verdict
<1>1. /\ call \in [Requests -> CallMade] /\ call[r] \in CallMade /\ call[r].read \in Nat
      /\ buf \in [Requests -> Seq(Frame)] /\ buf[r] \in Seq(Frame) /\ wire[r] \in Seq(Frame)
  BY DEF Inv, TypeOK, CallMade
<1>2. Len(wire[r]) \in Nat /\ Len(buf[r]) \in Nat /\ call[r].read \in Nat
  BY <1>1
<1>3. \A i \in DOMAIN buf[r] : buf[r][i] = FrameAt(r, Len(wire[r]) + i)
  BY DEF Delivery, FramesFit
<1>4. call[r].read = Len(wire[r]) + Len(buf[r])
  BY DEF Delivery, FramesFit
<1>5. /\ buf'[r] = Append(buf[r], FrameAt(r, call[r].read + 1))
      /\ call'[r].read = call[r].read + 1 /\ call'[r].reply = call[r].reply
      /\ call'[r].verdict = call[r].verdict
  BY <1>1 DEF ReadFrame, FrameAt, Recorded, CallMade
<1>. DEFINE sent == Len(wire[r])
            kept == Len(buf[r])
            read == call[r].read
<1>6. /\ sent \in Nat /\ kept \in Nat /\ read \in Nat /\ read = sent + kept
      /\ Len(buf'[r]) = kept + 1 /\ DOMAIN buf'[r] = 1..(kept + 1)
      /\ \A i \in 1..kept : buf'[r][i] = FrameAt(r, sent + i)
      /\ buf'[r][kept + 1] = FrameAt(r, read + 1)
  <2>1. sent \in Nat /\ kept \in Nat /\ read \in Nat /\ read = sent + kept
    BY <1>2, <1>4, Zenon
  <2>2. DOMAIN buf[r] = 1..kept
    BY <1>1
  <2>. DEFINE f == FrameAt(r, read + 1)
  <2>3. buf'[r] = Append(buf[r], f)
    BY <1>5
  <2>. HIDE DEF f
  <2>4. /\ Len(buf'[r]) = kept + 1 /\ DOMAIN buf'[r] = 1..(kept + 1)
        /\ \A i \in 1..kept : buf'[r][i] = buf[r][i]
        /\ buf'[r][kept + 1] = f
    BY <1>1, <2>3
  <2>. QED  BY <1>3, <2>1, <2>2, <2>4, Zenon DEF f
<1>7. \A k : FrameAt(r, k)' = FrameAt(r, k)
  BY DEF FrameAt, Recorded
<1>8. Len(wire'[r]) = sent /\ call'[r].read = read + 1
  BY <1>5
<1>. HIDE DEF sent, kept, read
<1>9. read + 1 = sent + (kept + 1) /\ \A i \in 1..(kept + 1) : i \in 1..kept \/ i = kept + 1
  BY <1>6
<1>10. \A i \in DOMAIN buf'[r] : buf'[r][i] = FrameAt(r, sent + i)
  BY <1>6, <1>9, Zenon
<1>11. call'[r].read = Len(wire'[r]) + Len(buf'[r])
  BY <1>6, <1>8, <1>9
<1>12. \A i \in DOMAIN buf'[r] : buf'[r][i] = FrameAt(r, Len(wire[r]) + i)'
  BY <1>7, <1>10, Zenon DEF sent
<1>. QED  BY <1>5, <1>11, <1>12

\* The steps of a stream that nothing was sent of yet.
LEMMA EarlyKeepsDelivery ==
    ASSUME Inv, NEW r \in Requests, Delivery(r), StreamOpens(r) \/ EarlyFrame(r) \/ EarlyEnd(r)
    PROVE  Delivery(r)'
<1>1. pc \in [Requests -> Stages] /\ call \in [Requests -> CallMade] /\ call[r] \in CallMade
  BY DEF Inv, TypeOK
<1>2. /\ wire' = wire /\ result' = result /\ ask' = ask /\ attempts' = attempts
      /\ pc[r] \in {"calling", "early"}
  BY DEF StreamOpens, EarlyFrame, EarlyEnd, requestVars, sharedVars
<1>3. ~result[r].committed /\ wire[r] = <<>> /\ call[r].reply.none
  BY <1>2 DEF Delivery, CommitFits, FramesFit
<1>4. \A k : FrameAt(r, k)' = FrameAt(r, k)
  BY <1>2 DEF FrameAt, Recorded
<1>5. CASE StreamOpens(r)
  <2>1. IsStreamed(r) /\ pc'[r] = "early" /\ pc[r] = "calling" /\ call' = call /\ buf' = buf
    BY <1>1, <1>5 DEF StreamOpens, Streamable, Goto, requestVars
  <2>2. CommitFits(r)'
    BY <1>2, <1>3, <2>1 DEF CommitFits, IsStreamed
  <2>3. FramesFit(r)'
    BY <1>2, <1>3, <1>4, <2>1 DEF FramesFit, Delivery
  <2>. QED  BY <2>2, <2>3 DEF Delivery
<1>6. CASE EarlyFrame(r)
  <2>1. pc[r] = "early" /\ pc'[r] \in {"early", "commit"} /\ ReadFrame(r) /\ IsStreamed(r)
    BY <1>1, <1>6 DEF EarlyFrame, Goto, Delivery, CommitFits
  <2>2. /\ \A i \in DOMAIN buf'[r] : buf'[r][i] = FrameAt(r, Len(wire[r]) + i)'
        /\ call'[r].read = Len(wire'[r]) + Len(buf'[r]) /\ call'[r].reply = call[r].reply
    BY <1>2, <1>3, <2>1, ReadFrameFits
  <2>3. CommitFits(r)'
    BY <1>2, <1>3, <2>1 DEF CommitFits, IsStreamed
  <2>4. wire'[r] = <<>> /\ \A i \in DOMAIN wire'[r] : wire'[r][i] = FrameAt(r, i)'
    BY <1>2, <1>3
  <2>5. FramesFit(r)'
    BY <1>2, <1>3, <2>1, <2>2, <2>4, Zenon DEF FramesFit
  <2>. QED  BY <2>3, <2>5 DEF Delivery
<1>7. CASE EarlyEnd(r)
  <2>1. PICK e \in StreamEnds :
          \/ /\ call' = [call EXCEPT ![r].reply = e] /\ Goto(r, "commit")
          \/ /\ call' = [call EXCEPT ![r].reply = EarlyReply(e), ![r].verdict = EarlyVerdict(r, e)]
             /\ Goto(r, "judged")
    BY <1>7, Zenon DEF EarlyEnd
  <2>2. pc[r] = "early" /\ buf' = buf /\ IsStreamed(r) /\ ~e.none
    BY <1>7, RouterAssumption DEF EarlyEnd, Delivery, CommitFits
  <2>3. CASE call' = [call EXCEPT ![r].reply = e] /\ Goto(r, "commit")
    <3>1. pc'[r] = "commit" /\ call'[r].reply = e
      BY <1>1, <2>3 DEF Goto, CallMade
    <3>2. CommitFits(r)'
      BY <1>2, <1>3, <2>2, <3>1 DEF CommitFits, IsStreamed
    <3>3. FramesFit(r)'
      BY <1>2, <1>3, <1>4, <2>2, <3>1 DEF FramesFit, Delivery
    <3>. QED  BY <3>2, <3>3 DEF Delivery
  <2>4. CASE /\ call' = [call EXCEPT ![r].reply = EarlyReply(e), ![r].verdict = EarlyVerdict(r, e)]
             /\ Goto(r, "judged")
    <3>1. pc'[r] = "judged" /\ call'[r].verdict = EarlyVerdict(r, e)
      <4>1. call'[r] = [call[r] EXCEPT !.reply = EarlyReply(e), !.verdict = EarlyVerdict(r, e)]
        BY <1>1, <2>4, Zenon
      <4>. QED  BY <1>1, <2>4, <4>1 DEF Goto, CallMade
    <3>2. EarlyVerdict(r, e) # "success"
      BY DEF EarlyVerdict
    <3>3. CommitFits(r)' /\ FramesFit(r)'
      BY <1>2, <1>3, <3>1, <3>2 DEF CommitFits, FramesFit
    <3>. QED  BY <3>3 DEF Delivery
  <2>. QED  BY <2>1, <2>3, <2>4
<1>. QED  BY <1>5, <1>6, <1>7

LEMMA CommitKeepsDelivery ==
    ASSUME Inv, NEW r \in Requests, Delivery(r), Commit(r)
    PROVE  Delivery(r)'
<1>1. /\ pc[r] = "commit" /\ pc'[r] \in {"pump", "gone"} /\ result'[r].committed
      /\ wire' = wire /\ buf' = buf /\ call' = call /\ ask' = ask /\ attempts' = attempts
  <2>1. result \in [Requests -> Result] /\ result[r] \in Result /\ pc \in [Requests -> Stages]
    BY DEF Inv, TypeOK
  <2>2. /\ result' = [result EXCEPT ![r].committed = TRUE, ![r].status = 200]
        /\ Goto(r, "pump") \/ Goto(r, "gone")
    BY DEF Commit
  <2>3. result'[r].committed = TRUE
    BY <2>1, <2>2 DEF Result
  <2>. QED  BY <2>1, <2>2, <2>3 DEF Commit, Goto, sharedVars
<1>2. IsStreamed(r) /\ CommitFits(r)'
  BY <1>1 DEF Delivery, CommitFits, IsStreamed
<1>3. \A k : FrameAt(r, k)' = FrameAt(r, k)
  BY <1>1 DEF FrameAt, Recorded
<1>4. FramesFit(r)'
  BY <1>1, <1>3 DEF FramesFit, Delivery
<1>. QED  BY <1>2, <1>4 DEF Delivery

\* The frame that is written is the next of the attempt, and none is lost.
LEMMA WriteFrameFits ==
    ASSUME Inv, NEW r \in Requests, Delivery(r), WriteFrame(r), wire' # wire
    PROVE  /\ wire' = [wire EXCEPT ![r] = Append(@, FrameAt(r, Len(wire[r]) + 1))]
           /\ pc'[r] = "pump"
           /\ \A i \in DOMAIN buf'[r] : buf'[r][i] = FrameAt(r, Len(wire'[r]) + i)
           /\ Len(wire'[r]) + Len(buf'[r]) = Len(wire[r]) + Len(buf[r])
<1>1. /\ pc[r] = "pump" /\ buf[r] # <<>> /\ buf' = [buf EXCEPT ![r] = Tail(@)]
      /\ wire' = [wire EXCEPT ![r] = Append(@, Head(buf[r]))] /\ pc' = pc
  BY DEF WriteFrame
<1>2. buf[r] \in Seq(Frame) /\ wire[r] \in Seq(Frame) /\ buf \in [Requests -> Seq(Frame)]
      /\ wire \in [Requests -> Seq(Frame)]
  BY DEF Inv, TypeOK
<1>3. \A i \in DOMAIN buf[r] : buf[r][i] = FrameAt(r, Len(wire[r]) + i)
  BY <1>1 DEF Delivery, FramesFit
<1>. DEFINE sent == Len(wire[r])
            kept == Len(buf[r])
            bs == buf[r]
<1>4. /\ sent \in Nat /\ kept \in Nat /\ kept > 0 /\ DOMAIN bs = 1..kept
      /\ Head(bs) = bs[1] /\ Len(wire'[r]) = sent + 1
      /\ buf'[r] = Tail(bs)
      /\ Len(buf'[r]) = kept - 1 /\ DOMAIN buf'[r] = 1..(kept - 1)
      /\ \A i \in 1..(kept - 1) : buf'[r][i] = bs[i + 1]
  <2>1. Head(bs) \in Frame
    BY <1>1, <1>2
  <2>2. Len(wire'[r]) = sent + 1
    BY <1>1, <1>2, <2>1
  <2>3. sent \in Nat /\ kept \in Nat /\ kept > 0 /\ DOMAIN bs = 1..kept /\ Head(bs) = bs[1]
    BY <1>1, <1>2
  <2>4. buf'[r] = Tail(bs)
    BY <1>1, <1>2
  <2>5. bs \in Seq(Frame) /\ bs # <<>>
    BY <1>1, <1>2
  <2>. HIDE DEF bs
  <2>6. /\ Len(Tail(bs)) = Len(bs) - 1 /\ DOMAIN Tail(bs) = 1..(Len(bs) - 1)
        /\ \A i \in 1..(Len(bs) - 1) : Tail(bs)[i] = bs[i + 1]
    BY <2>5
  <2>. QED  BY <2>2, <2>3, <2>4, <2>6 DEF bs
<1>5. \A i \in 1..kept : bs[i] = FrameAt(r, sent + i)
  BY <1>3, <1>4, Zenon
<1>. HIDE DEF sent, kept, bs
<1>6. bs[1] = FrameAt(r, sent + 1)
  <2>1. 1 \in 1..kept
    BY <1>4
  <2>. QED  BY <1>5, <2>1, Zenon
<1>7. ASSUME NEW i \in 1..(kept - 1) PROVE buf'[r][i] = FrameAt(r, (sent + 1) + i)
  <2>1. i + 1 \in 1..kept /\ sent + (i + 1) = (sent + 1) + i
    BY <1>4
  <2>2. bs[i + 1] = FrameAt(r, sent + (i + 1))
    BY <1>5, <2>1, Zenon
  <2>. QED  BY <1>4, <2>1, <2>2, Zenon
<1>8. (sent + 1) + (kept - 1) = sent + kept
  BY <1>4
<1>9. \A i \in DOMAIN buf'[r] : buf'[r][i] = FrameAt(r, Len(wire'[r]) + i)
  BY <1>4, <1>7, Zenon
<1>10. Len(wire'[r]) + Len(buf'[r]) = Len(wire[r]) + Len(buf[r])
  BY <1>4, <1>8, Zenon DEF sent, kept
<1>11. wire' = [wire EXCEPT ![r] = Append(@, FrameAt(r, Len(wire[r]) + 1))]
  BY <1>1, <1>4, <1>6, Zenon DEF sent, bs
<1>. QED  BY <1>1, <1>9, <1>10, <1>11

LEMMA PumpKeepsDelivery ==
    ASSUME Inv, NEW r \in Requests, Delivery(r), WriteFrame(r) \/ PumpFrame(r)
    PROVE  Delivery(r)'
<1>1. /\ pc \in [Requests -> Stages] /\ call \in [Requests -> CallMade]
      /\ wire \in [Requests -> Seq(Frame)] /\ wire[r] \in Seq(Frame)
  BY DEF Inv, TypeOK
<1>2. /\ pc[r] = "pump" /\ pc'[r] \in {"pump", "gone"} /\ result' = result /\ ask' = ask
      /\ attempts' = attempts
  BY <1>1 DEF WriteFrame, PumpFrame, Goto, sharedVars
<1>3. result[r].committed /\ IsStreamed(r)
  BY <1>2 DEF Delivery, CommitFits
<1>4. \A k : FrameAt(r, k)' = FrameAt(r, k)
  BY <1>2 DEF FrameAt, Recorded
<1>5. CommitFits(r)'
  BY <1>2, <1>3 DEF CommitFits, IsStreamed
<1>6. /\ \A i \in DOMAIN wire[r] : wire[r][i] = FrameAt(r, i)
      /\ \A i \in DOMAIN buf[r] : buf[r][i] = FrameAt(r, Len(wire[r]) + i)
      /\ call[r].reply.none => call[r].read = Len(wire[r]) + Len(buf[r])
  BY <1>2 DEF Delivery, FramesFit
<1>7. CASE WriteFrame(r)
  <2>0. call' = call
    BY <1>7 DEF WriteFrame
  <2>1. CASE wire' = wire /\ pc'[r] = "gone"
    BY <1>2, <1>3, <1>4, <1>6, <2>1, <1>5 DEF FramesFit, Delivery
  <2>2. CASE wire' # wire
    <3>1. /\ wire'[r] = Append(wire[r], FrameAt(r, Len(wire[r]) + 1)) /\ pc'[r] = "pump"
          /\ \A i \in DOMAIN buf'[r] : buf'[r][i] = FrameAt(r, Len(wire'[r]) + i)
          /\ Len(wire'[r]) + Len(buf'[r]) = Len(wire[r]) + Len(buf[r])
      BY <1>1, <1>7, <2>2, WriteFrameFits
    <3>2. \A i \in DOMAIN wire'[r] : wire'[r][i] = FrameAt(r, i)
      <4>. DEFINE f == FrameAt(r, Len(wire[r]) + 1)
      <4>1. wire'[r] = Append(wire[r], f)
        BY <3>1
      <4>. HIDE DEF f
      <4>2. \A i \in DOMAIN wire'[r] : \/ i \in DOMAIN wire[r] /\ wire'[r][i] = wire[r][i]
                                       \/ i = Len(wire[r]) + 1 /\ wire'[r][i] = f
        BY <1>1, <4>1
      <4>. QED  BY <1>6, <4>2, Zenon DEF f
    <3>3. \A i \in DOMAIN wire'[r] : wire'[r][i] = FrameAt(r, i)'
      BY <1>4, <3>2, Zenon
    <3>4. \A i \in DOMAIN buf'[r] : buf'[r][i] = FrameAt(r, Len(wire[r]) + i)'
      BY <1>4, <3>1, Zenon
    <3>5. call'[r].reply.none => call'[r].read = Len(wire'[r]) + Len(buf'[r])
      BY <1>6, <2>0, <3>1, Zenon
    <3>6. FramesFit(r)'
      BY <1>2, <1>3, <3>1, <3>3, <3>4, <3>5, Zenon DEF FramesFit
    <3>. QED  BY <1>5, <3>6 DEF Delivery
  <2>3. wire' # wire \/ (wire' = wire /\ pc'[r] = "gone")
    <3>1. CASE wire' = [wire EXCEPT ![r] = Append(@, Head(buf[r]))]
      <4>1. wire'[r] = Append(wire[r], Head(buf[r]))
        BY <1>1, <3>1
      <4>2. Len(wire'[r]) # Len(wire[r])
        BY <1>1, <4>1
      <4>. QED  BY <4>2
    <3>2. CASE UNCHANGED wire /\ Goto(r, "gone")
      BY <1>1, <3>2 DEF Goto
    <3>. QED  BY <1>7, <3>1, <3>2 DEF WriteFrame
  <2>. QED  BY <2>1, <2>2, <2>3
<1>8. CASE PumpFrame(r)
  <2>1. /\ wire' = wire /\ ReadFrame(r) /\ call[r].reply.none /\ pc'[r] = "pump"
    BY <1>2, <1>8 DEF PumpFrame
  <2>2. /\ \A i \in DOMAIN buf'[r] : buf'[r][i] = FrameAt(r, Len(wire[r]) + i)'
        /\ call'[r].read = Len(wire'[r]) + Len(buf'[r])
    BY <1>2, <2>1, ReadFrameFits
  <2>3. \A i \in DOMAIN wire'[r] : wire'[r][i] = FrameAt(r, i)'
    BY <1>4, <1>6, <2>1, Zenon
  <2>4. FramesFit(r)'
    BY <1>2, <1>3, <2>1, <2>2, <2>3, Zenon DEF FramesFit
  <2>. QED  BY <1>5, <2>4 DEF Delivery
<1>. QED  BY <1>7, <1>8

LEMMA HandleKeepsDelivery ==
    ASSUME Inv, NEW r \in Requests, Delivery(r), Handle(r)
    PROVE  Delivery(r)'
<1>1. CASE Walk(r)
  BY <1>1, WalkKeepsDelivery
<1>2. CASE Try(r)
  BY <1>2, SendCallKeepsDelivery, ReplyArrivesKeepsDelivery, EarlyKeepsDelivery, SettleKeepsDelivery,
     EndKeepsDelivery DEF Try
<1>3. CASE Deliver(r)
  BY <1>3, CommitKeepsDelivery, PumpKeepsDelivery, EndKeepsDelivery DEF Deliver
<1>. QED  BY <1>1, <1>2, <1>3 DEF Handle

\* A step of somebody else leaves what a request was sent as it is.
LEMMA StillKeepsDelivery ==
    ASSUME NEW r \in Requests, Delivery(r), ask' = ask, pc'[r] = pc[r], call'[r] = call[r],
           attempts'[r] = attempts[r], buf'[r] = buf[r], wire'[r] = wire[r], result'[r] = result[r]
    PROVE  Delivery(r)'
<1>1. CommitFits(r)'
  BY DEF Delivery, CommitFits, IsStreamed
<1>2. FramesFit(r)'
  BY DEF Delivery, FramesFit, FrameAt, Recorded
<1>. QED  BY <1>1, <1>2 DEF Delivery

LEMMA StepKeepsDeliveries ==
    ASSUME Inv, Deliveries, [Next]_vars
    PROVE  Deliveries'
<1>. SUFFICES ASSUME NEW q \in Requests PROVE Delivery(q)'
  BY DEF Deliveries
<1>1. Delivery(q)
  BY DEF Deliveries
<1>2. ASSUME NEW r \in Requests, Handle(r)
      PROVE  Delivery(q)'
  <2>1. CASE q = r
    BY <1>1, <1>2, <2>1, HandleKeepsDelivery
  <2>2. CASE q # r
    BY <1>1, <1>2, <2>2, StepsAreApart, StillKeepsDelivery DEF Apart
  <2>. QED  BY <2>1, <2>2
<1>3. ASSUME NEW r \in Requests, ClientLeaves(r) \/ ContextEnds(r)
      PROVE  UNCHANGED <<ask, pc, requestVars>>
  BY <1>3 DEF ClientLeaves, ContextEnds, sharedVars
<1>4. CASE Reload \/ ClockTicks \/ Finished \/ UNCHANGED vars
  <2>1. UNCHANGED <<ask, pc, requestVars>>
    BY <1>4 DEF Reload, SwapState, SetWindow, ClockTicks, Finished, vars, sharedVars
  <2>. QED  BY <1>1, <2>1, StillKeepsDelivery DEF requestVars
<1>5. ASSUME UNCHANGED <<ask, pc, requestVars>> PROVE Delivery(q)'
  BY <1>1, <1>5, StillKeepsDelivery DEF requestVars
<1>. QED  BY <1>2, <1>3, <1>4, <1>5 DEF Next

LEMMA InitKeepsDeliveries ==
    ASSUME RouterInit
    PROVE  Deliveries
<1>. SUFFICES ASSUME NEW r \in Requests PROVE Delivery(r)
  BY DEF Deliveries
<1>1. pc[r] = "new" /\ wire[r] = <<>> /\ ~result[r].committed
  BY DEF RouterInit
<1>. QED  BY <1>1 DEF Delivery, CommitFits, FramesFit

\* Nothing is sent before the commit, and what is sent after it are the frames of
\* the one attempt that committed, in order and without a gap (tryKeyStream, pump).
THEOREM DeliveriesAreKept == Spec => []Deliveries
<1>1. RouterInit => Deliveries
  BY InitKeepsDeliveries
<1>2. Deliveries /\ Inv /\ [Next]_vars => Deliveries'
  BY StepKeepsDeliveries
<1>. QED  BY <1>1, <1>2, InvHolds, PTL DEF Spec

-----------------------------------------------------------------------------
(* The client's view is the one RequestLife promises *)

Views == [r \in Requests |-> View(r)]

\* A step of r moves r's view alone.
LEMMA ViewMoves ==
    ASSUME Inv, NEW r \in Requests, Handle(r)
    PROVE  Views' = [Views EXCEPT ![r] = View(r)']
<1>1. \A q \in Requests \ {r} : View(q)' = View(q)
  BY StepsAreApart DEF Apart, View, Answered, IsStreamed
<1>. QED  BY <1>1 DEF Views

\* The view of a request by its stage: answered, streaming or waiting.
LEMMA ViewIs ==
    ASSUME NEW r \in Requests
    PROVE  /\ View(r).streamed = IsStreamed(r) /\ View(r).status = result[r].status
           /\ View(r).wire = wire[r]
           /\ Answered(r) => View(r).state = "answered"
           /\ ~Answered(r) /\ result[r].committed => View(r).state = "streaming"
           /\ ~Answered(r) /\ ~result[r].committed => View(r).state = "waiting"
  BY DEF View

\* What the view becomes, field by field.
LEMMA ViewBecomes ==
    ASSUME NEW r \in Requests, ask' = ask
    PROVE  /\ View(r) = [state |-> View(r).state, streamed |-> IsStreamed(r), status |-> result[r].status,
                         wire |-> wire[r]]
           /\ Answered(r)' =>
                View(r)' = [state |-> "answered", streamed |-> IsStreamed(r), status |-> result'[r].status,
                            wire |-> wire'[r]]
           /\ ~Answered(r)' /\ result'[r].committed =>
                View(r)' = [state |-> "streaming", streamed |-> IsStreamed(r), status |-> result'[r].status,
                            wire |-> wire'[r]]
<1>1. IsStreamed(r)' = IsStreamed(r)
  BY DEF IsStreamed
<1>2. View(r) = [state |-> View(r).state, streamed |-> IsStreamed(r), status |-> result[r].status,
                 wire |-> wire[r]]
  BY DEF View
<1>3. ASSUME Answered(r)'
      PROVE  View(r)' = [state |-> "answered", streamed |-> IsStreamed(r), status |-> result'[r].status,
                         wire |-> wire'[r]]
  BY <1>1, <1>3, Zenon DEF View
<1>4. ASSUME ~Answered(r)', result'[r].committed
      PROVE  View(r)' = [state |-> "streaming", streamed |-> IsStreamed(r), status |-> result'[r].status,
                         wire |-> wire'[r]]
  BY <1>1, <1>4, Zenon DEF View
<1>. QED  BY <1>2, <1>3, <1>4

\* Updating two fields of a view, or three.
LEMMA StatusUpdate ==
    ASSUME NEW r \in Requests, NEW state, NEW status
    PROVE  [View(r) EXCEPT !.state = state, !.status = status] =
             [state |-> state, streamed |-> IsStreamed(r), status |-> status, wire |-> wire[r]]
<1>. DEFINE v == View(r)
            a == v.state
            b == IsStreamed(r)
            c == result[r].status
            d == wire[r]
            u == [v EXCEPT !.state = state]
<1>1. v = [state |-> a, streamed |-> b, status |-> c, wire |-> d]
  BY DEF View
<1>. HIDE DEF v, a, b, c, d
<1>2. u = [state |-> state, streamed |-> b, status |-> c, wire |-> d]
  BY <1>1, SMT
<1>3. [v EXCEPT !.state = state, !.status = status] = [u EXCEPT !.status = status]
  BY SMT
<1>. HIDE DEF u
<1>4. [u EXCEPT !.status = status] = [state |-> state, streamed |-> b, status |-> status, wire |-> d]
  BY <1>2, SMT
<1>. QED  BY <1>3, <1>4, Zenon DEF v, b, d

LEMMA WireUpdate ==
    ASSUME NEW r \in Requests, NEW state, NEW w
    PROVE  [View(r) EXCEPT !.state = state, !.wire = w] =
             [state |-> state, streamed |-> IsStreamed(r), status |-> result[r].status, wire |-> w]
<1>. DEFINE v == View(r)
            a == v.state
            b == IsStreamed(r)
            c == result[r].status
            d == wire[r]
            u == [v EXCEPT !.state = state]
<1>1. v = [state |-> a, streamed |-> b, status |-> c, wire |-> d]
  BY DEF View
<1>. HIDE DEF v, a, b, c, d
<1>2. u = [state |-> state, streamed |-> b, status |-> c, wire |-> d]
  BY <1>1, SMT
<1>3. [v EXCEPT !.state = state, !.wire = w] = [u EXCEPT !.wire = w]
  BY SMT
<1>. HIDE DEF u
<1>4. [u EXCEPT !.wire = w] = [state |-> state, streamed |-> b, status |-> c, wire |-> w]
  BY <1>2, SMT
<1>. QED  BY <1>3, <1>4, Zenon DEF v, b, c

LEMMA WholeUpdate ==
    ASSUME NEW r \in Requests, NEW state, NEW status, NEW w
    PROVE  [View(r) EXCEPT !.state = state, !.status = status, !.wire = w] =
             [state |-> state, streamed |-> IsStreamed(r), status |-> status, wire |-> w]
<1>. DEFINE v == View(r)
            b == IsStreamed(r)
            d == wire[r]
            u == [v EXCEPT !.state = state, !.status = status]
<1>1. u = [state |-> state, streamed |-> b, status |-> status, wire |-> d]
  BY StatusUpdate, Zenon
<1>. HIDE DEF v, b, d
<1>2. [v EXCEPT !.state = state, !.status = status, !.wire = w] = [u EXCEPT !.wire = w]
  BY SMT
<1>. HIDE DEF u
<1>3. [u EXCEPT !.wire = w] = [state |-> state, streamed |-> b, status |-> status, wire |-> w]
  BY <1>1, SMT
<1>. QED  BY <1>2, <1>3, Zenon DEF v, b

\* What does not touch the answer is not seen.
LEMMA QuietView ==
    ASSUME NEW r \in Requests, ask' = ask, result'[r] = result[r], wire'[r] = wire[r],
           Answered(r)' <=> Answered(r)
    PROVE  View(r)' = View(r)
  BY DEF View, IsStreamed

\* One whole answer of status s.
LEMMA AnswerStep ==
    ASSUME Statuses = Nat, Inv, NEW r \in Requests, Handle(r), NEW s \in Nat,
           ask' = ask, wire'[r] = wire[r], pc[r] # "done", ~result[r].committed,
           pc'[r] = "done", result'[r].status = s, IsStreamed(r) => s >= 300
    PROVE  Life!LifeNext
<1>1. View(r)' = [View(r) EXCEPT !.state = "answered", !.status = s]
  <2>1. View(r)' = [state |-> "answered", streamed |-> IsStreamed(r), status |-> s, wire |-> wire[r]]
    BY ViewBecomes DEF Answered
  <2>2. \A status : [View(r) EXCEPT !.state = "answered", !.status = status] =
          [state |-> "answered", streamed |-> IsStreamed(r), status |-> status, wire |-> wire[r]]
    BY StatusUpdate, Zenon
  <2>. QED  BY <2>1, <2>2, Zenon
<1>2. View(r).state = "waiting" /\ (View(r).streamed => s >= 300)
  BY ViewIs DEF Answered
<1>3. Views' = [Views EXCEPT ![r].state = "answered", ![r].status = s]
  BY <1>1, ViewMoves DEF Views
<1>4. Life!Answer(r, s)
  BY <1>2, <1>3 DEF Life!Answer, Views
<1>. QED  BY <1>4 DEF Life!LifeNext

\* The router commits.
LEMMA CommitStep ==
    ASSUME Inv, NEW r \in Requests, Delivery(r), Commit(r)
    PROVE  Life!LifeNext
<1>1. /\ pc[r] = "commit" /\ pc'[r] \in {"pump", "gone"} /\ ask' = ask /\ wire' = wire
      /\ result'[r].committed /\ result'[r].status = 200
  <2>1. result \in [Requests -> Result] /\ result[r] \in Result /\ pc \in [Requests -> Stages]
    BY DEF Inv, TypeOK
  <2>. QED  BY <2>1 DEF Commit, Goto, sharedVars, Result
<1>2. ~result[r].committed /\ IsStreamed(r)
  BY <1>1 DEF Delivery, CommitFits
<1>3. View(r)' = [View(r) EXCEPT !.state = "streaming", !.status = 200]
  <2>1. View(r)' = [state |-> "streaming", streamed |-> IsStreamed(r), status |-> 200, wire |-> wire[r]]
    BY <1>1, ViewBecomes DEF Answered
  <2>2. [View(r) EXCEPT !.state = "streaming", !.status = 200] =
          [state |-> "streaming", streamed |-> IsStreamed(r), status |-> 200, wire |-> wire[r]]
    BY StatusUpdate, Zenon
  <2>. QED  BY <2>1, <2>2, Zenon
<1>4. View(r).streamed /\ View(r).state = "waiting"
  BY <1>1, <1>2, ViewIs DEF Answered
<1>5. Handle(r)
  BY DEF Handle, Deliver
<1>6. Views' = [Views EXCEPT ![r].state = "streaming", ![r].status = 200]
  BY <1>3, <1>5, ViewMoves DEF Views
<1>7. Life!BeginStream(r)
  BY <1>4, <1>6 DEF Life!BeginStream, Views
<1>. QED  BY <1>7 DEF Life!LifeNext

\* The next frame of the stream.
LEMMA WriteStep ==
    ASSUME Tries = Nat, Inv, NEW r \in Requests, Delivery(r), WriteFrame(r)
    PROVE  Life!LifeNext \/ Views' = Views
<1>1. pc[r] = "pump" /\ pc'[r] \in {"pump", "gone"} /\ result' = result /\ ask' = ask
  BY DEF WriteFrame, Goto, sharedVars, Inv, TypeOK
<1>2. Handle(r) /\ result[r].committed
  BY <1>1 DEF Handle, Deliver, Delivery, CommitFits
<1>3. CASE wire' = wire
  BY <1>1, <1>2, <1>3, QuietView, ViewMoves DEF Answered, Views
<1>4. CASE wire' # wire
  <2>. DEFINE try == Recorded(r) + 1
  <2>1. wire'[r] = Append(wire[r], [try |-> try, n |-> Len(wire[r]) + 1])
    BY <1>4, WriteFrameFits DEF FrameAt, Inv, TypeOK
  <2>2. try \in Nat
    BY DEF Recorded, Inv, TypeOK
  <2>3. wire[r] # <<>> => try = wire[r][1].try
    <3>1. wire[r] \in Seq(Frame)
      BY DEF Inv, TypeOK
    <3>2. wire[r] # <<>> => 1 \in DOMAIN wire[r]
      BY <3>1
    <3>3. wire[r] # <<>> => wire[r][1] = FrameAt(r, 1)
      BY <1>1, <3>2 DEF Delivery, FramesFit
    <3>. QED  BY <3>3 DEF FrameAt
  <2>. HIDE DEF try
  <2>4. View(r)' = [View(r) EXCEPT !.wire = Append(View(r).wire, [try |-> try, n |-> Len(View(r).wire) + 1])]
    BY <1>1, <1>2, <2>1, ViewIs, ViewBecomes DEF Answered
  <2>5. View(r).state = "streaming" /\ (View(r).wire # <<>> => try = View(r).wire[1].try)
    BY <1>1, <1>2, <2>3, ViewIs DEF Answered
  <2>6. Views' = [Views EXCEPT ![r].wire = Append(@, [try |-> try, n |-> Len(Views[r].wire) + 1])]
    BY <1>2, <2>4, ViewMoves DEF Views
  <2>7. Life!SendFrame(r, try)
    BY <2>5, <2>6 DEF Life!SendFrame, Views
  <2>. QED  BY <2>2, <2>7 DEF Life!LifeNext
<1>. QED  BY <1>3, <1>4

\* The stream is over.
LEMMA PumpEndStep ==
    ASSUME Tries = Nat, Inv, NEW r \in Requests, Delivery(r), PumpEnd(r)
    PROVE  Life!LifeNext
<1>. DEFINE try == Recorded(r) + 1
<1>1. /\ result \in [Requests -> Result] /\ result[r] \in Result /\ pc \in [Requests -> Stages]
      /\ wire \in [Requests -> Seq(Frame)] /\ wire[r] \in Seq(Frame)
  BY DEF Inv, TypeOK
<1>2. /\ pc[r] \in {"pump", "gone"} /\ pc'[r] \in {"failing", "done"} /\ ask' = ask
      /\ \/ wire'[r] = wire[r]
         \/ wire'[r] = Append(wire[r], [try |-> try, n |-> 0])
  <2>1. pc'[r] \in {"failing", "done"}
    BY <1>1 DEF PumpEnd, Goto
  <2>2. wire' = wire \/ wire' = [wire EXCEPT ![r] = Append(@, [try |-> try, n |-> 0])]
    BY DEF PumpEnd, Recorded
  <2>. QED  BY <1>1, <2>1, <2>2 DEF PumpEnd, sharedVars
<1>3. result'[r].status = result[r].status /\ result'[r].committed = result[r].committed
  <2>1. PICK b \in BOOLEAN : result' = [result EXCEPT ![r].success = b]
    BY DEF PumpEnd
  <2>. QED  BY <1>1, <2>1 DEF Result
<1>4. Handle(r) /\ result[r].committed
  BY <1>2 DEF Handle, Deliver, Delivery, CommitFits
<1>5. try \in Nat
  BY DEF Recorded, Inv, TypeOK
<1>6. wire[r] # <<>> => try = wire[r][1].try
  <2>1. wire[r] # <<>> => 1 \in DOMAIN wire[r]
    BY <1>1
  <2>2. wire[r] # <<>> => wire[r][1] = FrameAt(r, 1)
    BY <1>2, <2>1 DEF Delivery, FramesFit
  <2>. QED  BY <2>2 DEF FrameAt
<1>. HIDE DEF try
<1>7. View(r).state = "streaming" /\ (View(r).wire # <<>> => try = View(r).wire[1].try)
  BY <1>2, <1>4, <1>6, ViewIs DEF Answered
<1>8. Answered(r)'
  BY <1>2, <1>3, <1>4 DEF Answered
<1>9. CASE wire'[r] = wire[r]
  <2>1. View(r)' = [View(r) EXCEPT !.state = "answered"]
    BY <1>2, <1>3, <1>8, <1>9 DEF View, IsStreamed
  <2>2. Views' = [Views EXCEPT ![r].state = "answered"]
    BY <1>4, <2>1, ViewMoves DEF Views
  <2>. QED  BY <1>5, <1>7, <2>2 DEF Life!LifeNext, Life!EndStream, Views
<1>10. CASE wire'[r] = Append(wire[r], [try |-> try, n |-> 0])
  <2>1. View(r)' = [View(r) EXCEPT !.state = "answered",
                                   !.wire = Append(View(r).wire, [try |-> try, n |-> 0])]
    <3>1. View(r)' = [state |-> "answered", streamed |-> IsStreamed(r), status |-> result[r].status,
                      wire |-> Append(View(r).wire, [try |-> try, n |-> 0])]
      BY <1>2, <1>3, <1>8, <1>10, ViewIs, ViewBecomes, Zenon
    <3>. DEFINE w == Append(View(r).wire, [try |-> try, n |-> 0])
    <3>2. [View(r) EXCEPT !.state = "answered", !.wire = w] =
            [state |-> "answered", streamed |-> IsStreamed(r), status |-> result[r].status, wire |-> w]
      BY WireUpdate, Zenon
    <3>. QED  BY <3>1, <3>2, Zenon
  <2>2. Views' = [Views EXCEPT ![r].state = "answered", ![r].wire = Append(@, [try |-> try, n |-> 0])]
    BY <1>4, <2>1, ViewMoves DEF Views
  <2>. QED  BY <1>5, <1>7, <2>2 DEF Life!LifeNext, Life!EndStream, Views
<1>. QED  BY <1>2, <1>9, <1>10

\* The refusal is the whole stream.
LEMMA RefusalStep ==
    ASSUME Inv, NEW r \in Requests, Delivery(r), SendRefusal(r)
    PROVE  Life!LifeNext
<1>1. /\ result \in [Requests -> Result] /\ result[r] \in Result /\ pc \in [Requests -> Stages]
      /\ wire \in [Requests -> Seq(Frame)]
  BY DEF Inv, TypeOK
<1>2. /\ pc[r] = "enter" /\ pc'[r] = "done" /\ ask' = ask /\ IsStreamed(r)
      /\ result'[r].status = 200
  BY <1>1 DEF SendRefusal, AllTried, Goto, sharedVars, Result
<1>3. ~result[r].committed /\ wire[r] = <<>>
  BY <1>2 DEF Delivery, CommitFits, FramesFit
<1>4. PICK w \in {<<>>, <<[try |-> 0, n |-> 1]>>} : wire'[r] = w
  BY <1>1, <1>3 DEF SendRefusal
<1>5. View(r)' = [View(r) EXCEPT !.state = "answered", !.status = 200, !.wire = w]
  <2>1. View(r)' = [state |-> "answered", streamed |-> IsStreamed(r), status |-> 200, wire |-> w]
    BY <1>2, <1>4, ViewBecomes DEF Answered
  <2>2. \A state, status, sent : [View(r) EXCEPT !.state = state, !.status = status, !.wire = sent] =
          [state |-> state, streamed |-> IsStreamed(r), status |-> status, wire |-> sent]
    BY WholeUpdate, Zenon
  <2>3. [View(r) EXCEPT !.state = "answered", !.status = 200, !.wire = w] =
          [state |-> "answered", streamed |-> IsStreamed(r), status |-> 200, wire |-> w]
    BY <2>2, Zenon
  <2>. QED  BY <2>1, <2>3, Zenon
<1>6. View(r).streamed /\ View(r).state = "waiting"
  BY <1>2, <1>3, ViewIs DEF Answered
<1>7. Handle(r)
  BY DEF Handle, Deliver
<1>8. Views' = [Views EXCEPT ![r].state = "answered", ![r].status = 200, ![r].wire = w]
  BY <1>5, <1>7, ViewMoves DEF Views
<1>9. Life!Refuse(r)
  BY <1>6, <1>8 DEF Life!Refuse, Views
<1>. QED  BY <1>9 DEF Life!LifeNext

\* A step the client cannot tell.
LEMMA QuietStep ==
    ASSUME Inv, NEW r \in Requests, Handle(r), ask' = ask, result'[r] = result[r], wire'[r] = wire[r],
           Answered(r)' <=> Answered(r)
    PROVE  Views' = Views
  BY QuietView, ViewMoves DEF Views

LEMMA WalkImplementsLife ==
    ASSUME Statuses = Nat, Inv, NEW r \in Requests, Delivery(r), Walk(r)
    PROVE  Life!LifeNext \/ Views' = Views
<1>1. Handle(r) /\ ask' = ask /\ wire' = wire
  BY DEF Handle, Walk, Start, UndefinedTarget, SkipFallback, EnterTarget, LeaveTarget, BeginFallback,
         SkipBlackedOut, TakeKey, sharedVars
<1>2. pc[r] \in {"new", "enter", "pick"} /\ ~result[r].committed
  BY DEF Walk, Start, UndefinedTarget, SkipFallback, EnterTarget, LeaveTarget, BeginFallback,
         SkipBlackedOut, TakeKey, InTargets, Delivery, CommitFits
<1>3. CASE pc'[r] = "done"
  <2>1. Start(r) /\ result'[r].status = 400
    <3>1. Start(r)
      BY <1>3, PassEffect, EnterEffect, BeginFallbackEffect, SkipEffect, TakeEffect DEF Walk
    <3>2. result' = [result EXCEPT ![r].status = 400]
      BY <1>3, <3>1 DEF Start, Goto, Inv, TypeOK
    <3>3. result \in [Requests -> Result] /\ result[r] \in Result
      BY DEF Inv, TypeOK
    <3>. QED  BY <3>1, <3>2, <3>3 DEF Result
  <2>. QED  BY <1>1, <1>2, <1>3, <2>1, AnswerStep
<1>4. CASE pc'[r] # "done"
  <2>1. pc'[r] \in {"enter", "pick", "ready"}
    BY <1>4, StartEffect, PassEffect, EnterEffect, BeginFallbackEffect, SkipEffect, TakeEffect DEF Walk
  <2>2. result' = result
    BY <1>4 DEF Walk, Start, UndefinedTarget, SkipFallback, EnterTarget, LeaveTarget, BeginFallback,
         SkipBlackedOut, TakeKey, Goto, Inv, TypeOK
  <2>. QED  BY <1>1, <1>2, <2>1, <2>2, QuietStep DEF Answered
<1>. QED  BY <1>3, <1>4

LEMMA SettleImplementsLife ==
    ASSUME Statuses = Nat, Inv, NEW r \in Requests, Delivery(r),
           \/ SettleSuccess(r) \/ SettleCanceled(r) \/ SettleProhibited(r) \/ SettleNext(r)
           \/ SettleError(r)
    PROVE  Life!LifeNext \/ Views' = Views
<1>1. Handle(r) /\ ask' = ask /\ wire' = wire /\ pc[r] = "judged"
  BY DEF Handle, Try, SettleSuccess, SettleCanceled, SettleProhibited, SettleNext, SettleError, Settle,
         sharedVars
<1>2. ~result[r].committed
  BY <1>1 DEF Delivery, CommitFits
<1>3. result \in [Requests -> Result] /\ result[r] \in Result /\ pc \in [Requests -> Stages]
  BY DEF Inv, TypeOK
<1>4. CASE SettleSuccess(r)
  <2>1. pc'[r] = "done" /\ result'[r].status = call[r].reply.status
    BY <1>3, <1>4 DEF SettleSuccess, Goto, Result
  <2>2. call[r].reply.status \in Nat
    BY DEF Inv, TypeOK, CallMade, Reply
  <2>3. ~IsStreamed(r)
    BY <1>1, <1>4 DEF SettleSuccess, Settle, Delivery, CommitFits
  <2>. QED  BY <1>1, <1>2, <2>1, <2>2, <2>3, AnswerStep
<1>5. CASE SettleCanceled(r)
  <2>1. pc'[r] = "done" /\ result'[r].status = 499
    BY <1>3, <1>5 DEF SettleCanceled, Goto, Result
  <2>. QED  BY <1>1, <1>2, <2>1, AnswerStep
<1>6. CASE SettleProhibited(r) \/ SettleNext(r) \/ SettleError(r)
  <2>1. pc'[r] \in {"pick", "failing"} /\ result' = result
    BY <1>3, <1>6 DEF SettleProhibited, SettleNext, SettleError, Goto
  <2>. QED  BY <1>1, <1>2, <2>1, QuietStep DEF Answered
<1>. QED  BY <1>4, <1>5, <1>6

LEMMA TryImplementsLife ==
    ASSUME Statuses = Nat, Inv, NEW r \in Requests, Delivery(r), Try(r)
    PROVE  Life!LifeNext \/ Views' = Views
<1>1. pc \in [Requests -> Stages] /\ Handle(r)
  BY DEF Inv, TypeOK, Handle
<1>2. CASE SendCall(r) \/ ReplyArrives(r) \/ StreamOpens(r) \/ EarlyFrame(r) \/ EarlyEnd(r)
  <2>1. /\ ask' = ask /\ wire' = wire /\ result' = result /\ pc[r] \in {"ready", "calling", "early"}
        /\ pc'[r] \in {"calling", "judged", "commit", "early"}
    BY <1>1, <1>2 DEF SendCall, ReplyArrives, StreamOpens, EarlyFrame, EarlyEnd, Goto, requestVars,
                      sharedVars
  <2>. QED  BY <1>1, <2>1, QuietStep DEF Answered
<1>3. CASE FinishFail(r)
  <2>1. /\ ask' = ask /\ wire' = wire /\ result' = result /\ pc[r] = "failing"
        /\ pc'[r] = IF result[r].committed THEN "done" ELSE "pick"
    BY <1>1, <1>3 DEF FinishFail, Goto, requestVars, sharedVars
  <2>. QED  BY <1>1, <2>1, QuietStep DEF Answered
<1>. QED  BY <1>2, <1>3, SettleImplementsLife DEF Try

LEMMA DeliverImplementsLife ==
    ASSUME Statuses = Nat, Tries = Nat, Inv, NEW r \in Requests, Delivery(r), Deliver(r)
    PROVE  Life!LifeNext \/ Views' = Views
<1>1. pc \in [Requests -> Stages] /\ Handle(r)
  BY DEF Inv, TypeOK, Handle
<1>2. CASE AnswerExhausted(r)
  <2>1. /\ pc[r] = "enter" /\ pc'[r] = "done" /\ ask' = ask /\ wire' = wire
    BY <1>1, <1>2 DEF AnswerExhausted, AllTried, Goto, sharedVars
  <2>2. result'[r].status = ExhaustedAnswer(r)
    <3>1. result \in [Requests -> Result] /\ result[r] \in Result
      BY DEF Inv, TypeOK
    <3>. QED  BY <1>2, <3>1 DEF AnswerExhausted, Result
  <2>3. ExhaustedAnswer(r) \in Nat /\ (IsStreamed(r) => ExhaustedAnswer(r) >= 300)
    <3>1. last[r].status \in Nat
      BY DEF Inv, TypeOK, Reply
    <3>. QED  BY <3>1 DEF ExhaustedAnswer, ExhaustedStatus
  <2>4. ~result[r].committed
    BY <2>1 DEF Delivery, CommitFits
  <2>. QED  BY <1>1, <2>1, <2>2, <2>3, <2>4, AnswerStep
<1>3. CASE PumpFrame(r)
  <2>1. /\ pc[r] = "pump" /\ pc' = pc /\ ask' = ask /\ wire' = wire /\ result' = result
    BY <1>3 DEF PumpFrame, sharedVars
  <2>. QED  BY <1>1, <2>1, QuietStep DEF Answered
<1>. QED  BY <1>2, <1>3, CommitStep, WriteStep, PumpEndStep, RefusalStep DEF Deliver

LEMMA StepImplementsLife ==
    ASSUME Statuses = Nat, Tries = Nat, Inv, Deliveries, [Next]_vars
    PROVE  Life!LifeNext \/ Views' = Views
<1>1. ASSUME NEW r \in Requests, Handle(r)
      PROVE  Life!LifeNext \/ Views' = Views
  BY <1>1, WalkImplementsLife, TryImplementsLife, DeliverImplementsLife DEF Deliveries, Handle
<1>2. ASSUME UNCHANGED <<ask, pc, requestVars>>
      PROVE  Views' = Views
  BY <1>2 DEF requestVars, Views, View, Answered, IsStreamed
<1>3. ASSUME NEW r \in Requests, ClientLeaves(r) \/ ContextEnds(r)
      PROVE  Views' = Views
  BY <1>2, <1>3 DEF ClientLeaves, ContextEnds, sharedVars
<1>4. CASE Reload \/ ClockTicks \/ Finished \/ UNCHANGED vars
  BY <1>2, <1>4 DEF Reload, SwapState, SetWindow, ClockTicks, Finished, vars, sharedVars
<1>. QED  BY <1>1, <1>3, <1>4 DEF Next

LEMMA InitImplementsLife ==
    ASSUME RouterInit
    PROVE  Life!LifeInit
<1>. SUFFICES ASSUME NEW r \in Requests
              PROVE  View(r) \in [state: {"waiting"}, streamed: BOOLEAN, status: {0}, wire: {<<>>}]
  BY DEF Life!LifeInit
<1>1. /\ pc[r] = "new" /\ wire[r] = <<>> /\ ~result[r].committed /\ result[r].status = 0
      /\ ask[r] \in Ask
  BY RouterAssumption DEF RouterInit
<1>2. IsStreamed(r) \in BOOLEAN /\ ~Answered(r)
  BY <1>1 DEF IsStreamed, Answered, Ask
<1>. QED  BY <1>1, <1>2 DEF View

\* What the client of every request sees is what RequestLife promises: one whole
\* answer, or one gapless stream from a single attempt, and never a 2xx outside a
\* stream for who asked for one (ExecuteStream, tryKeyStream, pump, settle).
THEOREM RouterImplementsLife ==
    ASSUME Statuses = Nat, Tries = Nat
    PROVE  Spec => ImplementsRequestLife
<1>1. RouterInit => Life!LifeInit
  BY InitImplementsLife
<1>2. Inv /\ Deliveries /\ [Next]_vars => [Life!LifeNext]_Views
  BY StepImplementsLife
<1>. QED  BY <1>1, <1>2, InvHolds, DeliveriesAreKept, PTL
          DEF Spec, ImplementsRequestLife, Life!LifeSpec, Views

-----------------------------------------------------------------------------
(* How a request ends, and what it leaves behind *)

\* The verdict v is one a reply x can have led to.
Fits(r, v, x) ==
    /\ v # "canceled" => (v = "incompatible" <=> x.incompatible)
    /\ v = "prohibited_content" => x.prohibited
    /\ v = "provider_error" => HTTPFailed(x)
    /\ v = "provider_error" /\ x.body /\ x.status \in 200..299 => IsStreamed(r) \/ IsAudio(r)

VerdictsFit(r) ==
    /\ pc[r] = "judged" => Fits(r, call[r].verdict, call[r].reply)
    /\ ~result[r].committed =>
        \A i \in Reached(r) : Fits(r, attempts[r][i].outcome, attempts[r][i].reply)

Uncanceled(r) == \A i \in DOMAIN attempts[r] : attempts[r][i].outcome # "canceled"

\* The reply kept for the exhausted answer is that of the last real attempt.
LastFits(r) ==
    ~result[r].committed /\ Uncanceled(r) =>
        \/ Real(r) = {} /\ last[r] = NoReply
        \/ \E i \in Real(r) : last[r] = attempts[r][i].reply /\ \A j \in Real(r) : j <= i

\* A success or a cancellation ends the run.
EndsFit(r) ==
    \A i \in DOMAIN attempts[r] :
        /\ attempts[r][i].outcome = "success" => pc[r] = "done" /\ result[r].success
        /\ attempts[r][i].outcome = "canceled" =>
            /\ i = Len(attempts[r]) /\ pc[r] = "done"
            /\ result[r].committed \/ result[r].status = 499

AllSpent(r) ==
    \A i \in DOMAIN route[r].targets : \A phase \in {"normal", "fallback"} :
        Spent(r, route[r].targets[i], phase, Recorded(r))
AnsweredAs(r, status) == ~result[r].committed /\ result[r].status = status

\* The ways a request ends without success: in its stream, given up by its
\* caller, without a target, or with every key spent.
ClosingFits(r) ==
    /\ result[r].committed /\ pc[r] # "done" => \A i \in DOMAIN wire[r] : wire[r][i].try > 0
    /\ pc[r] = "done" /\ ~result[r].success =>
        \/ result[r].committed /\ \A i \in DOMAIN wire[r] : wire[r][i].try > 0
        \/ AnsweredAs(r, 499)
        \/ /\ AllSpent(r)
           /\ \/ result[r].committed
              \/ attempts[r] = <<>> /\ AnsweredAs(r, 400)
              \/ AnsweredAs(r, ExhaustedAnswer(r))

Ledger(r) == VerdictsFit(r) /\ LastFits(r) /\ EndsFit(r) /\ ClosingFits(r)
Ledgers == \A r \in Requests : Ledger(r)

-----------------------------------------------------------------------------
(* What an attempt adds to each entry of the ledger *)

\* Whatever a call returns fits the verdict it is given.
LEMMA JudgeFits ==
    ASSUME NEW r \in Requests, NEW path, NEW x \in Returns(r, path)
    PROVE  Fits(r, Judge(r, x), x)
<1>1. /\ Judge(r, x) # "canceled" => (Judge(r, x) = "incompatible" <=> x.incompatible)
      /\ Judge(r, x) = "prohibited_content" => x.prohibited
      /\ Judge(r, x) = "provider_error" => HTTPFailed(x)
  BY DEF Judge
<1>2. x.err /\ x.body /\ x.status \in 200..299 => IsStreamed(r) \/ IsAudio(r)
  <2>1. CASE Unservable(r, path)
    <3>1. x = [Empty EXCEPT !.incompatible = TRUE, !.learn = (path = "probed")]
      BY <2>1, Zenon DEF Returns
    <3>. QED  BY <3>1 DEF Empty, NoReply
  <2>2. CASE ~Unservable(r, path) /\ ask[r].op = "embed" /\ CurProvider(r).kind = "anthropic"
    <3>1. x = [Empty EXCEPT !.err = TRUE, !.status = 400, !.body = TRUE]
      BY <2>2, Zenon DEF Returns
    <3>. QED  BY <3>1 DEF Empty, NoReply
  <2>3. CASE ~Unservable(r, path) /\ ~(ask[r].op = "embed" /\ CurProvider(r).kind = "anthropic")
    <3>1. PICK y \in Replies : /\ x = [AsSeen(r, y) EXCEPT !.learn = (path = "probed")]
                               /\ y.err /\ y.body => IsAudio(r)
      BY <2>3, Zenon DEF Returns
    <3>2. y \in Reply
      BY RouterAssumption
    <3>3. CASE AsSeen(r, y) = y
      <4>1. x = [y EXCEPT !.learn = (path = "probed")]
        BY <3>1, <3>3, Zenon
      <4>2. x.err = y.err /\ x.body = y.body
        BY <3>2, <4>1 DEF Reply
      <4>. QED  BY <3>1, <4>2, Zenon
    <3>4. CASE AsSeen(r, y) # y
      BY <3>4, Zenon DEF AsSeen, Streamable
    <3>. QED  BY <3>3, <3>4
  <2>. QED  BY <2>1, <2>2, <2>3
<1>3. HTTPFailed(x) /\ x.status \in 200..299 => x.err
  BY DEF HTTPFailed
<1>. QED  BY <1>1, <1>2, <1>3 DEF Fits

\* So does the reply that stands for a stream without output.
LEMMA EarlyFits ==
    ASSUME NEW r \in Requests, NEW e \in StreamEnds, IsStreamed(r)
    PROVE  Fits(r, EarlyVerdict(r, e), EarlyReply(e))
<1>1. e \in Reply /\ ~e.incompatible
  BY RouterAssumption
<1>2. /\ EarlyReply(e).incompatible = e.incompatible /\ EarlyReply(e).prohibited = e.prohibited
      /\ EarlyReply(e).err = e.err
  BY <1>1 DEF EarlyReply, Reply
<1>. QED  BY <1>1, <1>2 DEF Fits, EarlyVerdict, HTTPFailed

\* Verdicts keep fitting while a new one does.
LEMMA VerdictsStay ==
    ASSUME Inv, NEW r \in Requests, VerdictsFit(r), ask' = ask,
           pc'[r] = "judged" => Fits(r, call[r].verdict, call[r].reply)',
           ~result'[r].committed =>
             /\ ~result[r].committed
             /\ \/ attempts'[r] = attempts[r]
                \/ \E a \in Attempt :
                    /\ attempts'[r] = Append(attempts[r], a)
                    /\ a.outcome \notin {"skipped_blackout", "error"} => Fits(r, a.outcome, a.reply)
    PROVE  VerdictsFit(r)'
<1>1. \A v, x : Fits(r, v, x)' <=> Fits(r, v, x)
  BY DEF Fits, IsStreamed, IsAudio
<1>2. attempts[r] \in Seq(Attempt)
  BY DEF Inv, TypeOK
<1>3. ASSUME ~result'[r].committed, NEW i \in DOMAIN attempts'[r],
             attempts'[r][i].outcome \notin {"skipped_blackout", "error"}
      PROVE  Fits(r, attempts'[r][i].outcome, attempts'[r][i].reply)
  <2>1. CASE i \in DOMAIN attempts[r] /\ attempts'[r][i] = attempts[r][i]
    BY <1>3, <2>1, Zenon DEF VerdictsFit, Reached
  <2>2. CASE attempts'[r] = attempts[r]
    BY <2>1, <2>2
  <2>3. ASSUME NEW a \in Attempt, attempts'[r] = Append(attempts[r], a),
               a.outcome \notin {"skipped_blackout", "error"} => Fits(r, a.outcome, a.reply)
        PROVE  Fits(r, attempts'[r][i].outcome, attempts'[r][i].reply)
    <3>1. \/ i \in DOMAIN attempts[r] /\ attempts'[r][i] = attempts[r][i]
          \/ attempts'[r][i] = a
      BY <1>2, <2>3
    <3>. QED  BY <1>3, <2>1, <2>3, <3>1, Zenon
  <2>. QED  BY <1>3, <2>2, <2>3, Zenon
<1>4. ~result'[r].committed => \A i \in Reached(r)' :
        Fits(r, attempts[r][i].outcome, attempts[r][i].reply)'
  BY <1>1, <1>3, Zenon DEF Reached
<1>. QED  BY <1>4 DEF VerdictsFit

\* A request that is not done has neither succeeded nor been canceled.
LEMMA EndsStay ==
    ASSUME Inv, NEW r \in Requests, EndsFit(r), pc[r] # "done",
           \/ attempts'[r] = attempts[r]
           \/ \E a \in Attempt :
                /\ attempts'[r] = Append(attempts[r], a)
                /\ a.outcome = "success" => pc'[r] = "done" /\ result'[r].success
                /\ a.outcome = "canceled" =>
                     pc'[r] = "done" /\ (result'[r].committed \/ result'[r].status = 499)
    PROVE  EndsFit(r)'
<1>1. attempts[r] \in Seq(Attempt)
  BY DEF Inv, TypeOK
<1>2. \A i \in DOMAIN attempts[r] : attempts[r][i].outcome \notin {"success", "canceled"}
  BY DEF EndsFit
<1>3. CASE attempts'[r] = attempts[r]
  BY <1>2, <1>3, Zenon DEF EndsFit
<1>4. CASE attempts'[r] # attempts[r]
  <2>1. PICK a \in Attempt :
                /\ attempts'[r] = Append(attempts[r], a)
                /\ a.outcome = "success" => pc'[r] = "done" /\ result'[r].success
                /\ a.outcome = "canceled" =>
                     pc'[r] = "done" /\ (result'[r].committed \/ result'[r].status = 499)
    BY <1>4
  <2>2. \A i \in DOMAIN attempts'[r] : \/ i \in DOMAIN attempts[r] /\ attempts'[r][i] = attempts[r][i]
                                       \/ i = Len(attempts'[r]) /\ attempts'[r][i] = a
    BY <1>1, <2>1
  <2>3. ASSUME NEW i \in DOMAIN attempts'[r]
        PROVE  /\ attempts'[r][i].outcome = "success" => pc'[r] = "done" /\ result'[r].success
               /\ attempts'[r][i].outcome = "canceled" =>
                    /\ i = Len(attempts'[r]) /\ pc'[r] = "done"
                    /\ result'[r].committed \/ result'[r].status = 499
    BY <1>2, <2>1, <2>2
  <2>. QED  BY <2>3, Zenon DEF EndsFit
<1>. QED  BY <1>3, <1>4

\* The reply that is kept stays the last real one.
LEMMA LastStays ==
    ASSUME Inv, NEW r \in Requests, LastFits(r),
           ~result'[r].committed =>
             /\ ~result[r].committed
             /\ \/ attempts'[r] = attempts[r] /\ last'[r] = last[r]
                \/ \E a \in Attempt :
                    /\ attempts'[r] = Append(attempts[r], a)
                    /\ \/ a.outcome = "canceled"
                       \/ /\ a.outcome \in {"skipped_blackout", "error", "incompatible"}
                          /\ last'[r] = last[r]
                       \/ /\ a.outcome \notin {"skipped_blackout", "error", "incompatible"}
                          /\ last'[r] = a.reply
    PROVE  LastFits(r)'
<1>. SUFFICES ASSUME ~result'[r].committed, Uncanceled(r)'
              PROVE  \/ Real(r)' = {} /\ last'[r] = NoReply
                     \/ \E i \in Real(r)' : last'[r] = attempts'[r][i].reply /\ \A j \in Real(r)' : j <= i
  BY DEF LastFits
<1>1. attempts[r] \in Seq(Attempt) /\ Recorded(r) \in Nat /\ DOMAIN attempts[r] = 1..Recorded(r)
  BY DEF Inv, TypeOK, Recorded
<1>2. CASE attempts'[r] = attempts[r] /\ last'[r] = last[r]
  BY <1>2 DEF LastFits, Uncanceled, Real, Reached
<1>3. ASSUME NEW a \in Attempt, attempts'[r] = Append(attempts[r], a), a.outcome # "canceled",
             \/ /\ a.outcome \in {"skipped_blackout", "error", "incompatible"}
                /\ last'[r] = last[r]
             \/ /\ a.outcome \notin {"skipped_blackout", "error", "incompatible"}
                /\ last'[r] = a.reply
      PROVE  \/ Real(r)' = {} /\ last'[r] = NoReply
             \/ \E i \in Real(r)' : last'[r] = attempts'[r][i].reply /\ \A j \in Real(r)' : j <= i
  <2>. DEFINE n == Recorded(r) + 1
  <2>1. /\ DOMAIN attempts'[r] = 1..n /\ attempts'[r][n] = a
        /\ \A i \in 1..Recorded(r) : attempts'[r][i] = attempts[r][i]
    BY <1>1, <1>3 DEF Recorded
  <2>2. n \in 1..n /\ (\A i : i \in 1..n <=> i \in 1..Recorded(r) \/ i = n) /\ \A i \in 1..n : i <= n
    BY <1>1
  <2>. HIDE DEF n
  <2>3. Uncanceled(r)
    BY <1>1, <2>1, <2>2, Zenon DEF Uncanceled
  <2>4. CASE a.outcome \in {"skipped_blackout", "error", "incompatible"}
    <3>1. \A i : i \in Real(r)' <=> i \in Real(r)
      BY <1>1, <2>1, <2>2, <2>4, Zenon DEF Real, Reached
    <3>2. Real(r)' = Real(r) /\ \A i \in Real(r) : attempts'[r][i] = attempts[r][i]
      BY <1>1, <2>1, <3>1 DEF Real, Reached
    <3>3. last'[r] = last[r]
      BY <1>3, <2>4
    <3>. QED  BY <1>3, <2>3, <3>2, <3>3, Zenon DEF LastFits
  <2>5. CASE a.outcome \notin {"skipped_blackout", "error", "incompatible"}
    <3>1. n \in Real(r)' /\ \A j \in Real(r)' : j \in 1..n
      BY <2>1, <2>2, <2>5, Zenon DEF Real, Reached
    <3>. QED  BY <1>3, <2>1, <2>2, <2>5, <3>1, Zenon
  <2>. QED  BY <2>4, <2>5
<1>4. \/ attempts'[r] = attempts[r] /\ last'[r] = last[r]
      \/ \E a \in Attempt :
            /\ attempts'[r] = Append(attempts[r], a) /\ a.outcome # "canceled"
            /\ \/ /\ a.outcome \in {"skipped_blackout", "error", "incompatible"}
                  /\ last'[r] = last[r]
               \/ /\ a.outcome \notin {"skipped_blackout", "error", "incompatible"}
                  /\ last'[r] = a.reply
  <2>1. \A a \in Attempt : attempts'[r] = Append(attempts[r], a) => a.outcome # "canceled"
    <3>1. \A a \in Attempt : attempts'[r] = Append(attempts[r], a) =>
            Len(attempts'[r]) \in DOMAIN attempts'[r] /\ attempts'[r][Len(attempts'[r])] = a
      BY <1>1
    <3>. QED  BY <3>1, Zenon DEF Uncanceled
  <2>. QED  BY <2>1, Zenon
<1>. QED  BY <1>2, <1>3, <1>4, Zenon

-----------------------------------------------------------------------------
(* Every step keeps the ledger *)

\* A step that records, answers and judges nothing.
LEMMA QuietKeepsLedger ==
    ASSUME Inv, NEW r \in Requests, Ledger(r), ask' = ask, pc[r] # "done",
           pc'[r] \notin {"judged", "done"}, attempts'[r] = attempts[r], last'[r] = last[r],
           result'[r] = result[r], wire'[r] = wire[r]
    PROVE  Ledger(r)'
<1>1. VerdictsFit(r)'
  BY VerdictsStay DEF Ledger
<1>2. LastFits(r)' /\ EndsFit(r)'
  BY LastStays, EndsStay DEF Ledger
<1>3. ClosingFits(r)'
  BY DEF Ledger, ClosingFits
<1>. QED  BY <1>1, <1>2, <1>3 DEF Ledger

\* A name without a target is answered at once.
LEMMA StartKeepsLedger ==
    ASSUME Inv, NEW r \in Requests, Book(r), Delivery(r), Ledger(r), Start(r)
    PROVE  Ledger(r)'
<1>1. /\ pc[r] = "new" /\ ask' = ask /\ attempts' = attempts /\ last' = last /\ wire' = wire
      /\ pc \in [Requests -> Stages] /\ result \in [Requests -> Result] /\ result[r] \in Result
      /\ route \in [Requests -> RouteTaken]
  BY DEF Start, sharedVars, Inv, TypeOK
<1>2. CASE result' = result /\ Goto(r, "enter")
  BY <1>1, <1>2, QuietKeepsLedger DEF Goto
<1>3. CASE ~(result' = result /\ Goto(r, "enter"))
  <2>1. /\ route' = [route EXCEPT ![r] = [gen |-> gen, targets |-> <<>>]]
        /\ result' = [result EXCEPT ![r].status = 400] /\ Goto(r, "done")
    BY <1>3 DEF Start
  <2>2. /\ pc'[r] = "done" /\ result'[r].status = 400 /\ route'[r].targets = <<>>
        /\ result'[r].committed = result[r].committed
    BY <1>1, <2>1 DEF Goto, Result
  <2>3. attempts[r] = <<>> /\ ~result[r].committed
    BY <1>1 DEF Book, Untried, Delivery, CommitFits
  <2>4. VerdictsFit(r)'
    BY <1>1, <2>2, <2>3 DEF VerdictsFit, Reached
  <2>5. LastFits(r)' /\ EndsFit(r)'
    BY <1>1, <2>2, <2>3, LastStays, EndsStay DEF Ledger
  <2>6. ClosingFits(r)'
    BY <1>1, <2>2, <2>3 DEF ClosingFits, AllSpent, AnsweredAs
  <2>. QED  BY <2>4, <2>5, <2>6 DEF Ledger
<1>. QED  BY <1>2, <1>3

\* An undefined provider or a blacked-out key is noted, and nothing was asked.
LEMMA NoteKeepsLedger ==
    ASSUME Inv, NEW r \in Requests, Ledger(r), UndefinedTarget(r) \/ SkipBlackedOut(r)
    PROVE  Ledger(r)'
<1>1. /\ ask' = ask /\ pc' = pc /\ pc[r] \in {"enter", "pick"} /\ last' = last /\ wire' = wire
      /\ result' = result
  BY DEF UndefinedTarget, SkipBlackedOut, InTargets, sharedVars
<1>2. attempts'[r] = attempts[r] \/ \E a \in Attempt :
        attempts'[r] = Append(attempts[r], a) /\ a.outcome \in {"error", "skipped_blackout"}
  <2>1. CASE UndefinedTarget(r)
    <3>. DEFINE a == [target |-> CurTarget(r), type |-> "normal", key |-> NoKey,
                      outcome |-> "error", reply |-> NoReply]
    <3>1. a \in Attempt /\ a.outcome = "error"
      BY <2>1, HereIsTyped, NoReplyIsReply DEF UndefinedTarget, InTargets, Inv, Attempt, Outcomes
    <3>2. attempts' = attempts \/ attempts' = [attempts EXCEPT ![r] = Append(@, a)]
      BY <2>1 DEF UndefinedTarget
    <3>. HIDE DEF a
    <3>. QED  BY <3>1, <3>2 DEF Inv, TypeOK
  <2>2. CASE SkipBlackedOut(r)
    <3>. DEFINE a(k) == [target |-> CurTarget(r), type |-> "normal", key |-> CurKeys(r)[k],
                         outcome |-> "skipped_blackout", reply |-> NoReply]
    <3>1. PICK k \in scan[r].left : attempts'[r] = Append(attempts[r], a(k))
      BY <2>2, SkipEffect
    <3>2. k \in DOMAIN CurKeys(r) /\ scan[r].at <= Len(route[r].targets) /\ Defined(r)
      BY <2>2 DEF SkipBlackedOut, Inv, WalkInBounds, InBounds, InTarget, Stages
    <3>3. a(k) \in Attempt /\ a(k).outcome = "skipped_blackout"
      BY <3>2, HereIsTyped, PairIsTyped, NoReplyIsReply DEF Inv, Attempt, Outcomes
    <3>. QED  BY <3>1, <3>3
  <2>. QED  BY <2>1, <2>2
<1>3. CASE attempts'[r] = attempts[r]
  BY <1>1, <1>3, QuietKeepsLedger
<1>4. CASE attempts'[r] # attempts[r]
  <2>1. PICK a \in Attempt :
          attempts'[r] = Append(attempts[r], a) /\ a.outcome \in {"error", "skipped_blackout"}
    BY <1>2, <1>4
  <2>2. VerdictsFit(r)'
    BY <1>1, <2>1, VerdictsStay DEF Ledger
  <2>3. EndsFit(r)'
    BY <1>1, <2>1, EndsStay DEF Ledger
  <2>4. LastFits(r)'
    BY <1>1, <2>1, LastStays DEF Ledger
  <2>5. ClosingFits(r)'
    BY <1>1 DEF Ledger, ClosingFits
  <2>. QED  BY <2>2, <2>3, <2>4, <2>5 DEF Ledger
<1>. QED  BY <1>3, <1>4

\* A reply, or a stream's early end, is judged.
LEMMA JudgeKeepsLedger ==
    ASSUME Inv, NEW r \in Requests, Delivery(r), Ledger(r), ReplyArrives(r) \/ EarlyEnd(r)
    PROVE  Ledger(r)'
<1>1. /\ ask' = ask /\ pc[r] \in {"calling", "early"} /\ attempts' = attempts /\ last' = last
      /\ wire' = wire /\ result' = result /\ client' = client
  BY DEF ReplyArrives, EarlyEnd, sharedVars
<1>2. ~result[r].committed
  BY <1>1 DEF Delivery, CommitFits
<1>3. \A v, x : Fits(r, v, x)' <=> Fits(r, v, x)
  BY <1>1 DEF Fits, IsStreamed, IsAudio
<1>4. pc'[r] \in {"judged", "commit"} /\ (pc'[r] = "judged" => Fits(r, call'[r].verdict, call'[r].reply))
  <2>0. call \in [Requests -> CallMade] /\ call[r] \in CallMade /\ pc \in [Requests -> Stages]
    BY DEF Inv, TypeOK
  <2>1. ASSUME NEW x, NEW v, call' = [call EXCEPT ![r].reply = x, ![r].verdict = v]
        PROVE  call'[r].reply = x /\ call'[r].verdict = v
    <3>1. call'[r] = [call[r] EXCEPT !.reply = x, !.verdict = v]
      BY <2>0, <2>1, Zenon
    <3>. QED  BY <2>0, <3>1, Zenon DEF CallMade
  <2>2. CASE ReplyArrives(r)
    <3>1. PICK path \in Paths(r) : \E x \in Returns(r, path) :
            /\ call' = [call EXCEPT ![r].reply = x, ![r].verdict = Judge(r, x)]
            /\ Goto(r, "commit") \/ Goto(r, "judged")
      BY <2>2, Zenon DEF ReplyArrives
    <3>2. PICK x \in Returns(r, path) :
            /\ call' = [call EXCEPT ![r].reply = x, ![r].verdict = Judge(r, x)]
            /\ Goto(r, "commit") \/ Goto(r, "judged")
      BY <3>1, Zenon
    <3>3. call'[r].reply = x /\ call'[r].verdict = Judge(r, x)
      BY <2>1, <3>2, Zenon
    <3>4. pc'[r] \in {"judged", "commit"}
      BY <2>0, <3>2 DEF Goto
    <3>. QED  BY <3>3, <3>4, JudgeFits, Zenon
  <2>3. CASE EarlyEnd(r)
    <3>1. PICK e \in StreamEnds :
            \/ Goto(r, "commit")
            \/ /\ call' = [call EXCEPT ![r].reply = EarlyReply(e), ![r].verdict = EarlyVerdict(r, e)]
               /\ Goto(r, "judged")
      BY <2>3, Zenon DEF EarlyEnd
    <3>2. IsStreamed(r)
      BY <2>3 DEF EarlyEnd, Delivery, CommitFits
    <3>3. CASE Goto(r, "commit")
      BY <2>0, <3>3 DEF Goto
    <3>4. CASE /\ call' = [call EXCEPT ![r].reply = EarlyReply(e), ![r].verdict = EarlyVerdict(r, e)]
               /\ Goto(r, "judged")
      <4>1. call'[r].reply = EarlyReply(e) /\ call'[r].verdict = EarlyVerdict(r, e)
        BY <2>1, <3>4, Zenon
      <4>2. pc'[r] = "judged"
        BY <2>0, <3>4 DEF Goto
      <4>. QED  BY <3>2, <4>1, <4>2, EarlyFits, Zenon
    <3>. QED  BY <3>1, <3>3, <3>4
  <2>. QED  BY <2>2, <2>3
<1>5. VerdictsFit(r)'
  BY <1>1, <1>2, <1>3, <1>4, VerdictsStay DEF Ledger
<1>6. LastFits(r)' /\ EndsFit(r)'
  BY <1>1, <1>2, LastStays, EndsStay DEF Ledger
<1>7. ClosingFits(r)'
  BY <1>1, <1>2, <1>4 DEF ClosingFits
<1>. QED  BY <1>5, <1>6, <1>7 DEF Ledger

\* settle records the judged attempt, keeps its reply, and ends the run or not.
LEMMA SettleRecords ==
    ASSUME Inv, NEW r \in Requests,
           \/ SettleSuccess(r) \/ SettleCanceled(r) \/ SettleProhibited(r) \/ SettleNext(r)
           \/ SettleError(r)
    PROVE  /\ pc[r] = "judged" /\ ask' = ask /\ wire'[r] = wire[r]
           /\ call[r].verdict \in Verdicts
           /\ \E a \in Attempt : /\ attempts'[r] = Append(attempts[r], a)
                                 /\ a.outcome = call[r].verdict /\ a.reply = call[r].reply
           /\ last'[r] = IF call[r].reply.incompatible THEN last[r] ELSE call[r].reply
           /\ \/ call[r].verdict = "success" /\ pc'[r] = "done" /\ result'[r].success
              \/ call[r].verdict = "canceled" /\ pc'[r] = "done" /\ result'[r].status = 499
              \/ /\ call[r].verdict \notin {"success", "canceled"}
                 /\ pc'[r] \in {"pick", "failing"} /\ result'[r] = result[r]
           /\ result'[r].committed = result[r].committed
<1>1. /\ attempts \in [Requests -> Seq(Attempt)] /\ last \in [Requests -> Reply]
      /\ result \in [Requests -> Result] /\ result[r] \in Result
      /\ pc \in [Requests -> Stages] /\ call[r].reply \in Reply
  BY DEF Inv, TypeOK, CallMade
<1>2. ASSUME NEW v \in Verdicts, Settle(r, v)
      PROVE  /\ pc[r] = "judged" /\ ask' = ask /\ wire' = wire /\ call[r].verdict = v
             /\ \E a \in Attempt : /\ attempts'[r] = Append(attempts[r], a)
                                   /\ a.outcome = v /\ a.reply = call[r].reply
             /\ last'[r] = IF call[r].reply.incompatible THEN last[r] ELSE call[r].reply
  <2>1. Tried(r, v, call[r].reply) \in Attempt
    BY <1>1, <1>2, TriedIsAttempt DEF Settle, InCall, InTarget, Stages, Verdicts
  <2>2. attempts'[r] = Append(attempts[r], Tried(r, v, call[r].reply))
    BY <1>1, <1>2 DEF Settle
  <2>3. Tried(r, v, call[r].reply).outcome = v /\ Tried(r, v, call[r].reply).reply = call[r].reply
    BY DEF Tried
  <2>4. last'[r] = IF call[r].reply.incompatible THEN last[r] ELSE call[r].reply
    BY <1>1, <1>2 DEF Settle
  <2>. QED  BY <1>2, <2>1, <2>2, <2>3, <2>4 DEF Settle, sharedVars
<1>3. CASE SettleSuccess(r)
  <2>1. Settle(r, "success") /\ "success" \in Verdicts
    BY <1>3 DEF SettleSuccess, Verdicts, Outcomes
  <2>2. pc'[r] = "done" /\ result'[r].success /\ result'[r].committed = result[r].committed
    <3>1. result'[r] = [result[r] EXCEPT !.success = TRUE, !.status = call[r].reply.status]
      BY <1>1, <1>3, Zenon DEF SettleSuccess
    <3>. QED  BY <1>1, <1>3, <3>1, Zenon DEF SettleSuccess, Goto, Result
  <2>. QED  BY <1>2, <2>1, <2>2
<1>4. CASE SettleCanceled(r)
  <2>1. Settle(r, "canceled") /\ "canceled" \in Verdicts
    BY <1>4 DEF SettleCanceled, Verdicts, Outcomes
  <2>2. pc'[r] = "done" /\ result'[r].status = 499 /\ result'[r].committed = result[r].committed
    BY <1>1, <1>4 DEF SettleCanceled, Goto, Result
  <2>. QED  BY <1>2, <2>1, <2>2
<1>5. CASE SettleProhibited(r) \/ SettleNext(r) \/ SettleError(r)
  <2>1. PICK v \in Verdicts \ {"success", "canceled"} : Settle(r, v)
    BY <1>5 DEF SettleProhibited, SettleNext, SettleError, Verdicts, Outcomes
  <2>2. pc'[r] \in {"pick", "failing"} /\ result' = result
    BY <1>1, <1>5 DEF SettleProhibited, SettleNext, SettleError, Goto
  <2>. QED  BY <1>2, <2>1, <2>2
<1>. QED  BY <1>3, <1>4, <1>5

LEMMA SettleKeepsLedger ==
    ASSUME Inv, NEW r \in Requests, Delivery(r), Ledger(r),
           \/ SettleSuccess(r) \/ SettleCanceled(r) \/ SettleProhibited(r) \/ SettleNext(r)
           \/ SettleError(r)
    PROVE  Ledger(r)'
<1>. DEFINE v == call[r].verdict
            x == call[r].reply
<1>1. /\ pc[r] = "judged" /\ ask' = ask /\ wire'[r] = wire[r] /\ v \in Verdicts
      /\ last'[r] = IF x.incompatible THEN last[r] ELSE x
      /\ \/ v = "success" /\ pc'[r] = "done" /\ result'[r].success
         \/ v = "canceled" /\ pc'[r] = "done" /\ result'[r].status = 499
         \/ v \notin {"success", "canceled"} /\ pc'[r] \in {"pick", "failing"} /\ result'[r] = result[r]
      /\ result'[r].committed = result[r].committed
  BY SettleRecords
<1>2. PICK a \in Attempt : attempts'[r] = Append(attempts[r], a) /\ a.outcome = v /\ a.reply = x
  BY SettleRecords
<1>3. ~result[r].committed /\ Fits(r, v, x)
  BY <1>1 DEF Delivery, CommitFits, Ledger, VerdictsFit
<1>4. v # "canceled" => (v = "incompatible" <=> x.incompatible)
  BY <1>3 DEF Fits
<1>. HIDE DEF v, x
<1>5. VerdictsFit(r)'
  BY <1>1, <1>2, <1>3, VerdictsStay DEF Ledger
<1>6. EndsFit(r)'
  BY <1>1, <1>2, EndsStay DEF Ledger
<1>7. \/ a.outcome = "canceled"
      \/ a.outcome \in {"skipped_blackout", "error", "incompatible"} /\ last'[r] = last[r]
      \/ a.outcome \notin {"skipped_blackout", "error", "incompatible"} /\ last'[r] = a.reply
  BY <1>1, <1>2, <1>4 DEF Verdicts
<1>8. LastFits(r)'
  BY <1>1, <1>2, <1>3, <1>7, LastStays DEF Ledger
<1>9. ClosingFits(r)'
  BY <1>1, <1>3 DEF ClosingFits, AnsweredAs
<1>. QED  BY <1>5, <1>6, <1>8, <1>9 DEF Ledger

\* The frames of an attempt are numbered after those before it, from 1.
LEMMA FramesAreOfAnAttempt ==
    ASSUME Inv, NEW r \in Requests, Delivery(r), pc[r] \in {"calling", "early", "commit", "pump", "gone"}
    PROVE  \A i \in DOMAIN wire[r] : wire[r][i].try > 0
<1>1. Recorded(r) + 1 > 0
  BY DEF Inv, TypeOK, Recorded
<1>2. \A i \in DOMAIN wire[r] : wire[r][i] = FrameAt(r, i)
  BY Zenon DEF Delivery, FramesFit
<1>3. \A i : FrameAt(r, i).try = Recorded(r) + 1
  BY DEF FrameAt
<1>. QED  BY <1>1, <1>2, <1>3

\* Once committed only the stream counts.
LEMMA StreamKeepsLedger ==
    ASSUME Inv, NEW r \in Requests, Delivery(r), Ledger(r),
           Commit(r) \/ WriteFrame(r) \/ PumpFrame(r)
    PROVE  Ledger(r)'
<1>1. /\ pc[r] \in {"commit", "pump"} /\ pc'[r] \in {"pump", "gone"} /\ ask' = ask
      /\ attempts' = attempts
  BY DEF Commit, WriteFrame, PumpFrame, Goto, sharedVars, Inv, TypeOK
<1>2. result'[r].committed
  <2>1. result \in [Requests -> Result] /\ result[r] \in Result
    BY DEF Inv, TypeOK
  <2>2. CASE Commit(r)
    <3>1. result'[r] = [result[r] EXCEPT !.committed = TRUE, !.status = 200]
      BY <2>1, <2>2, Zenon DEF Commit
    <3>. QED  BY <2>1, <3>1, Zenon DEF Result
  <2>3. CASE WriteFrame(r) \/ PumpFrame(r)
    BY <2>3 DEF WriteFrame, PumpFrame, Delivery, CommitFits
  <2>. QED  BY <2>2, <2>3
<1>3. VerdictsFit(r)' /\ LastFits(r)'
  BY <1>1, <1>2 DEF VerdictsFit, LastFits
<1>4. EndsFit(r)'
  BY <1>1, EndsStay DEF Ledger
<1>5. \A i \in DOMAIN wire'[r] : wire'[r][i].try > 0
  <2>1. CASE wire' = wire
    BY <1>1, <2>1, FramesAreOfAnAttempt
  <2>2. CASE wire' # wire
    <3>1. WriteFrame(r)
      BY <2>2 DEF Commit, PumpFrame
    <3>2. wire' = [wire EXCEPT ![r] = Append(@, FrameAt(r, Len(wire[r]) + 1))]
      BY <2>2, <3>1, WriteFrameFits
    <3>. DEFINE f == FrameAt(r, Len(wire[r]) + 1)
    <3>3. wire \in [Requests -> Seq(Frame)] /\ wire[r] \in Seq(Frame)
      BY DEF Inv, TypeOK
    <3>4. f.try > 0
      BY DEF FrameAt, Inv, TypeOK, Recorded
    <3>5. wire'[r] = Append(wire[r], f)
      BY <3>2, <3>3
    <3>. HIDE DEF f
    <3>6. \A i \in DOMAIN wire'[r] : \/ i \in DOMAIN wire[r] /\ wire'[r][i] = wire[r][i]
                                  \/ wire'[r][i] = f
      BY <3>3, <3>5
    <3>. QED  BY <1>1, <3>4, <3>6, FramesAreOfAnAttempt
  <2>. QED  BY <2>1, <2>2
<1>6. ClosingFits(r)'
  BY <1>1, <1>5 DEF ClosingFits
<1>. QED  BY <1>3, <1>4, <1>6 DEF Ledger

LEMMA PumpEndKeepsLedger ==
    ASSUME Inv, NEW r \in Requests, Delivery(r), Ledger(r), PumpEnd(r)
    PROVE  Ledger(r)'
<1>1. /\ result \in [Requests -> Result] /\ result[r] \in Result /\ pc \in [Requests -> Stages]
      /\ wire \in [Requests -> Seq(Frame)] /\ wire[r] \in Seq(Frame)
      /\ attempts \in [Requests -> Seq(Attempt)] /\ call[r].reply \in Reply
  BY DEF Inv, TypeOK, CallMade
<1>2. pc[r] \in {"pump", "gone"} /\ ask' = ask /\ result[r].committed
  BY DEF PumpEnd, Delivery, CommitFits, sharedVars
<1>3. PICK e \in IF pc[r] = "gone" THEN {call[r].reply} ELSE PumpEnds(r) :
        /\ attempts' = [attempts EXCEPT ![r] = Append(@, Tried(r, PumpVerdict(r, e), e))]
        /\ result' = [result EXCEPT ![r].success = (PumpVerdict(r, e) = "success")]
        /\ \/ PumpVerdict(r, e) = "provider_error" /\ Goto(r, "failing")
           \/ Goto(r, "done")
  BY DEF PumpEnd
<1>. DEFINE v == PumpVerdict(r, e)
            a == Tried(r, v, e)
<1>4. e \in Reply /\ v \in Verdicts /\ v \in Outcomes
  BY <1>1, <1>3, EndsAreTyped DEF PumpEnds, PumpVerdict, Verdicts, Outcomes
<1>5. a \in Attempt /\ a.outcome = v
  <2>1. pc[r] \in InCall
    BY <1>2 DEF InCall, InTarget, Stages
  <2>2. a \in Attempt
    BY <1>4, <2>1, TriedIsAttempt
  <2>. QED  BY <2>2 DEF Tried
<1>6. attempts'[r] = Append(attempts[r], a)
  BY <1>1, <1>3
<1>7. result'[r].committed /\ result'[r].success = (v = "success")
  <2>1. (v = "success") \in BOOLEAN
    OBVIOUS
  <2>2. result'[r] = [result[r] EXCEPT !.success = (v = "success")]
    BY <1>1, <1>3, Zenon
  <2>. QED  BY <1>1, <1>2, <2>1, <2>2, Zenon DEF Result
<1>8. pc'[r] = "done" \/ (v = "provider_error" /\ pc'[r] = "failing")
  BY <1>1, <1>3 DEF Goto
<1>. HIDE DEF v, a
<1>9. VerdictsFit(r)' /\ LastFits(r)'
  BY <1>7, <1>8 DEF VerdictsFit, LastFits
<1>10. EndsFit(r)'
  BY <1>2, <1>5, <1>6, <1>7, <1>8, EndsStay DEF Ledger
<1>11. \A i \in DOMAIN wire'[r] : wire'[r][i].try > 0
  <2>. DEFINE f == [try |-> Len(attempts[r]) + 1, n |-> 0]
  <2>1. f.try > 0
    BY <1>1
  <2>2. wire' = wire \/ wire' = [wire EXCEPT ![r] = Append(@, f)]
    BY DEF PumpEnd
  <2>. HIDE DEF f
  <2>3. \A i \in DOMAIN wire'[r] : \/ i \in DOMAIN wire[r] /\ wire'[r][i] = wire[r][i]
                                  \/ wire'[r][i] = f
    <3>1. CASE wire' = wire
      BY <3>1
    <3>2. CASE wire' = [wire EXCEPT ![r] = Append(@, f)]
      <4>1. wire'[r] = Append(wire[r], f)
        BY <1>1, <3>2
      <4>. QED  BY <1>1, <4>1
    <3>. QED  BY <2>2, <3>1, <3>2
  <2>. QED  BY <1>2, <2>1, <2>3, FramesAreOfAnAttempt
<1>12. ClosingFits(r)'
  BY <1>7, <1>11 DEF ClosingFits
<1>. QED  BY <1>9, <1>10, <1>12 DEF Ledger

\* The last step of a failure goes on to the next key, or a stream is over.
LEMMA FinishFailKeepsLedger ==
    ASSUME Inv, NEW r \in Requests, Ledger(r), FinishFail(r)
    PROVE  Ledger(r)'
<1>1. /\ pc[r] = "failing" /\ pc'[r] = IF result[r].committed THEN "done" ELSE "pick"
      /\ ask' = ask /\ result' = result /\ attempts' = attempts /\ last' = last /\ wire' = wire
  BY DEF FinishFail, Goto, requestVars, sharedVars, Inv, TypeOK
<1>2. VerdictsFit(r)'
  BY <1>1, VerdictsStay DEF Ledger
<1>3. LastFits(r)' /\ EndsFit(r)'
  BY <1>1, LastStays, EndsStay DEF Ledger
<1>4. ClosingFits(r)'
  BY <1>1 DEF Ledger, ClosingFits
<1>. QED  BY <1>2, <1>3, <1>4 DEF Ledger

\* Everything exhausted: every key is spent, and the answer is the reply kept.
LEMMA ExhaustionKeepsLedger ==
    ASSUME Inv, NEW r \in Requests, Book(r), Delivery(r), Ledger(r), AnswerExhausted(r) \/ SendRefusal(r)
    PROVE  Ledger(r)'
<1>1. /\ AllTried(r) /\ pc[r] = "enter" /\ pc'[r] = "done" /\ ask' = ask /\ route' = route
      /\ attempts' = attempts /\ last' = last
  BY DEF AnswerExhausted, SendRefusal, AllTried, Goto, sharedVars, Inv, TypeOK
<1>2. ~result[r].committed /\ result \in [Requests -> Result] /\ result[r] \in Result
  BY <1>1 DEF Delivery, CommitFits, Inv, TypeOK
<1>3. AllSpent(r)
  <2>1. route[r].targets \in Seq(Target) /\ scan[r].at \in Nat
    BY DEF Inv, TypeOK, RouteTaken, Place
  <2>2. scan[r].at > Len(route[r].targets) /\ scan[r].phase = "fallback"
    BY <1>1 DEF AllTried
  <2>3. \A i \in DOMAIN route[r].targets : i < scan[r].at
    BY <2>1, <2>2
  <2>. QED  BY <2>2, <2>3 DEF Book, TargetsBehind, AllSpent
<1>4. AllSpent(r)'
  <2>1. \A t, phase : Spent(r, t, phase, Recorded(r))' <=> Spent(r, t, phase, Recorded(r))
    BY <1>1 DEF Spent, Barred, Covered, KeysOf, ProviderOf, OwnCfg, Recorded
  <2>. QED  BY <1>1, <1>3, <2>1 DEF AllSpent
<1>5. VerdictsFit(r)'
  <2>1. ~result'[r].committed => ~result[r].committed /\ attempts'[r] = attempts[r]
    BY <1>1, <1>2
  <2>. QED  BY <1>1, <2>1, VerdictsStay DEF Ledger
<1>6. LastFits(r)' /\ EndsFit(r)'
  BY <1>1, <1>2, LastStays, EndsStay DEF Ledger
<1>7. CASE AnswerExhausted(r)
  <2>1. ~result'[r].committed /\ result'[r].status = ExhaustedAnswer(r)
    BY <1>2, <1>7 DEF AnswerExhausted, Result
  <2>2. ExhaustedAnswer(r)' = ExhaustedAnswer(r)
    BY <1>1 DEF ExhaustedAnswer, OnlyIncompatible, OutcomesOf, IsStreamed, IsAudio
  <2>3. AnsweredAs(r, ExhaustedAnswer(r))'
    BY <2>1, <2>2 DEF AnsweredAs
  <2>4. ClosingFits(r)'
    BY <1>1, <1>4, <2>3 DEF ClosingFits
  <2>. QED  BY <1>5, <1>6, <2>4 DEF Ledger
<1>8. CASE SendRefusal(r)
  <2>1. result'[r].committed
    <3>1. result'[r] = [result[r] EXCEPT !.committed = TRUE, !.status = 200]
      BY <1>2, <1>8, Zenon DEF SendRefusal
    <3>. QED  BY <1>2, <3>1, Zenon DEF Result
  <2>2. ClosingFits(r)'
    BY <1>1, <1>4, <2>1 DEF ClosingFits
  <2>. QED  BY <1>5, <1>6, <2>2 DEF Ledger
<1>. QED  BY <1>7, <1>8

LEMMA HandleKeepsLedger ==
    ASSUME Inv, NEW r \in Requests, Book(r), Delivery(r), Ledger(r), Handle(r)
    PROVE  Ledger(r)'
<1>1. CASE SkipFallback(r) \/ EnterTarget(r) \/ LeaveTarget(r) \/ BeginFallback(r) \/ TakeKey(r)
  <2>1. /\ ask' = ask /\ pc[r] # "done" /\ pc'[r] \notin {"judged", "done"} /\ attempts' = attempts
        /\ last' = last /\ result' = result /\ wire' = wire
    BY <1>1 DEF SkipFallback, EnterTarget, LeaveTarget, BeginFallback, TakeKey, InTargets, Goto,
                sharedVars, Inv, TypeOK
  <2>. QED  BY <2>1, QuietKeepsLedger
<1>2. CASE SendCall(r) \/ StreamOpens(r) \/ EarlyFrame(r)
  <2>1. /\ ask' = ask /\ pc[r] # "done" /\ pc'[r] \notin {"judged", "done"} /\ attempts' = attempts
        /\ last' = last /\ result' = result /\ wire' = wire
    BY <1>2 DEF SendCall, StreamOpens, EarlyFrame, Goto, requestVars, sharedVars, Inv, TypeOK
  <2>. QED  BY <2>1, QuietKeepsLedger
<1>3. CASE Walk(r)
  BY <1>1, <1>3, StartKeepsLedger, NoteKeepsLedger DEF Walk
<1>4. CASE Try(r)
  BY <1>2, <1>4, JudgeKeepsLedger, SettleKeepsLedger, FinishFailKeepsLedger DEF Try
<1>5. CASE Deliver(r)
  BY <1>5, StreamKeepsLedger, PumpEndKeepsLedger, ExhaustionKeepsLedger DEF Deliver
<1>. QED  BY <1>3, <1>4, <1>5 DEF Handle

\* A step of somebody else leaves the ledger of a request as it is.
LEMMA StillKeepsLedger ==
    ASSUME NEW r \in Requests, Ledger(r), ask' = ask, pc'[r] = pc[r], route'[r] = route[r],
           call'[r] = call[r], attempts'[r] = attempts[r], last'[r] = last[r], wire'[r] = wire[r],
           result'[r] = result[r]
    PROVE  Ledger(r)'
<1>1. VerdictsFit(r)'
  BY DEF Ledger, VerdictsFit, Fits, Reached, IsStreamed, IsAudio
<1>2. LastFits(r)' /\ EndsFit(r)'
  BY DEF Ledger, LastFits, EndsFit, Uncanceled, Real, Reached
<1>3. AllSpent(r)' <=> AllSpent(r)
  BY DEF AllSpent, Spent, Barred, Covered, KeysOf, ProviderOf, OwnCfg, Recorded
<1>4. ExhaustedAnswer(r)' = ExhaustedAnswer(r)
  BY DEF ExhaustedAnswer, OnlyIncompatible, OutcomesOf, IsStreamed, IsAudio
<1>5. ClosingFits(r)'
  BY <1>3, <1>4 DEF Ledger, ClosingFits, AnsweredAs
<1>. QED  BY <1>1, <1>2, <1>5 DEF Ledger

LEMMA StepKeepsLedgers ==
    ASSUME Inv, Books, Deliveries, Ledgers, [Next]_vars
    PROVE  Ledgers'
<1>. SUFFICES ASSUME NEW q \in Requests PROVE Ledger(q)'
  BY DEF Ledgers
<1>1. Book(q) /\ Delivery(q) /\ Ledger(q)
  BY DEF Books, Deliveries, Ledgers
<1>2. ASSUME NEW r \in Requests, Handle(r)
      PROVE  Ledger(q)'
  <2>1. CASE q = r
    BY <1>1, <1>2, <2>1, HandleKeepsLedger
  <2>2. CASE q # r
    BY <1>1, <1>2, <2>2, StepsAreApart, StillKeepsLedger DEF Apart
  <2>. QED  BY <2>1, <2>2
<1>3. ASSUME UNCHANGED <<ask, pc, requestVars>> PROVE Ledger(q)'
  BY <1>1, <1>3, StillKeepsLedger DEF requestVars
<1>4. ASSUME NEW r \in Requests, ClientLeaves(r) \/ ContextEnds(r)
      PROVE  UNCHANGED <<ask, pc, requestVars>>
  BY <1>4 DEF ClientLeaves, ContextEnds, sharedVars
<1>5. CASE Reload \/ ClockTicks \/ Finished \/ UNCHANGED vars
  BY <1>3, <1>5 DEF Reload, SwapState, SetWindow, ClockTicks, Finished, vars, sharedVars
<1>. QED  BY <1>2, <1>3, <1>4, <1>5 DEF Next

LEMMA InitKeepsLedgers ==
    ASSUME RouterInit
    PROVE  Ledgers
<1>. SUFFICES ASSUME NEW r \in Requests PROVE Ledger(r)
  BY DEF Ledgers
<1>1. pc[r] = "new" /\ attempts[r] = <<>> /\ last[r] = NoReply /\ ~result[r].committed
  BY DEF RouterInit
<1>. QED  BY <1>1 DEF Ledger, VerdictsFit, LastFits, EndsFit, ClosingFits, Real, Reached

\* How a request ends can be told from its attempts: every verdict fits its reply,
\* the reply kept is that of the last real attempt, and who ends without success
\* was streamed to, given up, without a target, or has every key spent.
THEOREM LedgersAreKept == Spec => [](Books /\ Deliveries /\ Ledgers)
<1>1. RouterInit => Ledgers
  BY InitKeepsLedgers
<1>2. Inv /\ Books /\ Deliveries /\ Ledgers /\ [Next]_vars => Ledgers'
  BY StepKeepsLedgers
<1>. QED  BY <1>1, <1>2, BooksAreKept, DeliveriesAreKept, PTL DEF Spec

-----------------------------------------------------------------------------
(* What follows for the answer *)

\* The last attempt that got a real reply, when one did.
IsLastReal(r, i) == i \in Real(r) /\ \A j \in Real(r) : j <= i

\* Who ended without success, outside a stream and not by a cancellation, was
\* answered for the last real attempt if there is one.
LEMMA AnswerIsExhausted ==
    ASSUME Inv, Books, Deliveries, Ledgers, NEW r \in Requests,
           pc[r] = "done", ~result[r].success, ~result[r].committed, result[r].status # 499
    PROVE  /\ \A i \in DOMAIN attempts[r] : attempts[r][i].outcome \notin {"success", "canceled"}
           /\ \/ Real(r) = {} /\ last[r] = NoReply
              \/ \E i \in Real(r) : IsLastReal(r, i) /\ last[r] = attempts[r][i].reply
           /\ \/ Real(r) = {} /\ result[r].status = 400
              \/ result[r].status = ExhaustedAnswer(r)
<1>1. Ledger(r)
  BY DEF Ledgers
<1>2. \A i \in DOMAIN attempts[r] : attempts[r][i].outcome \notin {"success", "canceled"}
  BY <1>1 DEF Ledger, EndsFit
<1>3. Uncanceled(r)
  BY <1>2 DEF Uncanceled
<1>4. \/ Real(r) = {} /\ last[r] = NoReply
      \/ \E i \in Real(r) : IsLastReal(r, i) /\ last[r] = attempts[r][i].reply
  BY <1>1, <1>3 DEF Ledger, LastFits, IsLastReal
<1>5. \/ attempts[r] = <<>> /\ result[r].status = 400
      \/ result[r].status = ExhaustedAnswer(r)
  BY <1>1 DEF Ledger, ClosingFits, AnsweredAs
<1>6. attempts[r] = <<>> => Real(r) = {}
  BY DEF Real, Reached
<1>. QED  BY <1>2, <1>4, <1>5, <1>6

\* Once a cancellation was noticed nothing more is tried, and outside a stream the
\* answer is 499 (outcomeCanceled in settle and pump).
THEOREM CancellationEndsTheRun == Spec => []NothingAfterCancellation
<1>1. Ledgers => NothingAfterCancellation
  BY DEF Ledgers, Ledger, EndsFit, NothingAfterCancellation
<1>. QED  BY <1>1, LedgersAreKept, PTL

\* A request is given up only with every key its phases allow called or skipped
\* (run, and the exhausted answers of Execute, ExecuteStream, executeAudio).
THEOREM ExhaustionIsReal == Spec => []GivesUpOnlyWhenExhausted
<1>1. ASSUME Ledgers PROVE GivesUpOnlyWhenExhausted
  <2>. SUFFICES ASSUME NEW r \in Requests,
                       pc[r] = "done", ~result[r].success, result[r].status # 499,
                       result[r].committed => wire[r] = <<[try |-> 0, n |-> 1]>>
                PROVE  AllNormalKeysSpent(r, Len(attempts[r])) /\ AllFallbackKeysSpent(r)
    BY DEF GivesUpOnlyWhenExhausted
  <2>1. result[r].committed => ~ \A i \in DOMAIN wire[r] : wire[r][i].try > 0
    <3>1. wire[r] = <<[try |-> 0, n |-> 1]>> => 1 \in DOMAIN wire[r] /\ wire[r][1].try = 0
      OBVIOUS
    <3>. QED  BY <3>1
  <2>2. AllSpent(r)
    BY <1>1, <2>1 DEF Ledgers, Ledger, ClosingFits, AnsweredAs
  <2>3. ASSUME NEW t \in DefinedTargets(r), NEW phase \in {"normal", "fallback"}
        PROVE  Spent(r, t, phase, Len(attempts[r])) /\ t.provider \in DOMAIN OwnCfg(r).providers
    <3>1. PICK i \in DOMAIN route[r].targets : t = route[r].targets[i]
      BY DEF DefinedTargets, TargetsOf
    <3>. QED  BY <2>2, <3>1 DEF AllSpent, Recorded, DefinedTargets
  <2>4. AllNormalKeysSpent(r, Len(attempts[r]))
    BY <2>3 DEF AllNormalKeysSpent, Spent, KeysOf
  <2>5. AllFallbackKeysSpent(r)
    BY <2>3 DEF AllFallbackKeysSpent, Spent, KeysOf
  <2>. QED  BY <2>4, <2>5
<1>. QED  BY <1>1, LedgersAreKept, PTL

\* An exhausted buffered request is answered for its last real reply, which no
\* later skip, undefined provider or incompatible target masks (last in settle).
THEOREM LastRealReplyCounts == Spec => []LastRealReplyIsAnswered
<1>1. ASSUME Inv, Books, Deliveries, Ledgers PROVE LastRealReplyIsAnswered
  <2>. SUFFICES ASSUME NEW r \in Requests,
                       pc[r] = "done", ~result[r].success, ~result[r].committed,
                       result[r].status # 499, Real(r) # {}, ~IsStreamed(r), ~IsAudio(r)
                PROVE  LET x == attempts[r][CHOOSE i \in Real(r) : \A j \in Real(r) : j <= i].reply
                       IN  result[r].status = IF x.body THEN ExhaustedStatus(x) ELSE 502
    BY DEF LastRealReplyIsAnswered
  <2>1. PICK i \in Real(r) : IsLastReal(r, i) /\ last[r] = attempts[r][i].reply
    BY <1>1, AnswerIsExhausted
  <2>2. result[r].status = ExhaustedAnswer(r)
    BY <1>1, AnswerIsExhausted
  <2>3. (CHOOSE k \in Real(r) : \A j \in Real(r) : j <= k) = i
    <3>1. \A k \in Real(r) : k \in Int
      BY <1>1 DEF Real, Reached, Inv, TypeOK
    <3>. QED  BY <2>1, <3>1 DEF IsLastReal
  <2>4. ~OnlyIncompatible(r)
    <3>1. /\ attempts[r][i].outcome \in OutcomesOf(r)
          /\ attempts[r][i].outcome \notin {"skipped_blackout", "incompatible"}
      BY DEF OutcomesOf, Real, Reached
    <3>. QED  BY <3>1 DEF OnlyIncompatible
  <2>5. result[r].status = IF last[r].body THEN ExhaustedStatus(last[r]) ELSE 502
    BY <2>2, <2>4 DEF ExhaustedAnswer
  <2>. QED  BY <2>1, <2>3, <2>5
<1>. QED  BY <1>1, InvHolds, LedgersAreKept, PTL

\* A failure is never answered 2xx outside a stream, except by the truncated reply
\* of a buffered call that no policy blocked (exhaustedHTTPStatus).
THEOREM FailuresAreNoSuccess == Spec => []FailureIsNot2xx
<1>1. ASSUME Inv, Books, Deliveries, Ledgers PROVE FailureIsNot2xx
  <2>. SUFFICES ASSUME NEW r \in Requests,
                       pc[r] = "done", ~result[r].success, ~result[r].committed,
                       result[r].status \in 200..299
                PROVE  /\ ~IsStreamed(r) /\ ~IsAudio(r)
                       /\ \E i \in Reached(r) : /\ attempts[r][i].outcome = "bad_output"
                                                /\ \A j \in Reached(r) : j > i =>
                                                    attempts[r][j].outcome = "incompatible"
    BY DEF FailureIsNot2xx
  <2>1. /\ \A i \in DOMAIN attempts[r] : attempts[r][i].outcome \notin {"success", "canceled"}
        /\ \/ Real(r) = {} /\ last[r] = NoReply
           \/ \E i \in Real(r) : IsLastReal(r, i) /\ last[r] = attempts[r][i].reply
        /\ result[r].status = ExhaustedAnswer(r)
    BY <1>1, AnswerIsExhausted
  <2>2. /\ ~OnlyIncompatible(r) /\ last[r].body /\ ExhaustedStatus(last[r]) = result[r].status
        /\ (IsStreamed(r) \/ IsAudio(r)) => ExhaustedStatus(last[r]) >= 300
    BY <2>1 DEF ExhaustedAnswer
  <2>3. ~IsStreamed(r) /\ ~IsAudio(r)
    BY <2>2
  <2>4. ~last[r].prohibited /\ last[r].status \in 200..299
    BY <2>2 DEF ExhaustedStatus
  <2>5. PICK i \in Real(r) : IsLastReal(r, i) /\ last[r] = attempts[r][i].reply
    <3>1. last[r] # NoReply
      <4>1. ~NoReply.body
        BY Zenon DEF NoReply
      <4>. QED  BY <2>2, <4>1, Zenon
    <3>. QED  BY <2>1, <3>1, Zenon
  <2>6. Fits(r, attempts[r][i].outcome, last[r])
    <3>1. VerdictsFit(r) /\ i \in Reached(r) /\ ~result[r].committed
      BY <1>1 DEF Ledgers, Ledger, Real
    <3>2. Fits(r, attempts[r][i].outcome, attempts[r][i].reply)
      BY <3>1, Zenon DEF VerdictsFit
    <3>. QED  BY <2>5, <3>2
  <2>7. attempts[r][i].outcome = "bad_output"
    <3>1. attempts[r] \in Seq(Attempt) /\ i \in DOMAIN attempts[r]
      BY <1>1 DEF Inv, TypeOK, Real, Reached
    <3>2. attempts[r][i].outcome \in Outcomes
      <4>1. attempts[r][i] \in Attempt
        BY <3>1
      <4>. QED  BY <4>1 DEF Attempt
    <3>3. attempts[r][i].outcome \notin {"skipped_blackout", "error", "incompatible", "success", "canceled"}
      BY <2>1, <3>1 DEF Real, Reached
    <3>4. attempts[r][i].outcome \notin {"prohibited_content", "provider_error"}
      BY <2>2, <2>3, <2>4, <2>6, <3>3 DEF Fits
    <3>. QED  BY <3>2, <3>3, <3>4 DEF Outcomes
  <2>8. \A j \in Reached(r) : j > i => attempts[r][j].outcome = "incompatible"
    <3>1. \A j \in Reached(r) : attempts[r][j].outcome # "incompatible" => j <= i
      BY <2>5 DEF IsLastReal, Real
    <3>2. \A j \in Reached(r) : j \in Int /\ i \in Int
      BY <1>1 DEF Real, Reached, Inv, TypeOK
    <3>. QED  BY <3>1, <3>2
  <2>. QED  BY <2>3, <2>7, <2>8 DEF Real
<1>. QED  BY <1>1, InvHolds, LedgersAreKept, PTL

-----------------------------------------------------------------------------
(* What requests leave behind *)

\* A probe is under way only where the configuration leaves the route open.
ProbeIsOpen(r) ==
    pc[r] = "calling" /\ ask[r].op = "responses" /\ call[r].mode = "probe" =>
        CurProvider(r).supports = "unset"

\* A request about to write a blackout has just recorded the failure that is to blame.
BlameFits(r) == \A p \in failing[r] : pc[r] = "failing" /\ Culprit(r, p)

Blames == \A r \in Requests : BlameFits(r)
Probes == \A r \in Requests : ProbeIsOpen(r)

\* Some request has an attempt that failed on the pair p as a normal key.
Earned(p) == \E r \in Requests : \E i \in DOMAIN attempts[r] : FailedOn(r, attempts[r][i], p)

\* Every entry the tracker has was earned by an attempt.
EntriesAreEarned == \A p \in DOMAIN until : Earned(p)

\* Whoever left a mark in the tracker or in a cache has the reply to show for it.
Shared == Probes /\ ChatOnlyIsLearntHere /\ Blames /\ EntriesAreEarned

-----------------------------------------------------------------------------
(* What was recorded is not forgotten *)

LEMMA HandleGrows ==
    ASSUME Inv, NEW r \in Requests, Handle(r), pc[r] # "new"
    PROVE  Grows(r)
<1>1. route'[r] = route[r]
  <2>1. CASE Walk(r)
    BY <2>1, StartEffect, EnterEffect, PassEffect, BeginFallbackEffect, SkipEffect, TakeEffect DEF Walk
  <2>2. CASE Try(r)
    BY <2>2, InHandEffect, RecordEffect, EndEffect DEF Try
  <2>3. CASE Deliver(r)
    BY <2>3, InHandEffect, RecordEffect, EndEffect DEF Deliver
  <2>. QED  BY <2>1, <2>2, <2>3 DEF Handle
<1>2. attempts'[r] = attempts[r] \/ \E a \in Attempt : attempts'[r] = Append(attempts[r], a)
  BY NewAttemptIsOwn
<1>. QED  BY <1>1, <1>2 DEF Grows

\* An attempt stays what it is, and so does the route of whoever made it.
LEMMA AttemptsStay ==
    ASSUME Inv, Books, NEW r \in Requests, Handle(r), NEW q \in Requests, NEW i \in DOMAIN attempts[q]
    PROVE  i \in DOMAIN attempts'[q] /\ attempts'[q][i] = attempts[q][i] /\ route'[q] = route[q]
<1>1. CASE q # r
  BY <1>1, StepsAreApart DEF Apart
<1>2. CASE q = r
  <2>1. attempts[r] \in Seq(Attempt) /\ attempts[r] # <<>>
    BY <1>2 DEF Inv, TypeOK
  <2>2. pc[r] # "new"
    BY <2>1 DEF Books, Book, Untried
  <2>3. Grows(r)
    BY <2>2, HandleGrows
  <2>. QED  BY <1>2, <2>1, <2>3 DEF Grows
<1>. QED  BY <1>1, <1>2

-----------------------------------------------------------------------------
(* The Chat-only caches *)

\* A probe is chosen when neither the configuration nor the cache decides.
LEMMA SendCallProbes ==
    ASSUME Inv, NEW r \in Requests, SendCall(r)
    PROVE  ProbeIsOpen(r)'
<1>. SUFFICES ASSUME ask[r].op = "responses", call'[r].mode = "probe"
              PROVE  CurProvider(r)'.supports = "unset"
  BY DEF ProbeIsOpen, SendCall, sharedVars
<1>1. scan[r].at <= Len(route[r].targets) /\ Defined(r)
  BY DEF SendCall, Inv, WalkInBounds, InBounds, InTarget, Stages
<1>2. CurProvider(r) \in Provider
  BY <1>1, HereIsTyped DEF Inv
<1>3. CurProvider(r).supports \in {"unset", "yes", "no"}
  BY <1>2 DEF Provider
<1>4. ResponsesMode(r) = "probe"
  BY DEF SendCall, Inv, TypeOK
<1>5. CurProvider(r).supports = "unset"
  BY <1>3, <1>4 DEF ResponsesMode
<1>6. CurProvider(r)' = CurProvider(r)
  BY SamePlace DEF SendCall
<1>. QED  BY <1>5, <1>6

\* A request that is not sending a call, or not moving, keeps its probe open.
LEMMA ProbeStays ==
    ASSUME Inv, NEW r \in Requests, ProbeIsOpen(r), ask' = ask,
           \/ pc'[r] # "calling"
           \/ pc'[r] = pc[r] /\ call'[r].mode = call[r].mode /\ route'[r] = route[r] /\ scan'[r] = scan[r]
    PROVE  ProbeIsOpen(r)'
<1>1. CASE pc'[r] # "calling"
  BY <1>1 DEF ProbeIsOpen
<1>2. CASE pc'[r] = pc[r] /\ call'[r].mode = call[r].mode /\ route'[r] = route[r] /\ scan'[r] = scan[r]
  <2>1. CurProvider(r)' = CurProvider(r)
    BY <1>2, SamePlace
  <2>. QED  BY <1>2, <2>1 DEF ProbeIsOpen
<1>. QED  BY <1>1, <1>2

\* Only a probe can be downgraded, and it asks a provider left open.
LEMMA OpenProvidersAreProbed ==
    ASSUME Inv, NEW r \in Requests, ProbeIsOpen(r), pc[r] = "calling", "probed" \in Paths(r)
    PROVE  /\ CurTarget(r).provider \in DOMAIN Cfgs[route[r].gen].providers
           /\ Cfgs[route[r].gen].providers[CurTarget(r).provider].kind = "openai"
           /\ Cfgs[route[r].gen].providers[CurTarget(r).provider].supports = "unset"
           /\ ask[r].op = "responses"
<1>1. /\ ask[r].op = "responses" /\ CurProvider(r).kind = "openai"
      /\ \E x \in Replies : Downgrades(r, x)
  BY DEF Paths
<1>2. call[r].mode = "probe"
  BY <1>1 DEF Downgrades
<1>3. CurProvider(r).supports = "unset"
  BY <1>1, <1>2 DEF ProbeIsOpen
<1>4. Defined(r)
  BY DEF Inv, WalkInBounds, InBounds, InTarget, Stages
<1>. QED  BY <1>1, <1>3, <1>4 DEF CurProvider, Defined, Cfg

\* A reply teaches something only when the call took the probed path.
LEMMA OnlyProbesTeach ==
    ASSUME NEW r \in Requests, NEW path, NEW x \in Returns(r, path), x.learn
    PROVE  path = "probed"
<1>1. CASE Unservable(r, path)
  <2>1. x = [Empty EXCEPT !.incompatible = TRUE, !.learn = (path = "probed")]
    BY <1>1, Zenon DEF Returns
  <2>. QED  BY <2>1 DEF Empty, NoReply
<1>2. CASE ~Unservable(r, path) /\ ask[r].op = "embed" /\ CurProvider(r).kind = "anthropic"
  <2>1. x = [Empty EXCEPT !.err = TRUE, !.status = 400, !.body = TRUE]
    BY <1>2, Zenon DEF Returns
  <2>. QED  BY <2>1 DEF Empty, NoReply
<1>3. CASE ~Unservable(r, path) /\ ~(ask[r].op = "embed" /\ CurProvider(r).kind = "anthropic")
  <2>1. PICK y \in Replies : x = [AsSeen(r, y) EXCEPT !.learn = (path = "probed")]
    BY <1>3, Zenon DEF Returns
  <2>2. y \in Reply
    BY RouterAssumption
  <2>3. AsSeen(r, y) \in Reply
    BY <2>2, SeenIsReply
  <2>. QED  BY <2>1, <2>3 DEF Reply
<1>. QED  BY <1>1, <1>2, <1>3

\* The stages of a call that was answered, if only by an open stream.
Answering == {"judged", "early", "commit", "pump", "gone"}

\* r was routed under generation g and told that p has no /responses route.
Learner(r, g, p) == route[r].gen = g /\ ask[r].op = "responses" /\ Taught(r, p)

\* The answer at hand is recorded when its attempt is.
LEMMA AnswerIsRecorded ==
    ASSUME Inv, NEW r \in Requests, CommitFits(r), pc[r] \in Answering,
           \/ SettleSuccess(r) \/ SettleCanceled(r) \/ SettleProhibited(r) \/ SettleNext(r)
           \/ SettleError(r) \/ PumpEnd(r)
    PROVE  \E a \in Attempt : /\ attempts'[r] = Append(attempts[r], a)
                              /\ a.target = CurTarget(r) /\ a.outcome \in Verdicts
                              /\ IsStreamed(r) \/ a.reply = call[r].reply
<1>1. PICK v \in Verdicts, x \in Reply : /\ attempts'[r] = Append(attempts[r], Tried(r, v, x))
                                         /\ Tried(r, v, x) \in Attempt
  BY RecordEffect
<1>2. attempts[r] \in Seq(Attempt)
  BY DEF Inv, TypeOK
<1>3. CASE IsStreamed(r)
  BY <1>1, <1>3 DEF Tried
<1>4. CASE ~IsStreamed(r)
  <2>1. ~PumpEnd(r)
    BY <1>4 DEF CommitFits, PumpEnd
  <2>2. PICK a \in Attempt : attempts'[r] = Append(attempts[r], a) /\ a.reply = call[r].reply
    BY <2>1, SettleRecords
  <2>3. a = Tried(r, v, x)
    <3>. DEFINE t == Tried(r, v, x)
    <3>1. attempts'[r] = Append(attempts[r], t) /\ t \in Attempt
      BY <1>1
    <3>. HIDE DEF t
    <3>2. attempts'[r][Len(attempts[r]) + 1] = t
      BY <1>2, <3>1
    <3>3. attempts'[r][Len(attempts[r]) + 1] = a
      BY <1>2, <2>2
    <3>. QED  BY <3>2, <3>3 DEF t
  <2>. QED  BY <2>2, <2>3 DEF Tried
<1>. QED  BY <1>3, <1>4

\* Who was told keeps the answer, at hand or among the attempts.
LEMMA AnswerStays ==
    ASSUME Inv, NEW r \in Requests, CommitFits(r), Handle(r), ask' = ask, NEW p,
           pc[r] \in Answering, CurTarget(r).provider = p, call[r].reply.learn \/ IsStreamed(r)
    PROVE  Taught(r, p)' /\ route'[r] = route[r]
<1>1. CASE EarlyFrame(r) \/ EarlyEnd(r) \/ Commit(r) \/ WriteFrame(r) \/ PumpFrame(r)
  <2>1. pc'[r] \in Answering
    BY <1>1 DEF EarlyFrame, EarlyEnd, Commit, WriteFrame, PumpFrame, Goto, Answering, Inv, TypeOK
  <2>2. IsStreamed(r)' = IsStreamed(r) /\ IsStreamed(r)
    BY <1>1 DEF EarlyFrame, EarlyEnd, Commit, WriteFrame, PumpFrame, CommitFits, IsStreamed
  <2>3. route'[r] = route[r] /\ CurTarget(r)' = CurTarget(r)
    BY <1>1, InHandEffect, SamePlace
  <2>. QED  BY <2>1, <2>2, <2>3 DEF Taught, Answering
<1>2. CASE \/ SettleSuccess(r) \/ SettleCanceled(r) \/ SettleProhibited(r) \/ SettleNext(r)
           \/ SettleError(r) \/ PumpEnd(r)
  <2>1. PICK a \in Attempt : /\ attempts'[r] = Append(attempts[r], a)
                             /\ a.target = CurTarget(r) /\ a.outcome \in Verdicts
                             /\ IsStreamed(r) \/ a.reply = call[r].reply
    BY <1>2, AnswerIsRecorded
  <2>2. route'[r] = route[r] /\ IsStreamed(r)' = IsStreamed(r)
    BY <1>2, RecordEffect DEF IsStreamed
  <2>3. attempts[r] \in Seq(Attempt)
    BY DEF Inv, TypeOK
  <2>4. Len(attempts[r]) + 1 \in DOMAIN attempts'[r] /\ attempts'[r][Len(attempts[r]) + 1] = a
    BY <2>1, <2>3
  <2>5. Len(attempts[r]) + 1 \in Reached(r)'
    BY <2>1, <2>4 DEF Reached, Verdicts
  <2>. QED  BY <2>1, <2>2, <2>4, <2>5 DEF Taught
<1>3. pc[r] \notin {"new", "enter", "pick", "ready", "calling", "failing"}
  BY DEF Answering
<1>. QED  BY <1>1, <1>2, <1>3
          DEF Handle, Walk, Try, Deliver, Start, UndefinedTarget, SkipFallback, EnterTarget, LeaveTarget,
              BeginFallback, SkipBlackedOut, TakeKey, InTargets, SendCall, ReplyArrives, StreamOpens,
              FinishFail, AnswerExhausted, SendRefusal, AllTried

LEMMA LearnerStays ==
    ASSUME Inv, Books, Deliveries, NEW r \in Requests, Handle(r), NEW q \in Requests, NEW g, NEW p,
           Learner(q, g, p)
    PROVE  Learner(q, g, p)'
<1>1. ask' = ask /\ Apart(r)
  BY StepsAreApart DEF Apart
<1>2. IsStreamed(q)' = IsStreamed(q)
  BY <1>1 DEF IsStreamed
<1>3. ASSUME NEW i \in Reached(q), attempts[q][i].target.provider = p,
             attempts[q][i].reply.learn \/ IsStreamed(q)
      PROVE  Learner(q, g, p)'
  <2>1. i \in DOMAIN attempts'[q] /\ attempts'[q][i] = attempts[q][i] /\ route'[q] = route[q]
    BY <1>3, AttemptsStay DEF Reached
  <2>2. i \in Reached(q)'
    BY <1>3, <2>1 DEF Reached
  <2>. QED  BY <1>1, <1>2, <1>3, <2>1, <2>2 DEF Learner, Taught
<1>4. ASSUME pc[q] \in Answering, CurTarget(q).provider = p, call[q].reply.learn \/ IsStreamed(q)
      PROVE  Learner(q, g, p)'
  <2>1. CASE q = r
    BY <1>1, <1>4, <2>1, AnswerStays DEF Learner, Deliveries, Delivery
  <2>2. CASE q # r
    <3>1. pc'[q] = pc[q] /\ route'[q] = route[q] /\ scan'[q] = scan[q] /\ call'[q] = call[q]
      BY <1>1, <2>2 DEF Apart
    <3>2. CurTarget(q)' = CurTarget(q)
      BY <3>1 DEF CurTarget
    <3>. QED  BY <1>1, <1>2, <1>4, <3>1, <3>2 DEF Learner, Taught, Answering
  <2>. QED  BY <2>1, <2>2
<1>. QED  BY <1>3, <1>4 DEF Learner, Taught, Answering

\* What is in a cache stays learnt; what comes in has its learner.
LEMMA LearningKeepsCaches ==
    ASSUME Inv, Books, Deliveries, ChatOnlyIsLearntHere, NEW r \in Requests, Handle(r), ProbeIsOpen(r),
           pc[r] = "calling", NEW learned \in BOOLEAN, Learn(r, learned),
           route'[r] = route[r], CurTarget(r)' = CurTarget(r),
           learned => "probed" \in Paths(r) /\ Taught(r, CurTarget(r).provider)'
    PROVE  ChatOnlyIsLearntHere'
<1>. SUFFICES ASSUME NEW g \in Generations, NEW p \in chatOnly'[g]
              PROVE  /\ p \in DOMAIN Cfgs[g].providers
                     /\ Cfgs[g].providers[p].kind = "openai" /\ Cfgs[g].providers[p].supports = "unset"
                     /\ \E q \in Requests : Learner(q, g, p)'
  BY DEF ChatOnlyIsLearntHere, Learner
<1>1. chatOnly \in [Generations -> SUBSET Providers]
  BY DEF Inv, TypeOK
<1>2. \/ p \in chatOnly[g]
      \/ learned /\ g = route[r].gen /\ p = CurTarget(r).provider
  <2>1. CASE learned
    <3>1. chatOnly' = [chatOnly EXCEPT ![route[r].gen] = @ \cup {CurTarget(r).provider}]
      BY <2>1, Zenon DEF Learn
    <3>2. CASE g = route[r].gen
      <4>1. chatOnly'[g] = chatOnly[g] \cup {CurTarget(r).provider}
        BY <1>1, <3>1, <3>2, Zenon
      <4>. QED  BY <2>1, <3>2, <4>1
    <3>3. CASE g # route[r].gen
      <4>1. chatOnly'[g] = chatOnly[g]
        BY <1>1, <3>1, <3>3
      <4>. QED  BY <4>1
    <3>. QED  BY <3>2, <3>3
  <2>2. CASE ~learned
    <3>1. chatOnly' = chatOnly
      BY <2>2, Zenon DEF Learn
    <3>. QED  BY <3>1
  <2>. QED  BY <2>1, <2>2
<1>3. CASE p \in chatOnly[g]
  <2>1. PICK q \in Requests : Learner(q, g, p)
    BY <1>3 DEF ChatOnlyIsLearntHere, Learner
  <2>2. Learner(q, g, p)'
    BY <2>1, LearnerStays
  <2>. QED  BY <1>3, <2>2 DEF ChatOnlyIsLearntHere
<1>4. CASE learned /\ g = route[r].gen /\ p = CurTarget(r).provider
  <2>1. ask' = ask /\ ask[r].op = "responses"
    BY <1>4, StepsAreApart, OpenProvidersAreProbed DEF Apart
  <2>2. Taught(r, p)' /\ route'[r].gen = g
    BY <1>4
  <2>3. Learner(r, g, p)'
    BY <2>1, <2>2 DEF Learner
  <2>. QED  BY <1>4, <2>3, OpenProvidersAreProbed
<1>. QED  BY <1>2, <1>3, <1>4

\* The reply that teaches is at hand once it arrived, and so is an open stream.
LEMMA ReplyTeaches ==
    ASSUME Inv, NEW r \in Requests, ReplyArrives(r)
    PROVE  \E learned \in BOOLEAN :
             /\ Learn(r, learned)
             /\ learned => "probed" \in Paths(r) /\ Taught(r, CurTarget(r).provider)'
<1>1. PICK path \in Paths(r) : \E x \in Returns(r, path) :
        /\ Learn(r, x.learn)
        /\ call' = [call EXCEPT ![r].reply = x, ![r].verdict = Judge(r, x)]
        /\ Goto(r, "commit") \/ Goto(r, "judged")
  BY Zenon DEF ReplyArrives
<1>2. PICK x \in Returns(r, path) :
        /\ Learn(r, x.learn)
        /\ call' = [call EXCEPT ![r].reply = x, ![r].verdict = Judge(r, x)]
        /\ Goto(r, "commit") \/ Goto(r, "judged")
  BY <1>1, Zenon
<1>3. x.learn \in BOOLEAN
  <2>1. x \in Reply
    BY RepliesAreTyped
  <2>. QED  BY <2>1 DEF Reply
<1>4. x.learn => "probed" \in Paths(r)
  BY <1>1, OnlyProbesTeach
<1>5. call'[r].reply = x
  <2>1. call \in [Requests -> CallMade] /\ call[r] \in CallMade
    BY DEF Inv, TypeOK
  <2>2. call'[r] = [call[r] EXCEPT !.reply = x, !.verdict = Judge(r, x)]
    BY <1>2, <2>1, Zenon
  <2>. QED  BY <2>1, <2>2, Zenon DEF CallMade
<1>6. pc'[r] \in {"commit", "judged"}
  BY <1>2 DEF Goto, Inv, TypeOK
<1>7. CurTarget(r)' = CurTarget(r)
  BY SamePlace DEF ReplyArrives
<1>8. x.learn => Taught(r, CurTarget(r).provider)'
  BY <1>5, <1>6, <1>7 DEF Taught
<1>. QED  BY <1>2, <1>3, <1>4, <1>8

LEMMA StreamTeaches ==
    ASSUME Inv, NEW r \in Requests, StreamOpens(r)
    PROVE  \E learned \in BOOLEAN :
             /\ Learn(r, learned)
             /\ learned => "probed" \in Paths(r) /\ Taught(r, CurTarget(r).provider)'
<1>1. PICK path \in Paths(r) : Learn(r, path = "probed")
  BY Zenon DEF StreamOpens
<1>2. pc'[r] = "early" /\ IsStreamed(r)'
  BY DEF StreamOpens, Goto, Streamable, IsStreamed, Inv, TypeOK
<1>3. CurTarget(r)' = CurTarget(r)
  BY SamePlace DEF StreamOpens, requestVars
<1>4. Taught(r, CurTarget(r).provider)'
  BY <1>2, <1>3 DEF Taught
<1>5. (path = "probed") \in BOOLEAN /\ ((path = "probed") => "probed" \in Paths(r))
  OBVIOUS
<1>. QED  BY <1>1, <1>4, <1>5, Zenon

LEMMA HandleKeepsCaches ==
    ASSUME Inv, Books, Deliveries, ChatOnlyIsLearntHere, NEW r \in Requests, ProbeIsOpen(r), Handle(r)
    PROVE  ChatOnlyIsLearntHere'
<1>1. ASSUME chatOnly' = chatOnly PROVE ChatOnlyIsLearntHere'
  <2>. SUFFICES ASSUME NEW g \in Generations, NEW p \in chatOnly[g]
                PROVE  /\ p \in DOMAIN Cfgs[g].providers
                       /\ Cfgs[g].providers[p].kind = "openai" /\ Cfgs[g].providers[p].supports = "unset"
                       /\ \E q \in Requests : Learner(q, g, p)'
    BY <1>1 DEF ChatOnlyIsLearntHere, Learner
  <2>1. PICK q \in Requests : Learner(q, g, p)
    BY DEF ChatOnlyIsLearntHere, Learner
  <2>2. Learner(q, g, p)'
    BY <2>1, LearnerStays
  <2>. QED  BY <2>2 DEF ChatOnlyIsLearntHere
<1>2. CASE ReplyArrives(r) \/ StreamOpens(r)
  <2>1. pc[r] = "calling" /\ route'[r] = route[r] /\ CurTarget(r)' = CurTarget(r)
    BY <1>2, InHandEffect, SamePlace DEF ReplyArrives, StreamOpens
  <2>2. PICK learned \in BOOLEAN :
          /\ Learn(r, learned)
          /\ learned => "probed" \in Paths(r) /\ Taught(r, CurTarget(r).provider)'
    BY <1>2, ReplyTeaches, StreamTeaches
  <2>. QED  BY <2>1, <2>2, LearningKeepsCaches
<1>3. CASE Walk(r)
  BY <1>1, <1>3 DEF Walk, Start, UndefinedTarget, SkipFallback, EnterTarget, LeaveTarget,
                    BeginFallback, SkipBlackedOut, TakeKey, sharedVars
<1>4. CASE Try(r) /\ ~ReplyArrives(r) /\ ~StreamOpens(r)
  BY <1>1, <1>4 DEF Try, SendCall, EarlyFrame, EarlyEnd, SettleSuccess, SettleCanceled,
                    SettleProhibited, SettleNext, SettleError, Settle, FinishFail, sharedVars
<1>5. CASE Deliver(r)
  BY <1>1, <1>5 DEF Deliver, Commit, WriteFrame, PumpFrame, PumpEnd, AnswerExhausted,
                    SendRefusal, sharedVars
<1>. QED  BY <1>2, <1>3, <1>4, <1>5 DEF Handle

LEMMA HandleKeepsProbe ==
    ASSUME Inv, NEW r \in Requests, ProbeIsOpen(r), Handle(r)
    PROVE  ProbeIsOpen(r)'
<1>1. ask' = ask
  BY StepsAreApart DEF Apart
<1>2. CASE SendCall(r)
  BY <1>2, SendCallProbes
<1>3. ASSUME pc'[r] # "calling" PROVE ProbeIsOpen(r)'
  BY <1>1, <1>3, ProbeStays
<1>4. CASE Walk(r)
  BY <1>3, <1>4, StartEffect, PassEffect, EnterEffect, BeginFallbackEffect, SkipEffect, TakeEffect
     DEF Walk
<1>5. CASE Try(r) /\ ~SendCall(r)
  <2>1. pc \in [Requests -> Stages]
    BY DEF Inv, TypeOK
  <2>2. ReplyArrives(r) \/ StreamOpens(r) \/ EarlyFrame(r) \/ EarlyEnd(r) => pc'[r] # "calling"
    BY <2>1 DEF ReplyArrives, StreamOpens, EarlyFrame, EarlyEnd, Goto
  <2>. QED  BY <1>3, <1>5, <2>2, RecordEffect, EndEffect DEF Try
<1>6. CASE Deliver(r)
  <2>1. pc \in [Requests -> Stages]
    BY DEF Inv, TypeOK
  <2>2. Commit(r) \/ WriteFrame(r) \/ PumpFrame(r) => pc'[r] # "calling"
    BY <2>1 DEF Commit, WriteFrame, PumpFrame, Goto
  <2>. QED  BY <1>3, <1>6, <2>2, RecordEffect, EndEffect DEF Deliver
<1>. QED  BY <1>2, <1>4, <1>5, <1>6 DEF Handle

-----------------------------------------------------------------------------
(* The blackout tracker *)

\* The attempt r has just recorded is to blame for the pair it is about to black out.
LEMMA SettledIsCulprit ==
    ASSUME Inv, NEW r \in Requests, SettleError(r), Blamed(r, call[r].reply),
           NEW p, p = CurPair(r, scan[r].key)
    PROVE  Culprit(r, p)'
<1>1. /\ attempts'[r] = Append(attempts[r], Tried(r, "provider_error", call[r].reply))
      /\ attempts[r] \in Seq(Attempt) /\ ask' = ask
  BY DEF SettleError, Settle, Inv, TypeOK, sharedVars
<1>3. /\ attempts'[r] # <<>>
      /\ attempts'[r][Len(attempts'[r])] = Tried(r, "provider_error", call[r].reply)
  <2>1. Tried(r, "provider_error", call[r].reply) \in Attempt
    BY <1>1, RecordEffect
  <2>. QED  BY <1>1
<1>. QED  BY <1>1, <1>3 DEF Culprit, FailedOn, Blamed, Tried, CurPair

LEMMA PumpedIsCulprit ==
    ASSUME Inv, NEW r \in Requests, CommitFits(r), PumpEnd(r), NEW e \in Reply,
           attempts' = [attempts EXCEPT ![r] = Append(@, Tried(r, "provider_error", e))],
           scan[r].phase = "normal", e.status # 400, NEW p, p = CurPair(r, scan[r].key)
    PROVE  Culprit(r, p)'
<1>1. /\ attempts'[r] = Append(attempts[r], Tried(r, "provider_error", e))
      /\ attempts[r] \in Seq(Attempt)
  BY DEF Inv, TypeOK
<1>3. /\ attempts'[r] # <<>>
      /\ attempts'[r][Len(attempts'[r])] = Tried(r, "provider_error", e)
  BY <1>1
<1>4. ask'[r].op # "transcribe"
  BY DEF PumpEnd, CommitFits, IsStreamed, sharedVars
<1>. QED  BY <1>3, <1>4 DEF Culprit, FailedOn, Tried, CurPair

\* Every entry the tracker has was there before.
Shrinks == \A p \in DOMAIN until' : p \in DOMAIN until /\ until'[p] = until[p]

\* What a step of r is to the tracker.
LEMMA HandleAtTracker ==
    ASSUME Inv, NEW r \in Requests, CommitFits(r), Handle(r)
    PROVE  \/ Shrinks /\ failing' = failing /\ pc[r] # "failing"
           \/ pc'[r] = "failing" /\ \E p : FailBegin(r, p) /\ Culprit(r, p)'
           \/ FinishFail(r)
<1>1. ASSUME UNCHANGED blackoutVars PROVE Shrinks /\ failing' = failing
  BY <1>1 DEF Shrinks, blackoutVars
<1>2. ASSUME NEW p, Success(p) \/ CheckBlocked(p) PROVE Shrinks /\ failing' = failing
  BY <1>2 DEF Shrinks, Success, CheckBlocked, Sweep, Without
<1>3. pc \in [Requests -> Stages]
  BY DEF Inv, TypeOK
<1>4. CASE TakeKey(r)
  <2>1. pc[r] # "failing"
    BY <1>4 DEF TakeKey
  <2>2. PICK k \in scan[r].left : UNCHANGED blackoutVars \/ CheckBlocked(CurPair(r, k))
    BY <1>4 DEF TakeKey
  <2>. QED  BY <1>1, <1>2, <2>1, <2>2
<1>5. CASE Walk(r) /\ ~TakeKey(r)
  <2>1. pc[r] # "failing" /\ UNCHANGED blackoutVars
    BY <1>5 DEF Walk, Start, UndefinedTarget, SkipFallback, EnterTarget, LeaveTarget,
                BeginFallback, SkipBlackedOut, InTargets
  <2>. QED  BY <1>1, <2>1
<1>6. CASE SettleSuccess(r)
  <2>1. pc[r] # "failing" /\ Success(CurPair(r, scan[r].key))
    BY <1>6 DEF SettleSuccess, Settle
  <2>. QED  BY <1>2, <2>1
<1>7. CASE SettleError(r)
  <2>1. CASE Blamed(r, call[r].reply)
    <3>1. FailBegin(r, CurPair(r, scan[r].key)) /\ pc'[r] = "failing"
      BY <1>3, <1>7, <2>1 DEF SettleError, Goto
    <3>2. \A p : p = CurPair(r, scan[r].key) => Culprit(r, p)'
      BY <1>7, <2>1, SettledIsCulprit
    <3>. QED  BY <3>1, <3>2, Zenon
  <2>2. CASE ~Blamed(r, call[r].reply)
    <3>1. pc[r] # "failing" /\ UNCHANGED blackoutVars
      BY <1>7, <2>2 DEF SettleError, Settle
    <3>. QED  BY <1>1, <3>1
  <2>. QED  BY <2>1, <2>2
<1>8. CASE PumpEnd(r)
  <2>1. PICK e \in IF pc[r] = "gone" THEN {call[r].reply} ELSE PumpEnds(r) :
          /\ attempts' = [attempts EXCEPT ![r] = Append(@, Tried(r, PumpVerdict(r, e), e))]
          /\ \/ Success(CurPair(r, scan[r].key))
             \/ /\ PumpVerdict(r, e) = "provider_error" /\ scan[r].phase = "normal" /\ e.status # 400
                /\ FailBegin(r, CurPair(r, scan[r].key)) /\ Goto(r, "failing")
             \/ UNCHANGED blackoutVars
    BY <1>8 DEF PumpEnd
  <2>2. pc[r] # "failing"
    BY <1>8 DEF PumpEnd
  <2>3. e \in Reply
    BY <2>1, EndsAreTyped DEF PumpEnds, Inv, TypeOK, CallMade
  <2>4. CASE Success(CurPair(r, scan[r].key)) \/ UNCHANGED blackoutVars
    BY <1>1, <1>2, <2>2, <2>4
  <2>5. CASE /\ PumpVerdict(r, e) = "provider_error" /\ scan[r].phase = "normal" /\ e.status # 400
             /\ FailBegin(r, CurPair(r, scan[r].key)) /\ Goto(r, "failing")
    <3>1. \A p : p = CurPair(r, scan[r].key) => Culprit(r, p)'
      BY <1>8, <2>1, <2>3, <2>5, PumpedIsCulprit
    <3>2. pc'[r] = "failing"
      BY <1>3, <2>5 DEF Goto
    <3>. QED  BY <2>5, <3>1, <3>2, Zenon
  <2>. QED  BY <2>1, <2>4, <2>5
<1>9. CASE /\ Try(r)
           /\ ~(SettleSuccess(r) \/ SettleError(r) \/ FinishFail(r))
  <2>1. pc[r] # "failing" /\ UNCHANGED blackoutVars
    BY <1>9 DEF Try, SendCall, ReplyArrives, StreamOpens, EarlyFrame, EarlyEnd, SettleCanceled,
                SettleProhibited, SettleNext, Settle
  <2>. QED  BY <1>1, <2>1
<1>10. CASE Deliver(r) /\ ~PumpEnd(r)
  <2>1. pc[r] # "failing" /\ UNCHANGED blackoutVars
    BY <1>10 DEF Deliver, Commit, WriteFrame, PumpFrame, AnswerExhausted, SendRefusal, AllTried
  <2>. QED  BY <1>1, <2>1
<1>. QED  BY <1>4, <1>5, <1>6, <1>7, <1>8, <1>9, <1>10 DEF Handle, Try, Deliver

LEMMA HandleKeepsBlames ==
    ASSUME Inv, NEW r \in Requests, CommitFits(r), Blames, Handle(r)
    PROVE  Blames'
<1>. SUFFICES ASSUME NEW q \in Requests PROVE BlameFits(q)'
  BY DEF Blames
<1>1. failing \in [Requests -> SUBSET Pairs] /\ Apart(r)
  BY StepsAreApart DEF Inv, TypeOK, BlackoutTypeOK, Requests
<1>2. BlameFits(q) /\ BlameFits(r)
  BY DEF Blames
<1>3. CASE q # r
  <2>1. failing'[q] = failing[q]
    BY <1>1, <1>3, HandleAtTracker DEF FailBegin, FinishFail, FailEnd, blackoutVars
  <2>2. \A p : Culprit(q, p)' <=> Culprit(q, p)
    BY <1>1, <1>3 DEF Culprit, FailedOn, Apart
  <2>3. pc'[q] = pc[q]
    BY <1>1, <1>3 DEF Apart
  <2>. QED  BY <1>2, <2>1, <2>2, <2>3 DEF BlameFits
<1>4. CASE q = r
  <2>1. CASE failing' = failing /\ pc[r] # "failing"
    BY <1>2, <1>4, <2>1 DEF BlameFits
  <2>2. CASE pc'[r] = "failing" /\ \E p : FailBegin(r, p) /\ Culprit(r, p)'
    <3>1. PICK p : FailBegin(r, p) /\ Culprit(r, p)'
      BY <2>2
    <3>2. \A x \in failing'[r] : x = p
      BY <1>1, <3>1 DEF FailBegin
    <3>. QED  BY <1>4, <2>2, <3>1, <3>2 DEF BlameFits
  <2>3. CASE FinishFail(r)
    <3>1. failing'[r] = {}
      BY <1>1, <2>3 DEF FinishFail, FailEnd, blackoutVars
    <3>. QED  BY <1>4, <3>1 DEF BlameFits
  <2>. QED  BY <2>1, <2>2, <2>3, HandleAtTracker
<1>. QED  BY <1>3, <1>4

\* A step of r leaves an entry as it is, or some request is to blame for the new one.
LEMMA HandleEarns ==
    ASSUME Inv, NEW r \in Requests, CommitFits(r), Blames, Handle(r), NEW p \in DOMAIN until'
    PROVE  \/ p \in DOMAIN until /\ until'[p] = until[p]
           \/ \E q \in Requests : Culprit(q, p)
<1>1. BlameFits(r)
  BY DEF Blames
<1>2. CASE Shrinks
  BY <1>2 DEF Shrinks
<1>3. CASE until' = until
  BY <1>3
<1>4. CASE \E x \in failing[r] : until' = With(x, now + dur)
  BY <1>1, <1>4 DEF With, BlameFits
<1>5. \/ Shrinks \/ until' = until
      \/ \E x \in failing[r] : until' = With(x, now + dur)
  BY HandleAtTracker DEF FailBegin, FinishFail, FailEnd, blackoutVars
<1>. QED  BY <1>2, <1>3, <1>4, <1>5

LEMMA HandleKeepsEarned ==
    ASSUME Inv, Books, NEW r \in Requests, CommitFits(r), Blames, EntriesAreEarned, Handle(r)
    PROVE  EntriesAreEarned'
<1>. SUFFICES ASSUME NEW p \in DOMAIN until' PROVE Earned(p)'
  BY DEF EntriesAreEarned
<1>1. Earned(p)
  <2>1. CASE p \in DOMAIN until
    BY <2>1 DEF EntriesAreEarned
  <2>2. CASE \E q \in Requests : Culprit(q, p)
    <3>1. PICK q \in Requests : Culprit(q, p)
      BY <2>2
    <3>2. attempts[q] \in Seq(Attempt)
      BY DEF Inv, TypeOK
    <3>3. Len(attempts[q]) \in DOMAIN attempts[q] /\ FailedOn(q, attempts[q][Len(attempts[q])], p)
      BY <3>1, <3>2 DEF Culprit
    <3>. QED  BY <3>3 DEF Earned
  <2>. QED  BY <2>1, <2>2, HandleEarns
<1>2. PICK q \in Requests : \E i \in DOMAIN attempts[q] : FailedOn(q, attempts[q][i], p)
  BY <1>1 DEF Earned
<1>3. PICK i \in DOMAIN attempts[q] : FailedOn(q, attempts[q][i], p)
  BY <1>2
<1>4. i \in DOMAIN attempts'[q] /\ attempts'[q][i] = attempts[q][i] /\ ask' = ask
  BY AttemptsStay, StepsAreApart DEF Apart
<1>5. FailedOn(q, attempts[q][i], p)'
  BY <1>3, <1>4 DEF FailedOn
<1>. QED  BY <1>4, <1>5 DEF Earned

-----------------------------------------------------------------------------
(* Every step *)

\* Of the other steps, reloads swap the generation and set the window, and time
\* passes: none writes to a cache, an entry or a request.
LEMMA OthersShareNothing ==
    ASSUME \/ \E r \in Requests : ClientLeaves(r) \/ ContextEnds(r)
           \/ Reload \/ ClockTicks \/ Finished \/ UNCHANGED vars
    PROVE  UNCHANGED <<ask, chatOnly, pc, route, scan, call, attempts, until, failing>>
  BY DEF ClientLeaves, ContextEnds, Reload, SwapState, SetWindow, SetDuration, ClockTicks, Tick,
         Finished, vars, sharedVars, requestVars, blackoutVars

LEMMA StepKeepsShared ==
    ASSUME Inv, Books, Deliveries, Shared, [Next]_vars
    PROVE  Shared'
<1>1. CASE UNCHANGED <<ask, chatOnly, pc, route, scan, call, attempts, until, failing>>
  <2>1. Probes'
    BY <1>1, ProbeStays DEF Shared, Probes
  <2>2. Blames'
    BY <1>1 DEF Shared, Blames, BlameFits, Culprit, FailedOn
  <2>3. ChatOnlyIsLearntHere'
    BY <1>1 DEF Shared, ChatOnlyIsLearntHere, Taught, Reached, CurTarget, IsStreamed
  <2>4. EntriesAreEarned'
    BY <1>1 DEF Shared, EntriesAreEarned, Earned, FailedOn
  <2>. QED  BY <2>1, <2>2, <2>3, <2>4 DEF Shared
<1>2. ASSUME NEW r \in Requests, Handle(r) PROVE Shared'
  <2>1. ProbeIsOpen(r) /\ CommitFits(r)
    BY DEF Shared, Probes, Deliveries, Delivery
  <2>2. ASSUME NEW q \in Requests PROVE ProbeIsOpen(q)'
    <3>1. CASE q = r
      BY <1>2, <2>1, <3>1, HandleKeepsProbe
    <3>2. CASE q # r
      <4>1. /\ ask' = ask /\ pc'[q] = pc[q] /\ call'[q] = call[q]
            /\ route'[q] = route[q] /\ scan'[q] = scan[q]
        BY <1>2, <3>2, StepsAreApart DEF Apart
      <4>. QED  BY <4>1, ProbeStays DEF Shared, Probes
    <3>. QED  BY <3>1, <3>2
  <2>3. ChatOnlyIsLearntHere'
    BY <1>2, <2>1, HandleKeepsCaches DEF Shared
  <2>4. Blames'
    BY <1>2, <2>1, HandleKeepsBlames DEF Shared
  <2>5. EntriesAreEarned'
    BY <1>2, <2>1, HandleKeepsEarned DEF Shared
  <2>. QED  BY <2>2, <2>3, <2>4, <2>5 DEF Shared, Probes
<1>. QED  BY <1>1, <1>2, OthersShareNothing DEF Next

LEMMA InitSharesNothing ==
    ASSUME RouterInit
    PROVE  Shared
<1>1. Probes
  BY DEF RouterInit, Probes, ProbeIsOpen
<1>2. ChatOnlyIsLearntHere
  BY DEF RouterInit, ChatOnlyIsLearntHere
<1>3. Blames
  BY DEF RouterInit, BlackoutInit, Blames, BlameFits, Requests
<1>4. EntriesAreEarned
  BY DEF RouterInit, BlackoutInit, EntriesAreEarned
<1>. QED  BY <1>1, <1>2, <1>3, <1>4 DEF Shared

\* Whatever the requests have left behind was earned: an entry of the tracker by a
\* recorded failure of its pair as a normal key (settle, pump), an entry of a
\* Chat-only cache by the answer of a probe made under that generation
\* (responsesMode, MarkChatOnly); and whoever is about to black out a pair has the
\* failure to show for it.
THEOREM SharedIsKept == Spec => []Shared
<1>1. RouterInit => Shared
  BY InitSharesNothing
<1>2. Shared /\ Inv /\ Books /\ Deliveries /\ [Next]_vars => Shared'
  BY StepKeepsShared
<1>. QED  BY <1>1, <1>2, BooksAreKept, DeliveriesAreKept, PTL DEF Spec

\* Whatever reloads come between a probe and its verdict, a provider is remembered
\* as Chat-only only in a generation whose configuration leaves that open, and by
\* a Responses request of that generation that asked it (capability.go, Reload).
THEOREM VerdictsAreLearntHere == Spec => []ChatOnlyIsLearntHere
<1>1. Shared => ChatOnlyIsLearntHere
  BY DEF Shared
<1>. QED  BY <1>1, SharedIsKept, PTL

\* However requests interleave, a pair is blacked out, or for longer, only by a
\* request whose latest attempt failed on it as a normal key (settle, pump).
THEOREM BlackoutIsForKeyFaults == Spec => BlackoutOnlyForKeyFaults
<1>. DEFINE OnBlame == \A p \in DOMAIN until' :
                        p \notin DOMAIN until \/ until'[p] # until[p] =>
                            \E r \in Requests : Culprit(r, p)
<1>1. ASSUME Inv, Deliveries, Shared, [Next]_vars PROVE [OnBlame]_until
  <2>1. ASSUME NEW r \in Requests, Handle(r) PROVE OnBlame
    <3>1. CommitFits(r) /\ Blames
      BY <1>1 DEF Deliveries, Delivery, Shared
    <3>. QED  BY <1>1, <2>1, <3>1, HandleEarns
  <2>2. CASE UNCHANGED until
    BY <2>2
  <2>. QED  BY <1>1, <2>1, <2>2, OthersShareNothing DEF Next
<1>. QED  BY <1>1, InvHolds, DeliveriesAreKept, SharedIsKept, PTL DEF Spec, BlackoutOnlyForKeyFaults
=============================================================================
