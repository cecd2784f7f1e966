----------------------- MODULE NestedEventLoopProofs -----------------------
(***************************************************************************)
(* Proofs about NestedEventLoop, for any sets of runnables and loops.      *)
(***************************************************************************)
EXTENDS NestedEventLoop, SequenceTheorems, TLAPS

\* What the dispatcher has not submitted yet, and what it or invokeAndWait has.
Waiting ==
    SeqRange(deque) \cup (IF dpc \in {"check", "submit"} THEN {cur} ELSE {})
Submitted == SeqRange(native) \cup SeqRange(handlers) \cup done

\* A posted runnable is in one place: the deque, the dispatcher's hands, or
\* beyond.
OnePlace ==
    /\ \A i, j \in 1..Len(deque) : deque[i] = deque[j] => i = j
    /\ dpc \in {"check", "submit"} => cur \notin SeqRange(deque)
    /\ Waiting \cap (Submitted \cup direct) = {}
    /\ Waiting \subseteq SeqRange(posted)
    /\ Submitted \subseteq SeqRange(posted) \cup direct \cup {Event}

\* The recheck of a loop is posted when that loop has returned.
RechecksOnce ==
    \A l \in Loops : Recheck(l) \in SeqRange(posted) => state[l] = "IDLE"

LoopInv ==
    /\ TypeOK /\ OnePlace /\ RechecksOnce
    /\ OnlyLeavingLoopsReturn /\ LeavingFlagEnds /\ DispatcherMovesOn

-----------------------------------------------------------------------------
(* The elements of sequences.                                              *)

\* Append adds one element.
LEMMA RangeAppend ==
  ASSUME NEW S, NEW s \in Seq(S), NEW x
  PROVE  SeqRange(Append(s, x)) = SeqRange(s) \cup {x}
<1>1. ASSUME NEW y \in SeqRange(Append(s, x)) PROVE y \in SeqRange(s) \cup {x}
  BY <1>1 DEF SeqRange
<1>2. ASSUME NEW y \in SeqRange(s) PROVE y \in SeqRange(Append(s, x))
  <2>1. PICK i \in 1..Len(s) : y = s[i] BY <1>2 DEF SeqRange
  <2>2. i \in 1..Len(Append(s, x)) /\ Append(s, x)[i] = y BY <2>1
  <2>. QED BY <2>2 DEF SeqRange
<1>3. x \in SeqRange(Append(s, x))
  <2>1. Append(s, x)[Len(s) + 1] = x /\ Len(s) + 1 \in 1..Len(Append(s, x)) OBVIOUS
  <2>. QED BY <2>1 DEF SeqRange
<1>. QED BY <1>1, <1>2, <1>3

\* So does putting an element in front.
LEMMA RangeCons ==
  ASSUME NEW S, NEW s \in Seq(S), NEW x \in S
  PROVE  /\ <<x>> \o s \in Seq(S)
         /\ SeqRange(<<x>> \o s) = SeqRange(s) \cup {x}
         /\ \A i \in 1..Len(<<x>> \o s) :
              (<<x>> \o s)[i] = IF i = 1 THEN x ELSE s[i - 1]
         /\ Len(<<x>> \o s) = Len(s) + 1
<1>. DEFINE t == <<x>> \o s
<1>1. t \in Seq(S) /\ Len(t) = Len(s) + 1 OBVIOUS
<1>2. \A i \in 1..Len(t) : t[i] = IF i = 1 THEN x ELSE s[i - 1] OBVIOUS
<1>. HIDE DEF t
<1>3. ASSUME NEW y \in SeqRange(t) PROVE y \in SeqRange(s) \cup {x}
  BY <1>1, <1>2, <1>3 DEF SeqRange
<1>4. ASSUME NEW y \in SeqRange(s) PROVE y \in SeqRange(t)
  <2>1. PICK i \in 1..Len(s) : y = s[i] BY <1>4 DEF SeqRange
  <2>2. i + 1 \in 1..Len(t) /\ t[i + 1] = y BY <1>1, <1>2, <2>1
  <2>. QED BY <2>2 DEF SeqRange
<1>5. x \in SeqRange(t)
  <2>1. 1 \in 1..Len(t) /\ t[1] = x BY <1>1, <1>2
  <2>. QED BY <2>1 DEF SeqRange
<1>6. SeqRange(t) = SeqRange(s) \cup {x} BY <1>3, <1>4, <1>5
<1>. QED BY <1>1, <1>2, <1>6 DEF t

\* A nonempty sequence has its head and what is in its tail.
LEMMA RangeTail ==
  ASSUME NEW S, NEW s \in Seq(S), s # <<>>
  PROVE  /\ Head(s) \in S /\ Tail(s) \in Seq(S) /\ Len(Tail(s)) = Len(s) - 1
         /\ SeqRange(s) = SeqRange(Tail(s)) \cup {Head(s)}
<1>1. /\ Head(s) = s[1] /\ Tail(s) \in Seq(S) /\ Len(Tail(s)) = Len(s) - 1
      /\ Len(s) \in Nat \ {0}
      /\ \A i \in 1..Len(Tail(s)) : Tail(s)[i] = s[i + 1]
  OBVIOUS
<1>2. ASSUME NEW y \in SeqRange(s)
      PROVE y \in SeqRange(Tail(s)) \cup {Head(s)}
  <2>1. PICK i \in 1..Len(s) : y = s[i] BY <1>2 DEF SeqRange
  <2>2. i = 1 \/ (i - 1 \in 1..Len(Tail(s)) /\ Tail(s)[i - 1] = y) BY <1>1, <2>1
  <2>. QED BY <1>1, <2>1, <2>2 DEF SeqRange
<1>3. ASSUME NEW y \in SeqRange(Tail(s)) PROVE y \in SeqRange(s)
  <2>1. PICK i \in 1..Len(Tail(s)) : y = Tail(s)[i] BY <1>3 DEF SeqRange
  <2>2. i + 1 \in 1..Len(s) /\ s[i + 1] = y BY <1>1, <2>1
  <2>. QED BY <2>2 DEF SeqRange
<1>4. Head(s) \in SeqRange(s) /\ Head(s) \in S
  <2>1. 1 \in 1..Len(s) /\ s[1] = Head(s) BY <1>1
  <2>. QED BY <2>1 DEF SeqRange
<1>. QED BY <1>1, <1>2, <1>3, <1>4

\* A nonempty sequence has its last element and what comes before.
LEMMA RangeFront ==
  ASSUME NEW S, NEW s \in Seq(S), Len(s) > 0
  PROVE  /\ s[Len(s)] \in S
         /\ WithoutLast(s) \in Seq(S) /\ Len(WithoutLast(s)) = Len(s) - 1
         /\ \A i \in 1..(Len(s) - 1) : WithoutLast(s)[i] = s[i]
         /\ SeqRange(s) = SeqRange(WithoutLast(s)) \cup {s[Len(s)]}
<1>1. /\ WithoutLast(s) \in Seq(S) /\ Len(WithoutLast(s)) = Len(s) - 1
      /\ \A i \in 1..(Len(s) - 1) : WithoutLast(s)[i] = s[i]
      /\ Len(s) \in Nat \ {0} /\ s[Len(s)] \in S
  <2>1. Len(s) \in Nat \ {0} /\ s[Len(s)] \in S OBVIOUS
  <2>2. \A i \in 1..(Len(s) - 1) : s[i] \in S BY <2>1
  <2>3. WithoutLast(s) = [i \in 1..(Len(s) - 1) |-> s[i]] BY <2>1 DEF WithoutLast
  <2>4. WithoutLast(s) \in Seq(S) /\ Len(WithoutLast(s)) = Len(s) - 1
    BY <2>1, <2>2, <2>3
  <2>. QED BY <2>1, <2>3, <2>4
<1>2. ASSUME NEW y \in SeqRange(s)
      PROVE  y \in SeqRange(WithoutLast(s)) \cup {s[Len(s)]}
  <2>1. PICK i \in 1..Len(s) : y = s[i] BY <1>2 DEF SeqRange
  <2>2. i = Len(s) \/ (i \in 1..Len(WithoutLast(s)) /\ WithoutLast(s)[i] = y)
    BY <1>1, <2>1
  <2>. QED BY <2>1, <2>2 DEF SeqRange
<1>3. ASSUME NEW y \in SeqRange(WithoutLast(s)) PROVE y \in SeqRange(s)
  <2>1. PICK i \in 1..Len(WithoutLast(s)) : y = WithoutLast(s)[i]
    BY <1>3 DEF SeqRange
  <2>2. i \in 1..Len(s) /\ s[i] = y BY <1>1, <2>1
  <2>. QED BY <2>2 DEF SeqRange
<1>4. s[Len(s)] \in SeqRange(s)
  <2>1. Len(s) \in 1..Len(s) BY <1>1
  <2>. QED BY <2>1 DEF SeqRange
<1>. QED BY <1>1, <1>2, <1>3, <1>4

\* The rechecks are distinct tasks, apart from runnables, events and null.
LEMMA TaskFacts ==
  /\ Event \notin Tasks /\ None \notin Tasks /\ Runnables \subseteq Tasks
  /\ \A l \in Loops : Recheck(l) \in Tasks \ Runnables
  /\ \A l, m \in Loops : Recheck(l) = Recheck(m) => l = m
  BY EventIsNoTask, NoneIsNothing, RunnablesDiffer DEF Tasks, Recheck

-----------------------------------------------------------------------------
(* Each part of the invariant is preserved.                                *)

\* The variables keep their types.
LEMMA TypeStep ==
  ASSUME TypeOK, OnlyLeavingLoopsReturn, [Next]_vars
  PROVE  TypeOK'
<1> USE DEF TypeOK, LoopStates, dispatcherVars, nativeVars, waitVars, loopVars, history
<1>1. ASSUME NEW r \in Runnables, PostRunnable(r) PROVE TypeOK'
  BY <1>1, TaskFacts DEF PostRunnable, invokeLater
<1>2. ASSUME NEW r \in Runnables, invokeAndWait(r) PROVE TypeOK'
  <2>1. native' \in Seq(Tasks) /\ Len(native') = Len(native) + 1
    BY <1>2, TaskFacts DEF invokeAndWait
  <2>2. ready' \in 0..Len(native') BY <1>2, <2>1 DEF invokeAndWait
  <2>. QED BY <1>2, <2>1, <2>2 DEF invokeAndWait
<1>3. ASSUME NEW r \in Runnables, CallerReturns(r) PROVE TypeOK'
  BY <1>3 DEF CallerReturns
<1>4. CASE TakeFirst
  <2>1. Head(deque) \in Tasks /\ Tail(deque) \in Seq(Tasks)
    BY <1>4, RangeTail DEF TakeFirst
  <2>. QED BY <1>4, <2>1, TaskFacts DEF TakeFirst
<1>5. CASE CheckLeaving
  <2>1. cur \in Tasks BY <1>5 DEF CheckLeaving
  <2>2. <<cur>> \o deque \in Seq(Tasks) BY <2>1, RangeCons
  <2>. QED BY <1>5, <2>1, <2>2, TaskFacts DEF CheckLeaving, putBack
<1>6. CASE WaitUntilLeft
  BY <1>6 DEF WaitUntilLeft
<1>7. CASE submitForLaterInvocation
  BY <1>7 DEF submitForLaterInvocation
<1>8. CASE AwaitFuture
  BY <1>8 DEF AwaitFuture
<1>9. CASE HandleEvent
  BY <1>9 DEF HandleEvent, InNativeLoop, Quitting
<1>10. CASE RunRunnable
  <2>1. native # <<>> BY <1>10 DEF RunRunnable, DispatchNative
  <2>2. /\ Tail(native) \in Seq(Tasks) /\ Len(Tail(native)) = Len(native) - 1
        /\ Head(native) \in Tasks /\ Len(native) \in Nat \ {0}
    BY <2>1, RangeTail
  <2>3. started' \in Seq(Tasks) BY <1>10, <2>2 DEF RunRunnable, DispatchNative
  <2>4. ready' \in 0..Len(native') BY <1>10, <2>2 DEF RunRunnable, DispatchNative
  <2>5. handlers' \in Seq(Runnables \cup {Event}) /\ Len(handlers') - Len(stack') \in {0, 1}
    BY <1>10 DEF RunRunnable, DispatchNative, InNativeLoop
  <2>. QED BY <1>10, <2>2, <2>3, <2>4, <2>5 DEF RunRunnable, DispatchNative
<1>11. CASE RunRecheck
  <2>1. native # <<>> BY <1>11 DEF RunRecheck, DispatchNative
  <2>2. /\ Tail(native) \in Seq(Tasks) /\ Len(Tail(native)) = Len(native) - 1
        /\ Head(native) \in Tasks /\ Len(native) \in Nat \ {0}
    BY <2>1, RangeTail
  <2>3. started' \in Seq(Tasks) BY <1>11, <2>2 DEF RunRecheck, DispatchNative
  <2>4. ready' \in 0..Len(native') BY <1>11, <2>2 DEF RunRecheck, DispatchNative
  <2>5. stack # <<>> => Innermost \in Loops BY DEF Innermost
  <2>6. /\ quit' \subseteq Loops /\ leavingNestedEventLoop' \in BOOLEAN
        /\ eventLoopExitEnterPassValue' \in Loops \cup {None}
    BY <1>11, <2>5 DEF RunRecheck, leaveNestedEventLoop, notifyLeavingNestedEventLoop
  <2>. QED BY <1>11, <2>2, <2>3, <2>4, <2>6 DEF RunRecheck, DispatchNative
<1>12. CASE HandlerReturns
  <2>1. Len(handlers) > 0 BY <1>12 DEF HandlerReturns, InNativeLoop
  <2>2. /\ WithoutLast(handlers) \in Seq(Runnables \cup {Event})
        /\ Len(WithoutLast(handlers)) = Len(handlers) - 1
        /\ handlers[Len(handlers)] \in Runnables \cup {Event}
    BY <2>1, RangeFront
  <2>. QED BY <1>12, <2>1, <2>2, TaskFacts DEF HandlerReturns, InNativeLoop
<1>13. ASSUME NEW l \in Loops, enter(l) PROVE TypeOK'
  BY <1>13 DEF enter, InNativeLoop, notifyEnteringNestedEventLoop
<1>14. ASSUME NEW l \in Loops, leave(l) PROVE TypeOK'
  <2>1. \E i \in 1..Len(stack) : stack[i] = l
    BY <1>14 DEF leave, OnlyLeavingLoopsReturn, SeqRange
  <2>2. Innermost \in Loops BY <2>1 DEF Innermost
  <2>. QED BY <1>14, <2>2 DEF leave, leaveNestedEventLoop, notifyLeavingNestedEventLoop
<1>15. CASE LoopReturns
  <2>1. Len(stack) > 0 BY <1>15 DEF LoopReturns, LoopEnds, Quitting
  <2>2. /\ WithoutLast(stack) \in Seq(Loops) /\ Innermost \in Loops
        /\ Len(WithoutLast(stack)) = Len(stack) - 1
    BY <2>1, RangeFront DEF Innermost
  <2>3. deque' \in Seq(Tasks) /\ posted' \in Seq(Tasks)
    <3>. DEFINE k == Recheck(Innermost)
    <3>1. k \in Tasks BY <2>2, TaskFacts
    <3>2. \/ UNCHANGED <<deque, posted>>
          \/ deque' = Append(deque, k) /\ posted' = Append(posted, k)
      BY <1>15 DEF LoopReturns, invokeLater
    <3>. HIDE DEF k
    <3>3. Append(deque, k) \in Seq(Tasks) /\ Append(posted, k) \in Seq(Tasks) BY <3>1
    <3>. QED BY <3>2, <3>3
  <2>4. Len(handlers') - Len(stack') \in {0, 1}
    BY <1>15, <2>1, <2>2 DEF LoopReturns, LoopEnds, InNativeLoop
  <2>. QED BY <1>15, <2>2, <2>3, <2>4 DEF LoopReturns, notifyLeftNestedEventLoop
<1>16. CASE UNCHANGED vars
  BY <1>16 DEF vars
<1>. QED
  BY <1>1, <1>2, <1>3, <1>4, <1>5, <1>6, <1>7, <1>8, <1>9, <1>10, <1>11,
     <1>12, <1>13, <1>14, <1>15, <1>16 DEF Next

\* Only leaving loops are quit, and the stack agrees with the states.
LEMMA LoopStep ==
  ASSUME TypeOK, OnlyLeavingLoopsReturn, LeavingFlagEnds, [Next]_vars
  PROVE  OnlyLeavingLoopsReturn' /\ LeavingFlagEnds'
<1> USE DEF TypeOK, OnlyLeavingLoopsReturn, LeavingFlagEnds, loopVars
<1>1. ASSUME NEW r \in Runnables, PostRunnable(r)
      PROVE OnlyLeavingLoopsReturn' /\ LeavingFlagEnds'
  BY <1>1 DEF PostRunnable
<1>2. ASSUME NEW r \in Runnables, invokeAndWait(r)
      PROVE OnlyLeavingLoopsReturn' /\ LeavingFlagEnds'
  BY <1>2 DEF invokeAndWait
<1>3. ASSUME NEW r \in Runnables, CallerReturns(r)
      PROVE OnlyLeavingLoopsReturn' /\ LeavingFlagEnds'
  BY <1>3 DEF CallerReturns
<1>4. CASE TakeFirst
  BY <1>4 DEF TakeFirst
<1>5. CASE CheckLeaving
  BY <1>5 DEF CheckLeaving
<1>6. CASE WaitUntilLeft
  BY <1>6 DEF WaitUntilLeft
<1>7. CASE submitForLaterInvocation
  BY <1>7 DEF submitForLaterInvocation
<1>8. CASE AwaitFuture
  BY <1>8 DEF AwaitFuture
<1>9. CASE HandleEvent
  BY <1>9 DEF HandleEvent
<1>10. CASE RunRunnable
  BY <1>10 DEF RunRunnable
<1>11. CASE RunRecheck
  <2>1. state' = state /\ stack' = stack BY <1>11 DEF RunRecheck
  <2>2. \A l \in quit' : state[l] = "LEAVING"
    BY <1>11 DEF RunRecheck, leaveNestedEventLoop
  <2>3. leavingNestedEventLoop' => quit' # {}
    BY <1>11 DEF RunRecheck, leaveNestedEventLoop
  <2>. QED BY <2>1, <2>2, <2>3
<1>12. CASE HandlerReturns
  BY <1>12 DEF HandlerReturns
<1>13. ASSUME NEW l \in Loops, enter(l)
       PROVE OnlyLeavingLoopsReturn' /\ LeavingFlagEnds'
  <2>1. l \notin SeqRange(stack) /\ l \notin quit BY <1>13 DEF enter
  <2>2. SeqRange(stack') = SeqRange(stack) \cup {l} BY <1>13, RangeAppend DEF enter
  <2>3. {k \in Loops : state'[k] \in {"ACTIVE", "LEAVING"}}
          = {k \in Loops : state[k] \in {"ACTIVE", "LEAVING"}} \cup {l}
    BY <1>13 DEF enter
  <2>4. \A i, j \in 1..Len(stack') : stack'[i] = stack'[j] => i = j
    BY <1>13, <2>1 DEF enter, SeqRange
  <2>5. \A k \in quit' : state'[k] = "LEAVING" BY <1>13, <2>1 DEF enter
  <2>6. LeavingFlagEnds' BY <1>13 DEF enter
  <2>. QED BY <2>2, <2>3, <2>4, <2>5, <2>6
<1>14. ASSUME NEW l \in Loops, leave(l)
       PROVE OnlyLeavingLoopsReturn' /\ LeavingFlagEnds'
  <2>1. state' = [state EXCEPT ![l] = "LEAVING"] /\ state[l] = "ACTIVE" /\ stack' = stack
    BY <1>14 DEF leave
  <2>2. {k \in Loops : state'[k] \in {"ACTIVE", "LEAVING"}}
          = {k \in Loops : state[k] \in {"ACTIVE", "LEAVING"}}
    BY <2>1
  <2>3. \A k \in quit' : state'[k] = "LEAVING"
    BY <1>14, <2>1 DEF leave, leaveNestedEventLoop, IsInnermost
  <2>4. leavingNestedEventLoop' => quit' # {}
    BY <1>14 DEF leave, leaveNestedEventLoop
  <2>. QED BY <2>1, <2>2, <2>3, <2>4
<1>15. CASE LoopReturns
  <2>1. Len(stack) > 0 /\ Innermost \in Loops BY <1>15 DEF LoopReturns, LoopEnds, Quitting, Innermost
  <2>2. /\ Len(stack') = Len(stack) - 1
        /\ \A i \in 1..Len(stack') : stack'[i] = stack[i]
        /\ SeqRange(stack) = SeqRange(stack') \cup {Innermost}
    BY <1>15, <2>1, RangeFront DEF LoopReturns, Innermost
  <2>3. ASSUME NEW i \in 1..Len(stack'), stack'[i] = Innermost PROVE FALSE
    <3>1. i \in 1..Len(stack) /\ Len(stack) \in 1..Len(stack) /\ i # Len(stack)
      BY <2>1, <2>2
    <3>2. stack[i] = stack[Len(stack)] BY <2>2, <2>3 DEF Innermost
    <3>. QED BY <3>1, <3>2
  <2>4. {k \in Loops : state'[k] \in {"ACTIVE", "LEAVING"}}
          = {k \in Loops : state[k] \in {"ACTIVE", "LEAVING"}} \ {Innermost}
    BY <1>15, <2>1 DEF LoopReturns
  <2>5. SeqRange(stack') = {k \in Loops : state'[k] \in {"ACTIVE", "LEAVING"}}
    <3>1. Innermost \notin SeqRange(stack') BY <2>3 DEF SeqRange
    <3>. QED BY <2>2, <2>4, <3>1
  <2>6. ASSUME NEW i \in 1..Len(stack'), NEW j \in 1..Len(stack'), stack'[i] = stack'[j]
        PROVE  i = j
    <3>1. i \in 1..Len(stack) /\ j \in 1..Len(stack) BY <2>1, <2>2
    <3>2. stack[i] = stack[j] BY <2>2, <2>6
    <3>. QED BY <3>1, <3>2
  <2>7. \A k \in quit' : state'[k] = "LEAVING" BY <1>15, <2>1 DEF LoopReturns
  <2>8. ~leavingNestedEventLoop' BY <1>15 DEF LoopReturns, notifyLeftNestedEventLoop
  <2>. QED BY <2>5, <2>6, <2>7, <2>8
<1>16. CASE UNCHANGED vars
  BY <1>16 DEF vars, SeqRange
<1>. QED
  BY <1>1, <1>2, <1>3, <1>4, <1>5, <1>6, <1>7, <1>8, <1>9, <1>10, <1>11,
     <1>12, <1>13, <1>14, <1>15, <1>16 DEF Next

\* A runnable moves from one place to the next.
LEMMA PlaceStep ==
  ASSUME TypeOK, OnlyLeavingLoopsReturn, OnePlace, RechecksOnce, DispatcherMovesOn,
         [Next]_vars
  PROVE  OnePlace' /\ RechecksOnce'
<1> USE DEF TypeOK, OnePlace, RechecksOnce, Waiting, Submitted, dispatcherVars, nativeVars,
           waitVars, loopVars, history
<1>1. ASSUME NEW r \in Runnables, PostRunnable(r)
      PROVE OnePlace' /\ RechecksOnce'
  <2>1. SeqRange(deque') = SeqRange(deque) \cup {r} /\ SeqRange(posted') = SeqRange(posted) \cup {r}
    BY <1>1, RangeAppend DEF PostRunnable, invokeLater
  <2>2. Waiting' = Waiting \cup {r} /\ Submitted' = Submitted
    BY <1>1, <2>1 DEF PostRunnable
  <2>3. r \notin Waiting \cup Submitted \cup direct \cup SeqRange(deque) \cup {cur}
    <3>1. r # Event BY TaskFacts
    <3>2. r \notin Waiting \cup Submitted \cup direct BY <1>1, <3>1 DEF PostRunnable, Fresh
    <3>3. dpc = "await" => cur \in Submitted BY DEF DispatcherMovesOn
    <3>4. r # cur BY <3>2, <3>3, TaskFacts
    <3>. QED BY <3>2, <3>4
  <2>4. \A i, j \in 1..Len(deque') : deque'[i] = deque'[j] => i = j
    BY <1>1, <2>3 DEF PostRunnable, invokeLater, SeqRange
  <2>5. OnePlace' BY <1>1, <2>1, <2>2, <2>3, <2>4 DEF PostRunnable
  <2>6. \A l \in Loops : Recheck(l) # r BY TaskFacts
  <2>7. RechecksOnce' BY <1>1, <2>1, <2>6 DEF PostRunnable
  <2>. QED BY <2>5, <2>7
<1>2. ASSUME NEW r \in Runnables, invokeAndWait(r)
      PROVE OnePlace' /\ RechecksOnce'
  <2>1. SeqRange(native') = SeqRange(native) \cup {r} BY <1>2, RangeAppend DEF invokeAndWait
  <2>2. Waiting' = Waiting /\ Submitted' = Submitted \cup {r} /\ direct' = direct \cup {r}
    BY <1>2, <2>1 DEF invokeAndWait
  <2>3. r \notin Waiting BY <1>2 DEF invokeAndWait, Fresh
  <2>. QED BY <1>2, <2>2, <2>3 DEF invokeAndWait
<1>3. ASSUME NEW r \in Runnables, CallerReturns(r)
      PROVE OnePlace' /\ RechecksOnce'
  BY <1>3 DEF CallerReturns
<1>4. CASE TakeFirst
  <2>1. SeqRange(deque) = SeqRange(deque') \cup {cur'} /\ cur' = deque[1]
        /\ Len(deque') = Len(deque) - 1 /\ \A i \in 1..Len(deque') : deque'[i] = deque[i + 1]
    BY <1>4, RangeTail DEF TakeFirst
  <2>2. ASSUME NEW i \in 1..Len(deque') PROVE deque'[i] # cur'
    <3>1. i + 1 \in 1..Len(deque) /\ 1 \in 1..Len(deque) /\ i + 1 # 1
      BY <2>1
    <3>. QED BY <2>1, <3>1
  <2>3. ASSUME NEW i \in 1..Len(deque'), NEW j \in 1..Len(deque'), deque'[i] = deque'[j]
        PROVE  i = j
    <3>1. i + 1 \in 1..Len(deque) /\ j + 1 \in 1..Len(deque) BY <2>1
    <3>2. deque[i + 1] = deque[j + 1] BY <2>1, <2>3
    <3>3. i + 1 = j + 1 BY <3>1, <3>2
    <3>. QED BY <3>3
  <2>4. Waiting' = Waiting /\ Submitted' = Submitted BY <1>4, <2>1 DEF TakeFirst
  <2>5. cur' \notin SeqRange(deque') BY <2>2 DEF SeqRange
  <2>. QED BY <1>4, <2>3, <2>4, <2>5 DEF TakeFirst
<1>5. CASE CheckLeaving
  <2>1. CASE leavingNestedEventLoop
    <3>1. deque' = <<cur>> \o deque /\ cur \in Tasks /\ cur \notin SeqRange(deque)
      BY <1>5, <2>1 DEF CheckLeaving, putBack
    <3>2. /\ SeqRange(deque') = SeqRange(deque) \cup {cur} /\ Len(deque') = Len(deque) + 1
          /\ \A i \in 1..Len(deque') : deque'[i] = IF i = 1 THEN cur ELSE deque[i - 1]
      BY <3>1, RangeCons
    <3>3. ASSUME NEW i \in 1..Len(deque'), NEW j \in 1..Len(deque'), deque'[i] = deque'[j]
          PROVE  i = j
      <4>1. Len(deque) \in Nat /\ \A n \in 1..Len(deque) : deque[n] # cur
        BY <3>1 DEF SeqRange
      <4>2. i = 1 \/ i - 1 \in 1..Len(deque) BY <3>2, <4>1
      <4>3. j = 1 \/ j - 1 \in 1..Len(deque) BY <3>2, <4>1
      <4>4. CASE i = 1
        <5>1. deque'[j] = cur /\ deque'[j] = IF j = 1 THEN cur ELSE deque[j - 1]
          BY <3>2, <3>3, <4>4
        <5>. QED BY <4>1, <4>3, <4>4, <5>1
      <4>6. CASE j = 1
        <5>1. deque'[i] = cur /\ deque'[i] = IF i = 1 THEN cur ELSE deque[i - 1]
          BY <3>2, <3>3, <4>6
        <5>. QED BY <4>1, <4>2, <4>6, <5>1
      <4>5. CASE i # 1 /\ j # 1
        <5>1. deque[i - 1] = deque[j - 1] BY <3>2, <3>3, <4>5
        <5>2. i - 1 = j - 1 BY <4>2, <4>3, <4>5, <5>1
        <5>. QED BY <5>2
      <4>. QED BY <4>4, <4>5, <4>6
    <3>4. Waiting' = Waiting /\ Submitted' = Submitted BY <1>5, <2>1, <3>2 DEF CheckLeaving
    <3>. QED BY <1>5, <2>1, <3>3, <3>4 DEF CheckLeaving
  <2>2. CASE ~leavingNestedEventLoop BY <1>5, <2>2 DEF CheckLeaving
  <2>. QED BY <2>1, <2>2
<1>6. CASE WaitUntilLeft
  BY <1>6 DEF WaitUntilLeft
<1>7. CASE submitForLaterInvocation
  <2>1. cur \in Tasks BY <1>7 DEF submitForLaterInvocation
  <2>2. SeqRange(native') = SeqRange(native) \cup {cur}
    BY <1>7, <2>1, RangeAppend DEF submitForLaterInvocation
  <2>3. /\ Waiting = SeqRange(deque) \cup {cur} /\ Waiting' = SeqRange(deque)
        /\ Submitted' = Submitted \cup {cur}
    BY <1>7, <2>2 DEF submitForLaterInvocation
  <2>. QED BY <1>7, <2>3 DEF submitForLaterInvocation
<1>8. CASE AwaitFuture
  BY <1>8 DEF AwaitFuture
<1>9. CASE HandleEvent
  <2>1. SeqRange(handlers') = SeqRange(handlers) \cup {Event}
    BY <1>9, RangeAppend DEF HandleEvent
  <2>2. Waiting' = Waiting /\ Submitted' = Submitted \cup {Event} BY <1>9, <2>1 DEF HandleEvent
  <2>3. SeqRange(posted) \subseteq Tasks BY DEF SeqRange
  <2>4. Event \notin Waiting BY <2>3, TaskFacts
  <2>. QED BY <1>9, <2>2, <2>4 DEF HandleEvent
<1>10. CASE RunRunnable
  <2>1. SeqRange(native) = SeqRange(native') \cup {Head(native)}
    BY <1>10, RangeTail DEF RunRunnable, DispatchNative
  <2>2. SeqRange(handlers') = SeqRange(handlers) \cup {Head(native)}
    BY <1>10, RangeAppend DEF RunRunnable
  <2>3. Waiting' = Waiting /\ Submitted' = Submitted BY <1>10, <2>1, <2>2 DEF RunRunnable
  <2>. QED BY <1>10, <2>3 DEF RunRunnable
<1>11. CASE RunRecheck
  <2>1. SeqRange(native) = SeqRange(native') \cup {Head(native)}
    BY <1>11, RangeTail DEF RunRecheck, DispatchNative
  <2>2. Waiting' = Waiting /\ Submitted' = Submitted BY <1>11, <2>1 DEF RunRecheck
  <2>. QED BY <1>11, <2>2 DEF RunRecheck
<1>12. CASE HandlerReturns
  <2>1. Len(handlers) > 0 BY <1>12 DEF HandlerReturns, InNativeLoop
  <2>2. SeqRange(handlers) = SeqRange(handlers') \cup {handlers[Len(handlers)]}
    BY <1>12, <2>1, RangeFront DEF HandlerReturns
  <2>3. Waiting' = Waiting /\ Submitted' \subseteq Submitted BY <1>12, <2>2 DEF HandlerReturns
  <2>. QED BY <1>12, <2>3 DEF HandlerReturns
<1>13. ASSUME NEW l \in Loops, enter(l) PROVE OnePlace' /\ RechecksOnce'
  BY <1>13 DEF enter, InNativeLoop, notifyEnteringNestedEventLoop
<1>14. ASSUME NEW l \in Loops, leave(l) PROVE OnePlace' /\ RechecksOnce'
  BY <1>14 DEF leave, InNativeLoop, IsInnermost, Innermost,
     leaveNestedEventLoop, notifyLeavingNestedEventLoop
<1>15. CASE LoopReturns
  <2>1. Len(stack) > 0 /\ Innermost \in Loops /\ Innermost \in quit
    BY <1>15 DEF LoopReturns, LoopEnds, Quitting, Innermost
  <2>. DEFINE k == Recheck(Innermost)
  <2>2. k \notin SeqRange(posted) /\ k \notin direct /\ k # Event /\ k \in Tasks
    BY <2>1, TaskFacts DEF OnlyLeavingLoopsReturn
  <2>3. state' = [state EXCEPT ![Innermost] = "IDLE"] BY <1>15 DEF LoopReturns
  <2>. HIDE DEF k
  <2>4. CASE OuterLoopLeaving
    <3>1. deque' = Append(deque, k) /\ posted' = Append(posted, k)
      BY <1>15, <2>4 DEF LoopReturns, invokeLater, k
    <3>2. SeqRange(deque') = SeqRange(deque) \cup {k} /\ SeqRange(posted') = SeqRange(posted) \cup {k}
      BY <3>1, RangeAppend
    <3>3. Waiting' = Waiting \cup {k} /\ Submitted' = Submitted BY <1>15, <3>2 DEF LoopReturns
    <3>4. k \notin Waiting \cup Submitted \cup direct \cup SeqRange(deque) BY <2>2
    <3>5. dpc \in {"check", "submit"} => k # cur BY <2>2
    <3>6. \A i, j \in 1..Len(deque') : deque'[i] = deque'[j] => i = j
      BY <3>1, <3>4 DEF SeqRange
    <3>7. OnePlace' BY <1>15, <3>2, <3>3, <3>4, <3>5, <3>6 DEF LoopReturns
    <3>8. \A l \in Loops : Recheck(l) = k => l = Innermost BY <2>1, TaskFacts DEF k
    <3>9. RechecksOnce' BY <2>1, <2>3, <3>2, <3>8
    <3>. QED BY <3>7, <3>9
  <2>5. CASE ~OuterLoopLeaving
    <3>1. deque' = deque /\ posted' = posted BY <1>15, <2>5 DEF LoopReturns
    <3>2. Waiting' = Waiting /\ Submitted' = Submitted BY <1>15, <3>1 DEF LoopReturns
    <3>3. RechecksOnce' BY <2>1, <2>3, <3>1
    <3>. QED BY <1>15, <3>1, <3>2, <3>3 DEF LoopReturns
  <2>. QED BY <2>4, <2>5
<1>16. CASE UNCHANGED vars
  BY <1>16 DEF vars
<1>. QED
  BY <1>1, <1>2, <1>3, <1>4, <1>5, <1>6, <1>7, <1>8, <1>9, <1>10, <1>11,
     <1>12, <1>13, <1>14, <1>15, <1>16 DEF Next

\* The dispatcher is told when the Future it waits for is suspended.
LEMMA MovesOnStep ==
  ASSUME TypeOK, OnePlace, DispatcherMovesOn, [Next]_vars
  PROVE  DispatcherMovesOn'
<1> USE DEF TypeOK, DispatcherMovesOn, dispatcherVars, nativeVars, waitVars, loopVars, history
<1>1. ASSUME NEW r \in Runnables, PostRunnable(r) PROVE DispatcherMovesOn'
  BY <1>1 DEF PostRunnable, invokeLater, Fresh, SeqRange
<1>2. ASSUME NEW r \in Runnables, invokeAndWait(r) PROVE DispatcherMovesOn'
  <2>1. SeqRange(native') = SeqRange(native) \cup {r} BY <1>2, RangeAppend DEF invokeAndWait
  <2>. QED BY <1>2, <2>1 DEF invokeAndWait
<1>3. ASSUME NEW r \in Runnables, CallerReturns(r) PROVE DispatcherMovesOn'
  BY <1>3 DEF CallerReturns, SeqRange
<1>4. CASE TakeFirst
  BY <1>4 DEF TakeFirst, SeqRange
<1>5. CASE CheckLeaving
  BY <1>5 DEF CheckLeaving, putBack, SeqRange
<1>6. CASE WaitUntilLeft
  BY <1>6 DEF WaitUntilLeft, SeqRange
<1>7. CASE submitForLaterInvocation
  <2>1. cur \in Waiting /\ cur \in Tasks BY <1>7 DEF submitForLaterInvocation, Waiting
  <2>2. SeqRange(native') = SeqRange(native) \cup {cur}
    BY <1>7, <2>1, RangeAppend DEF submitForLaterInvocation
  <2>3. cur \notin SeqRange(handlers) BY <2>1 DEF OnePlace, Submitted
  <2>4. \A i \in 1..Len(stack) : handlers[i] # cur BY <2>3 DEF SeqRange
  <2>. QED BY <1>7, <2>2, <2>4 DEF submitForLaterInvocation
<1>8. CASE AwaitFuture
  BY <1>8 DEF AwaitFuture, SeqRange
<1>9. CASE HandleEvent
  <2>1. SeqRange(handlers') = SeqRange(handlers) \cup {Event}
    BY <1>9, RangeAppend DEF HandleEvent
  <2>2. \A i \in 1..Len(stack) : handlers'[i] = handlers[i]
    BY <1>9 DEF HandleEvent, InNativeLoop
  <2>. QED BY <1>9, <2>1, <2>2 DEF HandleEvent
<1>10. CASE RunRunnable
  <2>1. SeqRange(native) = SeqRange(native') \cup {Head(native)}
    BY <1>10, RangeTail DEF RunRunnable, DispatchNative
  <2>2. SeqRange(handlers') = SeqRange(handlers) \cup {Head(native)}
    BY <1>10, RangeAppend DEF RunRunnable
  <2>3. \A i \in 1..Len(stack) : handlers'[i] = handlers[i]
    BY <1>10 DEF RunRunnable, DispatchNative, InNativeLoop
  <2>. QED BY <1>10, <2>1, <2>2, <2>3 DEF RunRunnable
<1>11. CASE RunRecheck
  <2>1. SeqRange(native) = SeqRange(native') \cup {Head(native)}
    BY <1>11, RangeTail DEF RunRecheck, DispatchNative
  <2>. QED BY <1>11, <2>1 DEF RunRecheck
<1>12. CASE HandlerReturns
  <2>1. Len(handlers) = Len(stack) + 1 BY <1>12 DEF HandlerReturns, InNativeLoop
  <2>2. /\ SeqRange(handlers) = SeqRange(handlers') \cup {handlers[Len(handlers)]}
        /\ \A i \in 1..Len(stack) : handlers'[i] = handlers[i]
    <3>1. Len(handlers) > 0 /\ Len(stack) = Len(handlers) - 1 BY <2>1
    <3>. QED BY <1>12, <3>1, RangeFront DEF HandlerReturns
  <2>3. dpc = "await" => cur # Event BY TaskFacts
  <2>. QED BY <1>12, <2>2, <2>3 DEF HandlerReturns
<1>13. ASSUME NEW l \in Loops, enter(l) PROVE DispatcherMovesOn'
  BY <1>13 DEF enter, notifyEnteringNestedEventLoop, SeqRange
<1>14. ASSUME NEW l \in Loops, leave(l) PROVE DispatcherMovesOn'
  BY <1>14 DEF leave, InNativeLoop, IsInnermost, Innermost,
     leaveNestedEventLoop, notifyLeavingNestedEventLoop, SeqRange
<1>15. CASE LoopReturns
  <2>1. Len(stack') = Len(stack) - 1 /\ Len(stack) \in Nat
    BY <1>15, RangeFront DEF LoopReturns, LoopEnds, Quitting
  <2>2. \A i \in 1..Len(stack') : i \in 1..Len(stack) BY <2>1
  <2>. QED BY <1>15, <2>2 DEF LoopReturns, SeqRange
<1>16. CASE UNCHANGED vars
  BY <1>16 DEF vars, SeqRange
<1>. QED
  BY <1>1, <1>2, <1>3, <1>4, <1>5, <1>6, <1>7, <1>8, <1>9, <1>10, <1>11,
     <1>12, <1>13, <1>14, <1>15, <1>16 DEF Next

-----------------------------------------------------------------------------
\* The invariant holds in every reachable state: nested loops return only when
\* told to, from the inside out; runnables are held back only while a loop is
\* on its way out; and the dispatcher never waits for a suspended runnable.
THEOREM LoopsSafe ==
  Spec => [](TypeOK /\ OnlyLeavingLoopsReturn /\ LeavingFlagEnds /\ DispatcherMovesOn)
<1>1. Init => LoopInv
  <2>1. SUFFICES ASSUME Init PROVE LoopInv OBVIOUS
  <2>2. \A s : s = <<>> => SeqRange(s) = {} BY DEF SeqRange
  <2>3. TypeOK
    <3>1. \A S : <<>> \in Seq(S) OBVIOUS
    <3>2. Len(native) = 0 /\ Len(handlers) = 0 /\ Len(stack) = 0 BY <2>1 DEF Init
    <3>3. state \in [Loops -> LoopStates] BY <2>1 DEF Init, LoopStates
    <3>4. /\ deque \in Seq(Tasks) /\ native \in Seq(Tasks) /\ stack \in Seq(Loops)
          /\ handlers \in Seq(Runnables \cup {Event})
          /\ posted \in Seq(Tasks) /\ started \in Seq(Tasks)
      BY <2>1, <3>1 DEF Init
    <3>5. ready \in 0..Len(native) /\ Len(handlers) - Len(stack) \in {0, 1}
      BY <2>1, <3>2 DEF Init
    <3>6. /\ nestedEventLoopEntered \in BOOLEAN /\ leavingNestedEventLoop \in BOOLEAN
          /\ reentered \in BOOLEAN
          /\ done \subseteq Tasks /\ callers \subseteq direct
          /\ direct \subseteq Runnables /\ quit \subseteq Loops
          /\ cur \in Tasks \cup {None} /\ eventLoopExitEnterPassValue \in Loops \cup {None}
      BY <2>1 DEF Init
    <3>7. cur = None /\ dpc = "take" BY <2>1 DEF Init
    <3>. QED BY <3>3, <3>4, <3>5, <3>6, <3>7 DEF TypeOK
  <2>4. OnePlace BY <2>1, <2>2 DEF Init, OnePlace, Waiting, Submitted
  <2>5. RechecksOnce BY <2>1, <2>2 DEF Init, RechecksOnce
  <2>6. OnlyLeavingLoopsReturn BY <2>1, <2>2 DEF Init, OnlyLeavingLoopsReturn
  <2>7. LeavingFlagEnds /\ DispatcherMovesOn BY <2>1 DEF Init, LeavingFlagEnds, DispatcherMovesOn
  <2>. QED BY <2>3, <2>4, <2>5, <2>6, <2>7 DEF LoopInv
<1>2. LoopInv /\ [Next]_vars => LoopInv'
  BY TypeStep, LoopStep, PlaceStep, MovesOnStep DEF LoopInv
<1>3. LoopInv => TypeOK /\ OnlyLeavingLoopsReturn /\ LeavingFlagEnds /\ DispatcherMovesOn
  BY DEF LoopInv
<1>. QED BY <1>1, <1>2, <1>3, PTL DEF Spec

\* The one loop that was told to quit is the innermost, and the pass value is its.
PassValueFits ==
    quit # {} /\ ~reentered => /\ stack # <<>> /\ quit = {Innermost}
                               /\ eventLoopExitEnterPassValue = Innermost

\* As long as no handler enters a loop after leaving its own, this is kept.
LEMMA PassValueStep ==
  ASSUME TypeOK, OnlyLeavingLoopsReturn, PassValueFits, [Next]_vars
  PROVE  PassValueFits'
<1> USE DEF TypeOK, PassValueFits, loopVars, Innermost
<1>1. ASSUME NEW r \in Runnables, PostRunnable(r) PROVE PassValueFits'
  BY <1>1 DEF PostRunnable
<1>2. ASSUME NEW r \in Runnables, invokeAndWait(r) PROVE PassValueFits'
  BY <1>2 DEF invokeAndWait
<1>3. ASSUME NEW r \in Runnables, CallerReturns(r) PROVE PassValueFits'
  BY <1>3 DEF CallerReturns
<1>4. CASE TakeFirst
  BY <1>4 DEF TakeFirst
<1>5. CASE CheckLeaving
  BY <1>5 DEF CheckLeaving
<1>6. CASE WaitUntilLeft
  BY <1>6 DEF WaitUntilLeft
<1>7. CASE submitForLaterInvocation
  BY <1>7 DEF submitForLaterInvocation
<1>8. CASE AwaitFuture
  BY <1>8 DEF AwaitFuture
<1>9. CASE HandleEvent
  BY <1>9 DEF HandleEvent
<1>10. CASE RunRunnable
  BY <1>10 DEF RunRunnable
<1>11. CASE RunRecheck
  BY <1>11 DEF RunRecheck, leaveNestedEventLoop
<1>12. CASE HandlerReturns
  BY <1>12 DEF HandlerReturns
<1>13. ASSUME NEW l \in Loops, enter(l) PROVE PassValueFits'
  <2>1. reentered' \/ quit = {} BY <1>13 DEF enter, Quitting
  <2>. QED BY <1>13, <2>1 DEF enter
<1>14. ASSUME NEW l \in Loops, leave(l) PROVE PassValueFits'
  <2>1. \E i \in 1..Len(stack) : stack[i] = l
    BY <1>14 DEF leave, OnlyLeavingLoopsReturn, SeqRange
  <2>2. stack # <<>> BY <2>1
  <2>. QED BY <1>14, <2>2 DEF leave, IsInnermost, leaveNestedEventLoop
<1>15. CASE LoopReturns
  <2>1. reentered' = reentered BY <1>15 DEF LoopReturns
  <2>2. reentered \/ quit' = {} BY <1>15 DEF LoopReturns, LoopEnds, Quitting
  <2>. QED BY <2>1, <2>2
<1>16. CASE UNCHANGED vars
  BY <1>16 DEF vars
<1>. QED
  BY <1>1, <1>2, <1>3, <1>4, <1>5, <1>6, <1>7, <1>8, <1>9, <1>10, <1>11,
     <1>12, <1>13, <1>14, <1>15, <1>16 DEF Next

\* EventLoop.enter gets its own loop back from the native loop, for any number
\* of loops and runnables, unless a handler enters a loop after leaving its own.
THEOREM OwnLoopReturned == Spec => []ReturnsOwnLoop
<1>1. Init => PassValueFits BY DEF Init, PassValueFits
<1>2. TypeOK /\ OnlyLeavingLoopsReturn /\ PassValueFits /\ [Next]_vars => PassValueFits'
  BY PassValueStep
<1>3. PassValueFits => ReturnsOwnLoop BY DEF PassValueFits, ReturnsOwnLoop, LoopEnds, Quitting
<1>. QED BY <1>1, <1>2, <1>3, LoopsSafe, PTL DEF Spec

\* A nested loop returns only after leave() was called on it, and runnables
\* are held back only while a loop is on its way out.
THEOREM LoopsStayConsistent == Spec => []LoopsConsistent
<1>1. TypeOK /\ OnlyLeavingLoopsReturn /\ LeavingFlagEnds => LoopsConsistent
  BY DEF LoopsConsistent
<1>. QED BY <1>1, LoopsSafe, PTL

-----------------------------------------------------------------------------
(* The order of the runnables.                                             *)

\* Concatenation is associative, and Append and Head take it apart.
LEMMA Concatenations ==
  ASSUME NEW S, NEW a \in Seq(S), NEW b \in Seq(S), NEW c \in Seq(S), NEW x \in S
  PROVE  /\ a \o b \in Seq(S) /\ <<x>> \in Seq(S)
         /\ (a \o b) \o c = a \o (b \o c)
         /\ Append(a, x) = a \o <<x>>
         /\ a \o <<>> = a
         /\ a # <<>> => a = <<Head(a)>> \o Tail(a)
<1>1. a \o b \in Seq(S) /\ <<x>> \in Seq(S)
  OBVIOUS
<1>2. (a \o b) \o c = a \o (b \o c)
  BY ConcatAssociative
<1>3. Append(a, x) = a \o <<x>>
  OBVIOUS
<1>4. a \o <<>> = a
  BY ConcatEmptySeq
<1>5. a # <<>> => a = <<Head(a)>> \o Tail(a)
  OBVIOUS
<1>. QED BY <1>1, <1>2, <1>3, <1>4, <1>5

LEMMA TasksAssociate ==
  \A a, b, c \in Seq(Tasks) : (a \o b) \o c = a \o (b \o c) /\ a \o b \in Seq(Tasks)
  BY ConcatAssociative, ConcatProperties

\* The same as named facts about given sequences, which the provers find
\* without looking into what concatenation is.
Associates(a, b, c) == (a \o b) \o c = a \o (b \o c)

LEMMA TasksAssociates == \A a, b, c \in Seq(Tasks) : Associates(a, b, c)
  BY TasksAssociate, Zenon DEF Associates

\* Four sequences of tasks joined in either of two ways.
Regroups(a, g, r, d) == (a \o (g \o r)) \o d = (a \o g) \o (r \o d)

LEMMA TasksRegroup ==
  \A a, g, r, d \in Seq(Tasks) : Regroups(a, g, r, d)
<1>. SUFFICES ASSUME NEW a \in Seq(Tasks), NEW g \in Seq(Tasks), NEW r \in Seq(Tasks),
                     NEW d \in Seq(Tasks)
              PROVE  (a \o (g \o r)) \o d = (a \o g) \o (r \o d)
  BY DEF Regroups
<1>1. (a \o g) \o r = a \o (g \o r)
  BY ConcatAssociative
<1>2. a \o g \in Seq(Tasks)
  BY TasksAssociate, Zenon
<1>3. ((a \o g) \o r) \o d = (a \o g) \o (r \o d)
  <2>. DEFINE x == a \o g
  <2>1. x \in Seq(Tasks)
    BY <1>2
  <2>. HIDE DEF x
  <2>2. (x \o r) \o d = x \o (r \o d)
    BY <2>1, TasksAssociate, Zenon
  <2>. QED BY <2>2 DEF x
<1>. QED BY <1>1, <1>3

\* t stands before u in s.
Before(s, t, u) ==
    \E i, j \in 1..Len(s) : i < j /\ s[i] = t /\ s[j] = u

\* An element put in between leaves the others in their order.
LEMMA Inserted ==
  ASSUME NEW S, NEW a \in Seq(S), NEW b \in Seq(S), NEW x \in S
  PROVE  LET s == a \o b
             t == (a \o <<x>>) \o b
         IN  /\ SeqRange(t) = SeqRange(s) \cup {x}
             /\ \A y, z : Before(s, y, z) => Before(t, y, z)
             /\ \A y, z : Before(t, y, z) /\ y # x /\ z # x => Before(s, y, z)
<1>. DEFINE s == a \o b
            t == (a \o <<x>>) \o b
            n == Len(a)
            m == Len(b)
<1>1. /\ n \in Nat /\ m \in Nat /\ Len(s) = n + m /\ Len(t) = n + m + 1
      /\ \A i \in 1..n : s[i] = a[i] /\ t[i] = a[i]
      /\ t[n + 1] = x
      /\ \A i \in 1..m : s[n + i] = b[i] /\ t[n + 1 + i] = b[i]
  OBVIOUS
<1>. HIDE DEF s, t, n, m
<1>2. ASSUME NEW i \in 1..Len(s)
      PROVE  \/ i <= n /\ i \in 1..Len(t) /\ t[i] = s[i]
             \/ i > n /\ i + 1 \in 1..Len(t) /\ t[i + 1] = s[i]
  <2>1. CASE i <= n
    BY <1>1, <2>1
  <2>2. CASE i > n
    <3>. DEFINE k == i - n
    <3>1. k \in 1..m /\ n + k = i /\ n + 1 + k = i + 1
      BY <1>1, <2>2
    <3>. HIDE DEF k
    <3>2. s[n + k] = b[k] /\ t[n + 1 + k] = b[k]
      BY <1>1, <3>1
    <3>3. t[i + 1] = s[i]
      BY <3>1, <3>2
    <3>4. i + 1 \in 1..Len(t)
      BY <1>1
    <3>. QED BY <2>2, <3>3, <3>4
  <2>. QED BY <1>1, <2>1, <2>2
<1>3. ASSUME NEW i \in 1..Len(t), t[i] # x
      PROVE  \/ i <= n /\ i \in 1..Len(s) /\ s[i] = t[i]
             \/ i > n + 1 /\ i - 1 \in 1..Len(s) /\ s[i - 1] = t[i]
  <2>1. CASE i <= n
    BY <1>1, <2>1
  <2>2. CASE i > n + 1
    <3>1. i - n - 1 \in 1..m /\ n + (i - n - 1) = i - 1 /\ n + 1 + (i - n - 1) = i
      BY <1>1, <2>2
    <3>2. s[i - 1] = b[i - n - 1] /\ t[i] = b[i - n - 1]
      BY <1>1, <3>1
    <3>3. i - 1 \in 1..Len(s)
      BY <1>1, <2>2
    <3>. QED BY <2>2, <3>2, <3>3
  <2>3. i # n + 1
    BY <1>1, <1>3
  <2>4. i <= n \/ i > n + 1
    BY <1>1, <2>3
  <2>. QED BY <2>1, <2>2, <2>4
<1>4. SeqRange(t) = SeqRange(s) \cup {x}
  <2>1. ASSUME NEW y \in SeqRange(t) PROVE y \in SeqRange(s) \cup {x}
    BY <1>3 DEF SeqRange
  <2>2. ASSUME NEW y \in SeqRange(s) PROVE y \in SeqRange(t)
    BY <1>2 DEF SeqRange
  <2>3. n + 1 \in 1..Len(t)
    BY <1>1
  <2>4. x \in SeqRange(t)
    BY <1>1, <2>3 DEF SeqRange
  <2>. QED BY <2>1, <2>2, <2>4
<1>5. ASSUME NEW y, NEW z, Before(s, y, z) PROVE Before(t, y, z)
  <2>1. PICK i, j \in 1..Len(s) : i < j /\ s[i] = y /\ s[j] = z
    BY <1>5 DEF Before
  <2>2. \E k, l \in 1..Len(t) : k < l /\ t[k] = y /\ t[l] = z
    <3>1. CASE j <= n
      <4>1. i \in 1..Len(t) /\ t[i] = s[i] /\ j \in 1..Len(t) /\ t[j] = s[j]
        BY <1>1, <1>2, <2>1, <3>1
      <4>. QED BY <2>1, <4>1
    <3>2. CASE i <= n /\ j > n
      <4>1. i \in 1..Len(t) /\ t[i] = s[i] /\ j + 1 \in 1..Len(t) /\ t[j + 1] = s[j]
        BY <1>1, <1>2, <2>1, <3>2
      <4>. QED BY <2>1, <4>1
    <3>3. CASE i > n
      <4>1. /\ i + 1 \in 1..Len(t) /\ t[i + 1] = s[i]
            /\ j + 1 \in 1..Len(t) /\ t[j + 1] = s[j]
        BY <1>1, <1>2, <2>1, <3>3
      <4>. QED BY <2>1, <4>1
    <3>. QED BY <1>1, <2>1, <3>1, <3>2, <3>3
  <2>. QED BY <2>2 DEF Before
<1>6. ASSUME NEW y, NEW z, Before(t, y, z), y # x, z # x PROVE Before(s, y, z)
  <2>1. PICK i, j \in 1..Len(t) : i < j /\ t[i] = y /\ t[j] = z
    BY <1>6 DEF Before
  <2>2. \E k, l \in 1..Len(s) : k < l /\ s[k] = y /\ s[l] = z
    <3>1. CASE j <= n
      BY <1>1, <1>3, <1>6, <2>1, <3>1
    <3>2. CASE i <= n /\ j > n
      BY <1>1, <1>3, <1>6, <2>1, <3>2
    <3>3. CASE i > n
      BY <1>1, <1>3, <1>6, <2>1, <3>3
    <3>. QED BY <1>1, <2>1, <3>1, <3>2, <3>3
  <2>. QED BY <2>2 DEF Before
<1>. QED BY <1>4, <1>5, <1>6 DEF s, t

InsertedIn(a, b, x) ==
    /\ SeqRange((a \o <<x>>) \o b) = SeqRange(a \o b) \cup {x}
    /\ \A y, z : Before(a \o b, y, z) => Before((a \o <<x>>) \o b, y, z)
    /\ \A y, z : Before((a \o <<x>>) \o b, y, z) /\ y # x /\ z # x =>
                    Before(a \o b, y, z)

LEMMA InsertedTask ==
  \A a, b \in Seq(Tasks), x \in Tasks : InsertedIn(a, b, x)
  BY Inserted DEF InsertedIn

\* Appending adds what comes after everything.
LEMMA Appended ==
  ASSUME NEW S, NEW s \in Seq(S), NEW x \in S
  PROVE  /\ \A y, z : Before(s, y, z) => Before(Append(s, x), y, z)
         /\ \A y \in SeqRange(s) : Before(Append(s, x), y, x)
         /\ \A y, z : Before(Append(s, x), y, z) =>
              Before(s, y, z) \/ (z = x /\ y \in SeqRange(s))
<1>. DEFINE t == Append(s, x)
<1>1. /\ Len(s) \in Nat /\ Len(t) = Len(s) + 1 /\ t[Len(s) + 1] = x
      /\ \A i \in 1..Len(s) : t[i] = s[i]
  OBVIOUS
<1>. HIDE DEF t
<1>2. \A i \in 1..Len(s) : i \in 1..Len(t) /\ i < Len(s) + 1
  BY <1>1
<1>3. Len(s) + 1 \in 1..Len(t)
  BY <1>1
<1>4. \A y, z : Before(s, y, z) => Before(t, y, z)
  BY <1>1, <1>2 DEF Before
<1>5. \A y \in SeqRange(s) : Before(t, y, x)
  BY <1>1, <1>2, <1>3 DEF Before, SeqRange
<1>6. ASSUME NEW y, NEW z, Before(t, y, z)
      PROVE  Before(s, y, z) \/ (z = x /\ y \in SeqRange(s))
  <2>1. PICK i, j \in 1..Len(t) : i < j /\ t[i] = y /\ t[j] = z
    BY <1>6 DEF Before
  <2>2. i \in 1..Len(s) /\ (j \in 1..Len(s) \/ j = Len(s) + 1)
    BY <1>1, <2>1
  <2>. QED BY <1>1, <2>1, <2>2 DEF Before, SeqRange
<1>. QED BY <1>4, <1>5, <1>6 DEF t

LineInOrder ==
    /\ SeqRange(posted) = SeqRange(Line) \ direct
    /\ \A t, u : Before(Line, t, u) /\ t \notin direct /\ u \notin direct =>
                     Before(posted, t, u)

\* The parts of the line are sequences of tasks.
LEMMA LineType ==
  ASSUME TypeOK
  PROVE  /\ Taken \in Seq(Tasks) /\ Line \in Seq(Tasks)
         /\ started \o native \in Seq(Tasks)
         /\ started \o native \o Taken \in Seq(Tasks)
<1>1. Taken \in Seq(Tasks)
  <2>1. CASE dpc \in {"check", "submit"}
    <3>1. cur \in Tasks
      BY <2>1 DEF TypeOK
    <3>. QED BY <2>1, <3>1 DEF Taken
  <2>2. CASE dpc \notin {"check", "submit"}
    BY <2>2 DEF Taken
  <2>. QED BY <2>1, <2>2
<1>2. /\ started \in Seq(Tasks) /\ native \in Seq(Tasks) /\ deque \in Seq(Tasks)
  BY DEF TypeOK
<1>3. started \o native \in Seq(Tasks)
  BY <1>2, ConcatProperties
<1>4. (started \o native) \o Taken \in Seq(Tasks)
  BY <1>1, <1>3, ConcatProperties
<1>5. Line \in Seq(Tasks)
  BY <1>2, <1>4, ConcatProperties DEF Line
<1>. QED BY <1>1, <1>3, <1>4, <1>5

LEMMA LineOrder == TypeOK => (LineInOrder <=> RunsInPostedOrder)
<1>. SUFFICES ASSUME TypeOK PROVE LineInOrder <=> RunsInPostedOrder
  OBVIOUS
<1>1. DOMAIN Line = 1..Len(Line) /\ DOMAIN posted = 1..Len(posted)
  BY LineType, LenProperties DEF TypeOK
<1>2. \A t, u : PostedBefore(t, u) <=> Before(posted, t, u)
  BY <1>1 DEF PostedBefore, Before
<1>. QED BY <1>1, <1>2 DEF LineInOrder, RunsInPostedOrder, Before

\* A task that is posted comes last.
LEMMA PostedLast ==
  ASSUME TypeOK, LineInOrder, NEW k \in Tasks \ direct,
         invokeLater(k), UNCHANGED <<started, native, dpc, cur, direct>>
  PROVE  LineInOrder'
<1>1. Line' = Append(Line, k)
  <2>1. deque \in Seq(Tasks) /\ started \o native \o Taken \in Seq(Tasks)
    BY LineType DEF TypeOK
  <2>2. <<k>> \in Seq(Tasks) /\ Append(deque, k) = deque \o <<k>>
    BY <2>1, Concatenations
  <2>3. (started \o native \o Taken) \o (deque \o <<k>>) = Line \o <<k>>
    BY <2>1, <2>2, TasksAssociate DEF Line
  <2>4. Line \o <<k>> = Append(Line, k)
    BY LineType, Concatenations
  <2>5. Line' = (started \o native \o Taken) \o Append(deque, k)
    BY DEF Line, Taken, invokeLater
  <2>. QED BY <2>2, <2>3, <2>4, <2>5
<1>2. posted' = Append(posted, k) /\ posted \in Seq(Tasks)
  BY DEF invokeLater, TypeOK
<1>3. SeqRange(posted') = SeqRange(posted) \cup {k}
  BY <1>2, RangeAppend
<1>4. SeqRange(Line') = SeqRange(Line) \cup {k}
  BY <1>1, LineType, RangeAppend
<1>5. ASSUME NEW t, NEW u, Before(Line', t, u), t \notin direct, u \notin direct
      PROVE  Before(posted', t, u)
  <2>1. Before(Line, t, u) \/ (u = k /\ t \in SeqRange(Line))
    BY <1>1, <1>5, LineType, Appended
  <2>2. CASE Before(Line, t, u)
    BY <1>2, <1>5, <2>2, Appended DEF LineInOrder
  <2>3. CASE u = k /\ t \in SeqRange(Line)
    BY <1>2, <1>5, <2>3, Appended DEF LineInOrder
  <2>. QED BY <2>1, <2>2, <2>3
<1>. QED BY <1>3, <1>4, <1>5 DEF LineInOrder

\* A step that moves a task along the line keeps it.
LEMMA SameLine ==
  ASSUME LineInOrder, Line' = Line, UNCHANGED <<posted, direct>>
  PROVE  LineInOrder'
  BY DEF LineInOrder

\* The native loop takes the first of its queue.
LEMMA DispatchedInOrder ==
  ASSUME TypeOK, LineInOrder, DispatchNative,
         UNCHANGED <<deque, dpc, cur, posted, direct>>
  PROVE  LineInOrder'
<1>. DEFINE h == Head(native)
            r == Tail(native)
            d == Taken \o deque
<1>1. /\ native = <<h>> \o r /\ r \in Seq(Tasks) /\ h \in Tasks
      /\ <<h>> \in Seq(Tasks)
  BY RangeTail, Concatenations DEF DispatchNative, TypeOK
<1>2. /\ started \in Seq(Tasks) /\ native \in Seq(Tasks) /\ d \in Seq(Tasks)
      /\ deque \in Seq(Tasks) /\ Taken \in Seq(Tasks)
  BY LineType, ConcatProperties DEF TypeOK
<1>3. native' = r /\ started' \in {started, Append(started, h)}
      /\ (h \notin direct => started' = Append(started, h))
      /\ (h \in direct => started' = started)
  BY DEF DispatchNative
<1>4. Taken' = Taken
  BY DEF Taken
<1>d. \A a \in Seq(Tasks) : (a \o Taken) \o deque = a \o d
  <2>. SUFFICES ASSUME NEW a \in Seq(Tasks) PROVE (a \o Taken) \o deque = a \o d
    OBVIOUS
  <2>1. Associates(a, Taken, deque)
    BY <1>2, TasksAssociates
  <2>. QED BY <2>1 DEF Associates
<1>. HIDE DEF h, r, d
<1>5. Append(started, h) = started \o <<h>> /\ started \o <<h>> \in Seq(Tasks)
  BY <1>1, <1>2, Concatenations
<1>6. Line = (started \o <<h>>) \o (r \o d)
  <2>1. started \o native \in Seq(Tasks) /\ (started \o <<h>>) \o r \in Seq(Tasks)
    BY <1>1, <1>2, <1>5, ConcatProperties
  <2>2. Line = (started \o native) \o d
    BY <1>d, <2>1 DEF Line
  <2>. DEFINE g == <<h>>
  <2>3. g \in Seq(Tasks) /\ native = g \o r /\ started \o g \in Seq(Tasks)
    BY <1>1, <1>5
  <2>. HIDE DEF g
  <2>a. /\ started \in Seq(Tasks) /\ g \in Seq(Tasks) /\ r \in Seq(Tasks)
        /\ d \in Seq(Tasks)
    BY <1>1, <1>2, <2>3
  <2>b. Regroups(started, g, r, d)
    BY <2>a, TasksRegroup
  <2>4. (started \o (g \o r)) \o d = (started \o g) \o (r \o d)
    BY <2>b DEF Regroups
  <2>. QED BY <2>2, <2>3, <2>4 DEF g
<1>7. started' \in Seq(Tasks) /\ Line' = started' \o (r \o d)
  <2>1. started' \in Seq(Tasks)
    BY <1>2, <1>3, <1>5
  <2>2. started' \o r \in Seq(Tasks)
    BY <1>1, <2>1, ConcatProperties
  <2>3. Line' = ((started' \o r) \o Taken) \o deque
    BY <1>3, <1>4 DEF Line
  <2>4. ((started' \o r) \o Taken) \o deque = (started' \o r) \o d
    BY <1>d, <2>2
  <2>a. Associates(started', r, d)
    BY <1>1, <1>2, <2>1, TasksAssociates
  <2>5. (started' \o r) \o d = started' \o (r \o d)
    BY <2>a DEF Associates
  <2>. QED BY <2>1, <2>3, <2>4, <2>5
<1>8. CASE h \notin direct
  <2>1. Line' = Line
    BY <1>3, <1>5, <1>6, <1>7, <1>8
  <2>. QED BY <2>1, SameLine
<1>9. CASE h \in direct
  <2>1. r \o d \in Seq(Tasks) /\ Line' = started \o (r \o d)
    BY <1>1, <1>2, <1>3, <1>7, <1>9, ConcatProperties
  <2>2. /\ SeqRange(Line) = SeqRange(Line') \cup {h}
        /\ \A y, z : Before(Line', y, z) => Before(Line, y, z)
    <3>. DEFINE w == r \o d
    <3>1. w \in Seq(Tasks) /\ Line' = started \o w /\ Line = (started \o <<h>>) \o w
      BY <1>6, <2>1
    <3>. HIDE DEF w
    <3>2. InsertedIn(started, w, h)
      BY <1>1, <1>2, <3>1, InsertedTask
    <3>. QED BY <3>1, <3>2, Zenon DEF InsertedIn
  <2>. QED BY <1>9, <2>2 DEF LineInOrder
<1>. QED BY <1>8, <1>9

LEMMA OrderStep ==
  ASSUME TypeOK, TypeOK', OnlyLeavingLoopsReturn, LineInOrder, [Next]_vars
  PROVE  LineInOrder'
<1>. USE DEF dispatcherVars, nativeVars, waitVars, loopVars, history
<1>type. /\ started \in Seq(Tasks) /\ native \in Seq(Tasks) /\ deque \in Seq(Tasks)
         /\ started \o native \in Seq(Tasks) /\ direct \subseteq Runnables
  BY LineType DEF TypeOK
<1>1. ASSUME NEW r \in Runnables, PostRunnable(r) PROVE LineInOrder'
  BY <1>1, PostedLast, TaskFacts DEF PostRunnable, Fresh
<1>2. ASSUME NEW r \in Runnables, invokeAndWait(r) PROVE LineInOrder'
  <2>. DEFINE a == started \o native
              d == Taken \o deque
  <2>1. a \in Seq(Tasks) /\ d \in Seq(Tasks) /\ r \in Tasks
    BY <1>type, LineType, TaskFacts, ConcatProperties
  <2>2. Line = a \o d
    <3>1. Associates(a, Taken, deque)
      BY <1>type, LineType, TasksAssociates
    <3>. QED BY <3>1 DEF Line, Associates
  <2>3. Line' = (a \o <<r>>) \o d
    <3>1. started \o Append(native, r) = a \o <<r>>
      BY <1>type, <2>1, Concatenations
    <3>2. Line' = ((started \o Append(native, r)) \o Taken) \o deque
      BY <1>2 DEF invokeAndWait, Line, Taken
    <3>3. a \o <<r>> \in Seq(Tasks)
      BY <2>1, Concatenations
    <3>4. Associates(a \o <<r>>, Taken, deque)
      BY <1>type, <3>3, LineType, TasksAssociates
    <3>. QED BY <3>1, <3>2, <3>4 DEF Associates
  <2>. HIDE DEF a, d
  <2>4. /\ SeqRange(Line') = SeqRange(Line) \cup {r}
        /\ \A y, z : Before(Line', y, z) /\ y # r /\ z # r => Before(Line, y, z)
    <3>1. InsertedIn(a, d, r)
      BY <2>1, InsertedTask
    <3>. QED BY <2>2, <2>3, <3>1, Zenon DEF InsertedIn
  <2>5. /\ posted' = posted /\ direct' = direct \cup {r}
        /\ r \notin SeqRange(posted)
    BY <1>2 DEF invokeAndWait, Fresh
  <2>. QED BY <2>4, <2>5 DEF LineInOrder
<1>3. ASSUME NEW r \in Runnables, CallerReturns(r) PROVE LineInOrder'
  BY <1>3, SameLine DEF CallerReturns, Line, Taken
<1>4. CASE TakeFirst
  <2>1. deque = <<Head(deque)>> \o Tail(deque) /\ deque # <<>>
    BY <1>4, <1>type, Concatenations DEF TakeFirst
  <2>2. Head(deque) \in Tasks /\ Tail(deque) \in Seq(Tasks)
    BY <1>type, <2>1, RangeTail
  <2>3. Line = (started \o native) \o deque
    BY <1>4, <1>type, ConcatEmptySeq DEF TakeFirst, Line, Taken
  <2>4. Line' = ((started \o native) \o <<Head(deque)>>) \o Tail(deque)
    BY <1>4 DEF TakeFirst, Line, Taken
  <2>5. <<Head(deque)>> \in Seq(Tasks)
    BY <2>2
  <2>6. Line' = (started \o native) \o (<<Head(deque)>> \o Tail(deque))
    <3>1. Associates(started \o native, <<Head(deque)>>, Tail(deque))
      BY <1>type, <2>2, <2>5, TasksAssociates
    <3>. QED BY <2>4, <3>1 DEF Associates
  <2>. QED BY <1>4, <2>1, <2>3, <2>6, SameLine DEF TakeFirst
<1>5. CASE CheckLeaving
  <2>1. CASE leavingNestedEventLoop
    <3>1. <<cur>> \in Seq(Tasks)
      BY <1>5, LineType DEF CheckLeaving, Taken
    <3>2. Line = ((started \o native) \o <<cur>>) \o deque
      BY <1>5 DEF CheckLeaving, Line, Taken
    <3>3. Line' = ((started \o native) \o <<>>) \o (<<cur>> \o deque)
      BY <1>5, <2>1 DEF CheckLeaving, putBack, Line, Taken
    <3>4. (started \o native) \o <<>> = started \o native
      BY <1>type, ConcatEmptySeq
    <3>5. Line' = Line
      <4>1. Associates(started \o native, <<cur>>, deque)
        BY <1>type, <3>1, TasksAssociates
      <4>. QED BY <3>2, <3>3, <3>4, <4>1 DEF Associates
    <3>. QED BY <1>5, <3>5, SameLine DEF CheckLeaving
  <2>2. CASE ~leavingNestedEventLoop
    BY <1>5, <2>2, SameLine DEF CheckLeaving, Line, Taken
  <2>. QED BY <2>1, <2>2
<1>6. CASE WaitUntilLeft
  BY <1>6, SameLine DEF WaitUntilLeft, Line, Taken
<1>7. CASE submitForLaterInvocation
  <2>1. <<cur>> \in Seq(Tasks) /\ cur \in Tasks
    BY <1>7, LineType DEF submitForLaterInvocation, Taken, TypeOK
  <2>2. Line = ((started \o native) \o <<cur>>) \o deque
    BY <1>7 DEF submitForLaterInvocation, Line, Taken
  <2>3. Line' = ((started \o Append(native, cur)) \o <<>>) \o deque
    BY <1>7 DEF submitForLaterInvocation, Line, Taken
  <2>4. started \o Append(native, cur) = (started \o native) \o <<cur>>
    BY <1>type, <2>1, Concatenations
  <2>5. ((started \o native) \o <<cur>>) \o <<>> = (started \o native) \o <<cur>>
    <3>1. (started \o native) \o <<cur>> \in Seq(Tasks)
      BY <1>type, <2>1, ConcatProperties
    <3>. QED BY <3>1, ConcatEmptySeq
  <2>6. Line' = Line
    BY <2>2, <2>3, <2>4, <2>5
  <2>. QED BY <1>7, <2>6, SameLine DEF submitForLaterInvocation
<1>8. CASE AwaitFuture
  BY <1>8, SameLine DEF AwaitFuture, Line, Taken
<1>9. CASE HandleEvent
  BY <1>9, SameLine DEF HandleEvent, Line, Taken
<1>10. CASE RunRunnable
  BY <1>10, DispatchedInOrder DEF RunRunnable
<1>11. CASE RunRecheck
  BY <1>11, DispatchedInOrder DEF RunRecheck
<1>12. CASE HandlerReturns
  BY <1>12, SameLine DEF HandlerReturns, Line, Taken
<1>13. ASSUME NEW l \in Loops, enter(l) PROVE LineInOrder'
  BY <1>13, SameLine DEF enter, Line, Taken
<1>14. ASSUME NEW l \in Loops, leave(l) PROVE LineInOrder'
  BY <1>14, SameLine DEF leave, Line, Taken
<1>15. CASE LoopReturns
  <2>1. CASE OuterLoopLeaving
    <3>1. Innermost \in Loops
      BY <1>15 DEF LoopReturns, LoopEnds, Quitting, Innermost, TypeOK
    <3>2. Recheck(Innermost) \in Tasks \ direct
      BY <1>type, <3>1, TaskFacts
    <3>3. invokeLater(Recheck(Innermost))
      BY <1>15, <2>1 DEF LoopReturns
    <3>4. UNCHANGED <<started, native, dpc, cur, direct>>
      BY <1>15 DEF LoopReturns
    <3>. QED BY <3>2, <3>3, <3>4, PostedLast
  <2>2. CASE ~OuterLoopLeaving
    BY <1>15, <2>2, SameLine DEF LoopReturns, Line, Taken
  <2>. QED BY <2>1, <2>2
<1>16. CASE UNCHANGED vars
  BY <1>16, SameLine DEF vars, Line, Taken
<1>. QED
  BY <1>1, <1>2, <1>3, <1>4, <1>5, <1>6, <1>7, <1>8, <1>9, <1>10, <1>11,
     <1>12, <1>13, <1>14, <1>15, <1>16 DEF Next

\* Runnables passed to invokeLater start in the order in which they were
\* posted and none is lost, for any number of runnables and loops: neither a
\* put-back while a loop is left, nor a nested loop that ends the
\* dispatcher's wait early, nor invokeAndWait changes the order.
THEOREM PostedOrderKept == Spec => []RunsInPostedOrder
<1>1. Init => LineInOrder
  <2>. SUFFICES ASSUME Init PROVE LineInOrder
    OBVIOUS
  <2>1. Line = <<>> /\ posted = <<>>
    BY DEF Init, Line, Taken
  <2>. QED BY <2>1 DEF LineInOrder, SeqRange, Before
<1>2. TypeOK /\ TypeOK' /\ OnlyLeavingLoopsReturn /\ LineInOrder /\ [Next]_vars
        => LineInOrder'
  BY OrderStep
<1>3. TypeOK /\ LineInOrder => RunsInPostedOrder
  BY LineOrder
<1>. QED BY <1>1, <1>2, <1>3, LoopsSafe, PTL DEF Spec
=============================================================================
