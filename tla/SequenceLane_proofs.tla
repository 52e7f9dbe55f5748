----------------------- MODULE SequenceLane_proofs -----------------------
(***************************************************************************)
(* For every set of requests and every cache limit: a request consumes at  *)
(* most one number, and where every handler takes the lane the n-th        *)
(* operation is the one sent under number n.                               *)
(***************************************************************************)
EXTENDS SequenceLane, SequenceTheorems, TLAPS

\* The requests that take the lane.
LaneRequest == {r \in Request : r.kind = "async"}

\* The part of the type invariant the arguments need.
LaneTyped ==
  /\ next \in Nat
  /\ lane \in Seq(LaneRequest)
  /\ running \in BOOLEAN /\ (running => lane # <<>>)
  /\ applied \in Seq(Request)

\* Whatever has been applied has a number below the next one, and what is
\* being applied is not among it: its number was the next one when it was
\* admitted, and only handlers outside the lane have moved on since.
OnceInv ==
  /\ LaneTyped
  /\ \A i \in DOMAIN applied : applied[i].number < next
  /\ running => Head(lane).number <= next
  /\ running => \A i \in DOMAIN applied : applied[i] # Head(lane)
  /\ AppliedOnce

\* With every handler in the lane nothing moves the number while one runs.
OrderInv ==
  /\ LaneTyped
  /\ Len(applied) = next
  /\ running => Head(lane).number = next
  /\ EachNumberOnce

-----------------------------------------------------------------------------
\* A request is judged applicable only at the session's next number.
LEMMA JudgedNext ==
  ASSUME NEW r, r.number \in Nat, next \in Nat, Judge(r) = "applied"
  PROVE  r.number = next
  BY DEF Judge

\* The lane after a request has left it is a lane.
LEMMA LaneLeft ==
  ASSUME LaneTyped, lane # <<>>
  PROVE  /\ Head(lane) \in Request /\ Head(lane).kind = "async"
         /\ Tail(lane) \in Seq(LaneRequest)
  BY HeadTailProperties DEF LaneTyped, LaneRequest

\* Appending to the lane does not change its head.
LEMMA LaneJoined ==
  ASSUME LaneTyped, NEW r \in Request, r.kind = "async"
  PROVE  /\ Append(lane, r) \in Seq(LaneRequest)
         /\ Append(lane, r) # <<>>
         /\ lane # <<>> => Head(Append(lane, r)) = Head(lane)
<1>1. lane \in Seq(LaneRequest) /\ r \in LaneRequest
  BY DEF LaneTyped, LaneRequest
<1>2. /\ Append(lane, r) \in Seq(LaneRequest) /\ Append(lane, r) # <<>>
      /\ Len(Append(lane, r)) = Len(lane) + 1
  BY <1>1, AppendProperties
<1>3. lane # <<>> => Append(lane, r)[1] = lane[1]
  BY <1>1, AppendProperties, EmptySeq, LenProperties
<1>4. QED
  BY <1>2, <1>3 DEF Head

\* What applied holds after a request has consumed a number.
LEMMA AppliedNext ==
  ASSUME LaneTyped, NEW r \in Request
  PROVE  /\ Append(applied, r) \in Seq(Request)
         /\ Len(Append(applied, r)) = Len(applied) + 1
         /\ DOMAIN applied = 1 .. Len(applied) /\ Len(applied) \in Nat
         /\ DOMAIN Append(applied, r) = 1 .. Len(applied) + 1
         /\ \A i \in DOMAIN applied :
               applied[i] \in Request /\ Append(applied, r)[i] = applied[i]
         /\ Append(applied, r)[Len(applied) + 1] = r
<1>1. applied \in Seq(Request)
  BY DEF LaneTyped
<1>2. QED
  BY <1>1, AppendProperties, LenProperties, ElementOfSeq
-----------------------------------------------------------------------------
\* Nothing has been applied and nothing queued at first.
LEMMA NothingYet ==
  ASSUME Init
  PROVE  LaneTyped /\ ~running /\ next = 0 /\ Len(applied) = 0 /\ DOMAIN applied = {}
<1>1. applied = <<>> /\ lane = <<>> /\ running = FALSE /\ next = 0
  BY DEF Init
<1>2. applied \in Seq(Request) /\ Len(applied) = 0 /\ lane \in Seq(LaneRequest)
  BY <1>1, EmptySeq
<1>3. DOMAIN applied = {}
  BY <1>2, LenProperties
<1>4. QED
  BY <1>1, <1>2, <1>3 DEF LaneTyped

\* Every step keeps the types the arguments need.
LEMMA LaneTypedNext ==
  ASSUME LaneTyped, [Next]_vars
  PROVE  LaneTyped'
<1>1. CASE UNCHANGED vars
  BY <1>1 DEF LaneTyped, vars
<1>2. ASSUME NEW r \in Request, SyncArrives(r)
      PROVE  LaneTyped'
  <2>1. lane' = lane /\ running' = running
    BY <1>2 DEF SyncArrives
  <2>2. \/ next' = next + 1 /\ applied' = Append(applied, r)
        \/ next' = next /\ applied' = applied
    BY <1>2 DEF SyncArrives, Consume
  <2>3. next' \in Nat /\ applied' \in Seq(Request)
    <3>1. Append(applied, r) \in Seq(Request)
      BY AppliedNext
    <3>2. next \in Nat /\ applied \in Seq(Request)
      BY DEF LaneTyped
    <3>3. next' \in Nat
      BY <2>2, <3>2
    <3>4. applied' \in Seq(Request)
      BY <2>2, <3>1, <3>2
    <3>5. QED
      BY <3>3, <3>4
  <2>4. /\ lane' \in Seq(LaneRequest)
        /\ running' \in BOOLEAN /\ (running' => lane' # <<>>)
    BY <2>1 DEF LaneTyped
  <2>5. QED
    BY <2>3, <2>4 DEF LaneTyped
<1>3. ASSUME NEW r \in Request, AsyncArrives(r)
      PROVE  LaneTyped'
  BY <1>3, LaneJoined DEF LaneTyped, AsyncArrives
<1>4. CASE Admit
  <2>1. lane # <<>> /\ ~running /\ next' = next /\ applied' = applied
    BY <1>4 DEF Admit, Admitting
  <2>2. \/ running' = TRUE /\ lane' = lane
        \/ lane' = Tail(lane) /\ running' = running
    BY <1>4 DEF Admit
  <2>3. running' \in BOOLEAN /\ (running' => lane' # <<>>)
    <3>1. CASE running' = TRUE /\ lane' = lane
      BY <2>1, <3>1
    <3>2. CASE lane' = Tail(lane) /\ running' = running
      <4>1. running' \in BOOLEAN
        BY <3>2 DEF LaneTyped
      <4>2. ~running'
        BY <2>1, <3>2
      <4>3. QED
        BY <4>1, <4>2
    <3>3. QED
      BY <2>2, <3>1, <3>2
  <2>4. lane' \in Seq(LaneRequest)
    BY <2>1, <2>2, LaneLeft DEF LaneTyped
  <2>5. QED
    BY <2>1, <2>3, <2>4 DEF LaneTyped
<1>5. CASE Complete
  <2>1. lane # <<>> /\ lane' = Tail(lane) /\ running' = FALSE
    BY <1>5 DEF Complete, Release, LaneTyped
  <2>2. next' = next + 1 /\ applied' = Append(applied, Head(lane))
    BY <1>5 DEF Complete, Consume
  <2>3. next' \in Nat /\ applied' \in Seq(Request)
    BY <2>1, <2>2, LaneLeft, AppliedNext DEF LaneTyped
  <2>4. lane' \in Seq(LaneRequest)
    BY <2>1, LaneLeft
  <2>5. QED
    BY <2>1, <2>3, <2>4 DEF LaneTyped
<1>6. CASE Throw
  BY <1>6, LaneLeft DEF LaneTyped, Throw, Release
<1>7. QED
  BY <1>1, <1>2, <1>3, <1>4, <1>5, <1>6 DEF Next

\* One number consumed by a request that consumed none before and whose own
\* number is no later than the next one.
LEMMA ConsumedOnce ==
  ASSUME OnceInv, NEW r \in Request, r.number \in Nat, r.number <= next,
         \A i \in DOMAIN applied : applied[i] # r,
         next' = next + 1, applied' = Append(applied, r)
  PROVE  /\ \A i \in DOMAIN applied' : applied'[i].number < next'
         /\ AppliedOnce'
<1>1. LaneTyped
  BY DEF OnceInv
<1>2. \A i \in DOMAIN applied' : applied'[i].number < next'
  <2>1. ASSUME NEW i \in 1 .. Len(applied) PROVE applied'[i].number < next'
    BY <1>1, <2>1, AppliedNext, LaneAssumption DEF OnceInv, LaneTyped
  <2>2. applied'[Len(applied) + 1].number < next'
    BY <1>1, AppliedNext DEF LaneTyped
  <2>3. QED
    BY <1>1, <2>1, <2>2, AppliedNext
<1>3. AppliedOnce'
  BY <1>1, AppliedNext DEF OnceInv, AppliedOnce
<1>4. QED
  BY <1>2, <1>3

\* Every step keeps the invariant.
LEMMA OnceNext ==
  ASSUME OnceInv, [Next]_vars
  PROVE  OnceInv'
<1>1. LaneTyped /\ LaneTyped'
  BY LaneTypedNext DEF OnceInv
<1>2. CASE UNCHANGED vars
  BY <1>1, <1>2 DEF OnceInv, AppliedOnce, vars
<1>3. ASSUME NEW r \in Request, SyncArrives(r)
      PROVE  OnceInv'
  <2>1. r.kind = "sync" /\ r.number \in Nat /\ UNCHANGED <<lane, running>>
    BY <1>3, LaneAssumption DEF SyncArrives
  <2>2. CASE Judge(r) = "applied"
    <3>1. r.number = next
      BY <1>1, <2>1, <2>2, JudgedNext DEF LaneTyped
    <3>2. next' = next + 1 /\ applied' = Append(applied, r)
      BY <1>3, <2>2 DEF SyncArrives, Consume
    <3>3. \A i \in DOMAIN applied : applied[i] # r
      BY <1>1, <3>1 DEF OnceInv, LaneTyped
    <3>4. /\ \A i \in DOMAIN applied' : applied'[i].number < next'
          /\ AppliedOnce'
      BY <1>1, <2>1, <3>1, <3>2, <3>3, ConsumedOnce DEF LaneTyped
    <3>5. running' => /\ Head(lane') = Head(lane)
                      /\ Head(lane) \in Request /\ Head(lane) # r
      BY <1>1, <2>1, LaneLeft DEF LaneTyped
    <3>6. running' => Head(lane').number <= next'
      BY <1>1, <2>1, <3>2, <3>5, LaneAssumption DEF OnceInv, LaneTyped
    <3>7. running' => \A i \in DOMAIN applied' : applied'[i] # Head(lane')
      BY <1>1, <2>1, <3>2, <3>5, AppliedNext DEF OnceInv
    <3>8. QED
      BY <1>1, <3>4, <3>6, <3>7 DEF OnceInv
  <2>3. CASE Judge(r) # "applied"
    BY <1>1, <1>3, <2>1, <2>3 DEF SyncArrives, OnceInv, AppliedOnce
  <2>4. QED
    BY <2>2, <2>3
<1>4. ASSUME NEW r \in Request, AsyncArrives(r)
      PROVE  OnceInv'
  <2>1. UNCHANGED <<next, running, applied>> /\ lane' = Append(lane, r)
    BY <1>4 DEF AsyncArrives
  <2>2. running => Head(lane') = Head(lane)
    BY <1>1, <1>4, <2>1, LaneJoined DEF AsyncArrives, LaneTyped
  <2>3. QED
    BY <1>1, <2>1, <2>2 DEF OnceInv, AppliedOnce
<1>5. CASE Admit
  <2>1. lane # <<>> /\ ~running /\ UNCHANGED <<next, applied>>
    BY <1>5 DEF Admit, Admitting
  <2>2. Head(lane) \in Request /\ Head(lane).number \in Nat
    BY <1>1, <2>1, LaneLeft, LaneAssumption
  <2>3. CASE Judge(Head(lane)) = "applied"
    <3>1. Head(lane).number = next /\ UNCHANGED lane
      BY <1>1, <1>5, <2>2, <2>3, JudgedNext DEF Admit, LaneTyped
    <3>2. \A i \in DOMAIN applied : applied[i] # Head(lane)
      BY <1>1, <3>1 DEF OnceInv, LaneTyped
    <3>3. QED
      BY <1>1, <2>1, <3>1, <3>2 DEF OnceInv, AppliedOnce, LaneTyped
  <2>4. CASE Judge(Head(lane)) # "applied"
    BY <1>1, <1>5, <2>1, <2>4 DEF Admit, OnceInv, AppliedOnce
  <2>5. QED
    BY <2>3, <2>4
<1>6. CASE Complete
  <2>1. running /\ lane # <<>> /\ running' = FALSE
    BY <1>1, <1>6 DEF Complete, Release, LaneTyped
  <2>2. next' = next + 1 /\ applied' = Append(applied, Head(lane))
    BY <1>6 DEF Complete, Consume
  <2>3. Head(lane) \in Request /\ Head(lane).number \in Nat
    BY <1>1, <2>1, LaneLeft, LaneAssumption
  <2>4. /\ \A i \in DOMAIN applied' : applied'[i].number < next'
        /\ AppliedOnce'
    BY <2>1, <2>2, <2>3, ConsumedOnce DEF OnceInv
  <2>5. QED
    BY <1>1, <2>1, <2>4 DEF OnceInv
<1>7. CASE Throw
  BY <1>1, <1>7 DEF Throw, Release, OnceInv, AppliedOnce
<1>8. QED
  BY <1>2, <1>3, <1>4, <1>5, <1>6, <1>7 DEF Next

\* A request consumes at most one number, whatever mix of kinds the client
\* sends and however often: `sequence' moving the number while an operation
\* of `sequenceAsync' awaits does not let the awaiting one run again.
THEOREM Once == Spec => []AppliedOnce
<1>1. Init => OnceInv
  BY NothingYet DEF OnceInv, AppliedOnce
<1>2. OnceInv /\ [Next]_vars => OnceInv'
  BY OnceNext
<1>3. OnceInv => AppliedOnce
  BY DEF OnceInv
<1>4. QED
  BY <1>1, <1>2, <1>3, PTL DEF Spec
-----------------------------------------------------------------------------
\* Every step keeps the order where all handlers take the lane.
LEMMA OrderNext ==
  ASSUME \A r \in Request : r.kind = "async", OrderInv, [Next]_vars
  PROVE  OrderInv'
<1>1. LaneTyped /\ LaneTyped'
  BY LaneTypedNext DEF OrderInv
<1>2. CASE UNCHANGED vars
  BY <1>1, <1>2 DEF OrderInv, EachNumberOnce, vars
<1>3. ASSUME NEW r \in Request, SyncArrives(r)
      PROVE  OrderInv'
  BY <1>3 DEF SyncArrives
<1>4. ASSUME NEW r \in Request, AsyncArrives(r)
      PROVE  OrderInv'
  <2>1. UNCHANGED <<next, running, applied>> /\ lane' = Append(lane, r)
    BY <1>4 DEF AsyncArrives
  <2>2. running => Head(lane') = Head(lane)
    BY <1>1, <1>4, <2>1, LaneJoined DEF AsyncArrives, LaneTyped
  <2>3. QED
    BY <1>1, <2>1, <2>2 DEF OrderInv, EachNumberOnce
<1>5. CASE Admit
  <2>1. lane # <<>> /\ ~running /\ UNCHANGED <<next, applied>>
    BY <1>5 DEF Admit, Admitting
  <2>2. Head(lane) \in Request /\ Head(lane).number \in Nat
    BY <1>1, <2>1, LaneLeft, LaneAssumption
  <2>3. Judge(Head(lane)) = "applied" =>
          Head(lane).number = next /\ UNCHANGED lane
    BY <1>1, <1>5, <2>2, JudgedNext DEF Admit, LaneTyped
  <2>4. Judge(Head(lane)) # "applied" => running' = FALSE
    BY <1>1, <1>5, <2>1 DEF Admit, LaneTyped
  <2>5. QED
    BY <1>1, <2>1, <2>3, <2>4 DEF OrderInv, EachNumberOnce
<1>6. CASE Complete
  <2>1. running /\ lane # <<>> /\ running' = FALSE
    BY <1>1, <1>6 DEF Complete, Release, LaneTyped
  <2>2. next' = next + 1 /\ applied' = Append(applied, Head(lane))
    BY <1>6 DEF Complete, Consume
  <2>3. Head(lane) \in Request /\ Head(lane).number = Len(applied)
    BY <1>1, <2>1, LaneLeft DEF OrderInv
  <2>4. Len(applied') = next' /\ EachNumberOnce'
    BY <1>1, <2>2, <2>3, AppliedNext DEF OrderInv, EachNumberOnce
  <2>5. QED
    BY <1>1, <2>1, <2>4 DEF OrderInv
<1>7. CASE Throw
  BY <1>1, <1>7 DEF Throw, Release, OrderInv, EachNumberOnce
<1>8. QED
  BY <1>2, <1>3, <1>4, <1>5, <1>6, <1>7 DEF Next

\* Where every handler goes through sequenceAsync, the n-th operation of a
\* session is the one the client sent under number n.
THEOREM LaneKeepsOrder ==
  ASSUME \A r \in Request : r.kind = "async"
  PROVE  Spec => []EachNumberOnce
<1>1. Init => OrderInv
  BY NothingYet DEF OrderInv, EachNumberOnce
<1>2. OrderInv /\ [Next]_vars => OrderInv'
  BY OrderNext
<1>3. OrderInv => EachNumberOnce
  BY DEF OrderInv
<1>4. QED
  BY <1>1, <1>2, <1>3, PTL DEF Spec
-----------------------------------------------------------------------------
\* The cache holds requests that were applied, within its limit.
CacheInv ==
  /\ LaneTyped
  /\ replay \in Seq(Request) /\ Len(replay) <= ReplayLimit
  /\ ToSet(replay) \subseteq ToSet(applied)
  /\ answers \subseteq Request \X Verdict
  /\ sends \in 0 .. MaxSends
  /\ AnswersAreOwn

\* An answer is remembered in place of an older one under its id or at the
\* end; then the oldest goes when the limit is passed.
LEMMA Remembered ==
  ASSUME replay \in Seq(Request), Len(replay) <= ReplayLimit, NEW r \in Request
  PROVE  /\ Remember(r) \in Seq(Request) /\ Len(Remember(r)) <= ReplayLimit
         /\ ToSet(Remember(r)) \subseteq ToSet(replay) \cup {r}
<1>1. PICK all : /\ \/ \E at : all = [replay EXCEPT ![at] = r]
                    \/ all = Append(replay, r)
                 /\ Remember(r) = IF Len(all) > ReplayLimit THEN Tail(all) ELSE all
  BY DEF Remember
<1>2. /\ all \in Seq(Request) /\ Len(all) <= ReplayLimit + 1
      /\ \A i \in DOMAIN all : all[i] \in ToSet(replay) \cup {r}
  <2>1. ASSUME NEW at, all = [replay EXCEPT ![at] = r]
        PROVE  /\ all \in Seq(Request) /\ Len(all) <= ReplayLimit + 1
               /\ \A i \in DOMAIN all : all[i] \in ToSet(replay) \cup {r}
    <3>1. /\ Len(replay) \in Nat /\ DOMAIN replay = 1 .. Len(replay)
          /\ \A i \in 1 .. Len(replay) : replay[i] \in Request
      BY LenProperties, ElementOfSeq
    <3>2. all \in [1 .. Len(replay) -> Request]
      BY <2>1, <3>1
    <3>3. all \in Seq(Request) /\ Len(all) = Len(replay)
      BY <3>1, <3>2, SeqDef, LenProperties
    <3> QED BY <2>1, <3>1, <3>3, LaneAssumption DEF ToSet
  <2>2. CASE all = Append(replay, r)
    <3>1. /\ all \in Seq(Request) /\ Len(all) = Len(replay) + 1
          /\ \A i \in 1 .. Len(replay) : all[i] = replay[i]
          /\ all[Len(replay) + 1] = r
      BY <2>2, AppendProperties
    <3>2. Len(replay) \in Nat /\ DOMAIN all = 1 .. Len(replay) + 1
      BY <3>1, LenProperties
    <3> QED BY <3>1, <3>2, LenProperties, LaneAssumption DEF ToSet
  <2> QED BY <1>1, <2>1, <2>2
<1>3. CASE Len(all) > ReplayLimit
  <2>1. all # <<>> /\ Len(all) \in Nat
    BY <1>2, <1>3, LaneAssumption, LenProperties, EmptySeq
  <2>2. /\ Tail(all) \in Seq(Request) /\ Len(Tail(all)) = Len(all) - 1
        /\ \A i \in 1 .. Len(Tail(all)) : Tail(all)[i] = all[i + 1]
    BY <1>2, <2>1, HeadTailProperties
  <2>3. DOMAIN Tail(all) = 1 .. Len(all) - 1 /\ DOMAIN all = 1 .. Len(all)
    BY <1>2, <2>2, LenProperties
  <2>4. \A i \in DOMAIN Tail(all) : Tail(all)[i] \in ToSet(replay) \cup {r}
    BY <1>2, <2>1, <2>2, <2>3
  <2>5. ToSet(Tail(all)) \subseteq ToSet(replay) \cup {r}
    BY <2>4 DEF ToSet
  <2>6. Len(Tail(all)) <= ReplayLimit
    BY <1>2, <2>1, <2>2, LaneAssumption
  <2>7. Remember(r) = Tail(all)
    BY <1>1, <1>3
  <2> QED BY <2>2, <2>5, <2>6, <2>7
<1>4. CASE ~(Len(all) > ReplayLimit)
  BY <1>1, <1>2, <1>4, LaneAssumption, LenProperties DEF ToSet
<1> QED BY <1>3, <1>4

\* A request answered from the cache is in it.
LEMMA CachedIsHeld ==
  ASSUME NEW r, Judge(r) = "cached"
  PROVE  r \in ToSet(replay)
  BY DEF Judge, Cached

\* Consuming a number keeps the cache within what has been applied.
LEMMA ConsumeKeepsCache ==
  ASSUME CacheInv, NEW r \in Request, Consume(r)
  PROVE  /\ replay' \in Seq(Request) /\ Len(replay') <= ReplayLimit
         /\ ToSet(replay') \subseteq ToSet(applied')
         /\ ToSet(applied) \subseteq ToSet(applied')
<1>1. LaneTyped /\ applied' = Append(applied, r) /\ replay' = Remember(r)
  BY DEF CacheInv, Consume
<1>2. ToSet(applied') = ToSet(applied) \cup {r}
  BY <1>1, AppliedNext DEF ToSet
<1>3. /\ replay' \in Seq(Request) /\ Len(replay') <= ReplayLimit
      /\ ToSet(replay') \subseteq ToSet(replay) \cup {r}
  BY <1>1, Remembered DEF CacheInv
<1> QED BY <1>2, <1>3 DEF CacheInv

LEMMA CacheNext ==
  ASSUME CacheInv, [Next]_vars
  PROVE  CacheInv'
<1>1. LaneTyped /\ LaneTyped'
  BY LaneTypedNext DEF CacheInv
<1>2. CASE UNCHANGED vars
  BY <1>1, <1>2 DEF CacheInv, AnswersAreOwn, vars
<1>3. ASSUME NEW r \in Request, SyncArrives(r)
      PROVE  CacheInv'
  <2>1. /\ sends' \in 0 .. MaxSends /\ answers' = answers \cup {<<r, Judge(r)>>}
        /\ Judge(r) \in Verdict
    BY <1>3, LaneAssumption DEF SyncArrives, Arrives, Answer, Judge, Verdict, CacheInv
  <2>2. /\ replay' \in Seq(Request) /\ Len(replay') <= ReplayLimit
        /\ ToSet(replay') \subseteq ToSet(applied')
        /\ ToSet(applied) \subseteq ToSet(applied')
    <3>1. CASE Judge(r) = "applied"
      BY <1>3, <3>1, ConsumeKeepsCache DEF SyncArrives
    <3>2. CASE Judge(r) # "applied"
      BY <1>3, <3>2 DEF SyncArrives, CacheInv
    <3> QED BY <3>1, <3>2
  <2>3. Judge(r) = "cached" => r \in ToSet(applied)
    BY CachedIsHeld DEF CacheInv
  <2>4. AnswersAreOwn'
    BY <2>1, <2>2, <2>3 DEF CacheInv, AnswersAreOwn
  <2> QED BY <1>1, <2>1, <2>2, <2>4 DEF CacheInv
<1>4. ASSUME NEW r \in Request, AsyncArrives(r)
      PROVE  CacheInv'
  <2>1. sends' \in 0 .. MaxSends
    BY <1>4, LaneAssumption DEF AsyncArrives, Arrives, CacheInv
  <2> QED BY <1>1, <1>4, <2>1 DEF AsyncArrives, CacheInv, AnswersAreOwn
<1>5. CASE Admit
  <2>1. Head(lane) \in Request /\ UNCHANGED <<replay, applied, sends>>
    BY <1>1, <1>5, LaneLeft DEF Admit, Admitting
  <2>2. \/ answers' = answers
        \/ answers' = answers \cup {<<Head(lane), Judge(Head(lane))>>}
    BY <1>5 DEF Admit, Answer
  <2>3. Judge(Head(lane)) \in Verdict
    BY DEF Judge, Verdict
  <2>4. Judge(Head(lane)) = "cached" => Head(lane) \in ToSet(applied)
    BY CachedIsHeld DEF CacheInv
  <2>5. AnswersAreOwn'
    BY <2>1, <2>2, <2>4 DEF CacheInv, AnswersAreOwn
  <2>6. answers' \subseteq Request \X Verdict
    BY <2>1, <2>2, <2>3 DEF CacheInv
  <2> QED BY <1>1, <2>1, <2>5, <2>6 DEF CacheInv
<1>6. CASE Complete
  <2>1. /\ Head(lane) \in Request /\ UNCHANGED sends
        /\ answers' = answers \cup {<<Head(lane), "applied">>}
    BY <1>1, <1>6, LaneLeft DEF Complete, Release, Answer, LaneTyped
  <2>2. /\ replay' \in Seq(Request) /\ Len(replay') <= ReplayLimit
        /\ ToSet(replay') \subseteq ToSet(applied')
        /\ ToSet(applied) \subseteq ToSet(applied')
    BY <1>6, <2>1, ConsumeKeepsCache DEF Complete
  <2>3. AnswersAreOwn'
    BY <2>1, <2>2 DEF CacheInv, AnswersAreOwn
  <2> QED BY <1>1, <2>1, <2>2, <2>3 DEF CacheInv, Verdict
<1>7. CASE Throw
  <2>1. /\ Head(lane) \in Request /\ UNCHANGED <<replay, applied, sends>>
        /\ answers' = answers \cup {<<Head(lane), "failed">>}
    BY <1>1, <1>7, LaneLeft DEF Throw, Release, Answer, LaneTyped
  <2>2. AnswersAreOwn'
    BY <2>1 DEF CacheInv, AnswersAreOwn
  <2> QED BY <1>1, <2>1, <2>2 DEF CacheInv, Verdict
<1>8. QED
  BY <1>2, <1>3, <1>4, <1>5, <1>6, <1>7 DEF Next

LEMMA CacheHolds == Spec => []CacheInv
<1>1. Init => CacheInv
  <2> SUFFICES ASSUME Init PROVE CacheInv
    OBVIOUS
  <2>1. /\ replay = <<>> /\ applied = <<>> /\ answers = {} /\ sends = 0
        /\ replay \in Seq(Request) /\ Len(replay) = 0 /\ DOMAIN replay = {}
    BY EmptySeq DEF Init
  <2> QED BY <2>1, NothingYet, LaneAssumption DEF CacheInv, AnswersAreOwn, ToSet
<1> QED BY <1>1, CacheNext, PTL DEF Spec

\* The number, the cache within its limit, the lane and the answers have their
\* types for any requests, deliveries and limit.
THEOREM LaneIsTyped == Spec => []TypeOK
<1>1. CacheInv => TypeOK
  <2> SUFFICES ASSUME CacheInv PROVE TypeOK
    OBVIOUS
  <2>1. lane \in Seq(Request)
    <3>1. lane \in Seq(LaneRequest) /\ LaneRequest \subseteq Request
      BY DEF CacheInv, LaneTyped, LaneRequest
    <3>2. Len(lane) \in Nat /\ lane \in [1 .. Len(lane) -> Request]
      BY <3>1, SeqDef, LenProperties, ElementOfSeq
    <3> QED BY <3>2, SeqDef
  <2> QED BY <2>1 DEF CacheInv, LaneTyped, TypeOK
<1> QED BY <1>1, CacheHolds, PTL

\* A stored answer is given only to the request it was the answer to, also
\* when another request reuses its id.
THEOREM AnswersStayOwn == Spec => []AnswersAreOwn
<1>1. CacheInv => AnswersAreOwn
  BY DEF CacheInv
<1> QED BY <1>1, CacheHolds, PTL
=============================================================================
