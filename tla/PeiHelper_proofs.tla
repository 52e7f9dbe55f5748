------------------------- MODULE PeiHelper_proofs -------------------------
(***************************************************************************)
(* What the PEI helper pays, for any calls, processes, requests, days and  *)
(* budgets.                                                                *)
(***************************************************************************)
EXTENDS PeiHelper, FiniteSetTheorems, TLAPS

LEMMA DayType == DayOf(MaxTime) \in Nat /\ Day \subseteq Nat
  BY HelperAssumption, SMT DEF Day, DayOf

LEMMA DayOfType == ASSUME NEW t \in 0 .. MaxTime PROVE DayOf(t) \in Day
  BY HelperAssumption, SMT DEF Day, DayOf

LEMMA NoneApart == None \notin Nat /\ None \notin Request /\ None \notin Call
  BY HelperAssumption

\* The part of the typing the other invariants rest on.
Typed ==
  /\ now \in 0 .. MaxTime
  /\ issued \in [Request -> Day \cup {None}]
  /\ transfer \in [Request -> Nat \cup {None}]
  /\ dayLock \in [Day -> Call \cup {None}]
  /\ call \in [Call -> CallState]
  /\ \A k \in Call : call[k].pc # "idle" => call[k].req \in Request
  /\ \A k \in Call : call[k].pc \in {"save", "submit"} => call[k].tx \in Nat
  /\ signed \in 0 .. MaxSigned

\* A call submits what is stored, and what is stored is booked.
SubmitsStored ==
  /\ \A k \in Call : At(k, "submit") => transfer[call[k].req] = call[k].tx
  /\ \A r \in Request : transfer[r] # None => issued[r] # None

SentInv == Typed /\ SubmitsStored /\ sent \subseteq Request \X Nat /\ SentIsBooked

\* What a call has checked of its day stays true while it holds the lock.
Checked ==
  \A k \in Call, d \in Day : call[k].pc \in {"prepare", "save"} /\ call[k].day = d =>
    dayLock[d] = k /\ Cardinality(Booked(d)) < Limit

BudgetInv == Typed /\ Checked /\ BudgetKept

-----------------------------------------------------------------------------
LEMMA IdleType == Idle \in CallState /\ Idle.pc = "idle"
  BY HelperAssumption, SMT DEF Idle, CallState, Pc, Day, DayOf

LEMMA InitTyped == Init => Typed
  <1>1. 0 \in 0 .. MaxTime /\ 0 \in 0 .. MaxSigned
    BY HelperAssumption
  <1> QED
    BY <1>1, IdleType DEF Init, Typed

LEMMA TypedStep == Typed /\ [Next]_vars => Typed'
<1> SUFFICES ASSUME Typed, [Next]_vars PROVE Typed'
  OBVIOUS
<1> USE DEF Typed
<1>0. CASE UNCHANGED vars
  BY <1>0 DEF vars, tables, locks
<1>1. CASE Tick
  BY <1>1, HelperAssumption DEF Tick, tables, locks
<1>2. ASSUME NEW k \in Call, NEW r \in Request, Send(k, r) PROVE Typed'
  <2> DEFINE c == [Idle EXCEPT !.pc = "connect", !.req = r]
  <2>1. c \in CallState /\ c.pc = "connect" /\ c.req = r
    BY IdleType DEF Idle, CallState, Pc
  <2>2. call' = [call EXCEPT ![k] = c]
    BY <1>2 DEF Send
  <2> HIDE DEF c
  <2> QED
    BY <1>2, <2>1, <2>2 DEF Send, tables, locks
<1>3. ASSUME NEW k \in Call, Connect(k) PROVE Typed'
  BY <1>3 DEF Connect, At, tables, locks, CallState, Pc
<1>4. ASSUME NEW k \in Call, Found(k) PROVE Typed'
  <2>1. call[k].req \in Request /\ transfer[call[k].req] \in Nat
    BY <1>4 DEF Found, At
  <2> DEFINE c == [call[k] EXCEPT !.pc = "submit", !.tx = transfer[call[k].req]]
  <2>a. c \in CallState /\ c.req = call[k].req /\ c.tx \in Nat
    BY <2>1 DEF CallState, Pc
  <2>b. call' = [call EXCEPT ![k] = c]
    BY <1>4 DEF Found
  <2> HIDE DEF c
  <2>2. /\ call' \in [Call -> CallState]
        /\ \A l \in Call : call'[l].req = call[l].req /\ (l # k => call'[l] = call[l])
        /\ call'[k].tx \in Nat
    BY <2>a, <2>b
  <2> QED
    BY <1>4, <2>1, <2>2 DEF Found, tables, locks
<1>5. ASSUME NEW k \in Call, Missing(k) PROVE Typed'
  <2> DEFINE c == [call[k] EXCEPT !.pc = "reserve", !.day = DayOf(now)]
  <2>1. DayOf(now) \in Day
    BY DayOfType
  <2>2. c \in CallState /\ c.req = call[k].req /\ c.pc = "reserve"
    BY <2>1 DEF CallState, Pc
  <2>3. call' = [call EXCEPT ![k] = c] /\ call[k].req \in Request
    BY <1>5 DEF Missing, At
  <2> HIDE DEF c
  <2> QED
    BY <1>5, <2>2, <2>3 DEF Missing, tables
<1>6. ASSUME NEW k \in Call, Reserve(k) PROVE Typed'
  BY <1>6 DEF Reserve, At, tables, CallState, Pc
<1>7. ASSUME NEW k \in Call, Prepare(k) PROVE Typed'
  <2>1. signed \in Nat /\ signed' \in 0 .. MaxSigned
    BY <1>7, HelperAssumption DEF Prepare
  <2> DEFINE c == [call[k] EXCEPT !.pc = "save", !.tx = signed]
  <2>2. c \in CallState /\ c.req = call[k].req /\ c.pc = "save" /\ c.tx \in Nat
    BY <2>1 DEF CallState, Pc
  <2>3. call' = [call EXCEPT ![k] = c] /\ call[k].req \in Request
    BY <1>7 DEF Prepare, At
  <2> HIDE DEF c
  <2> QED
    BY <1>7, <2>1, <2>2, <2>3 DEF Prepare, tables, locks
<1>8. ASSUME NEW k \in Call, At(k, "save"), Store(k) 
      PROVE  /\ issued' \in [Request -> Day \cup {None}]
             /\ transfer' \in [Request -> Nat \cup {None}]
             /\ dayLock' \in [Day -> Call \cup {None}]
             /\ Stored(k) \in Nat
             /\ UNCHANGED <<now, signed>>
  <2>1. call[k].day \in Day /\ call[k].req \in Request /\ call[k].tx \in Nat
    BY <1>8 DEF At, CallState
  <2>2. Stored(k) \in Nat
    BY <2>1 DEF Stored
  <2> QED
    BY <1>8, <2>1, <2>2 DEF Store, Free
<1>9. ASSUME NEW k \in Call, Save(k) PROVE Typed'
  <2>1. At(k, "save") /\ Store(k)
    BY <1>9 DEF Save
  <2>2. call' \in [Call -> CallState] /\ call'[k].pc = "submit" /\ call'[k].tx = Stored(k)
        /\ \A l \in Call : call'[l].req = call[l].req /\ (l # k => call'[l] = call[l])
    <3> DEFINE c == [call[k] EXCEPT !.pc = "submit", !.tx = Stored(k)]
    <3>1. Stored(k) \in Nat  BY <1>8, <2>1
    <3>2. c \in CallState /\ c.req = call[k].req /\ c.pc = "submit" /\ c.tx = Stored(k)
      BY <3>1 DEF CallState, Pc
    <3>3. call' = [call EXCEPT ![k] = c]  BY <1>9 DEF Save
    <3> HIDE DEF c
    <3> QED  BY <3>2, <3>3
  <2>3. call[k].req \in Request
    BY <2>1 DEF At
  <2> QED
    BY <1>8, <2>1, <2>2, <2>3
<1>10. ASSUME NEW k \in Call, SaveUnanswered(k) PROVE Typed'
  BY <1>10, <1>8, IdleType DEF SaveUnanswered
<1>11. ASSUME NEW k \in Call, Submit(k) PROVE Typed'
  BY <1>11 DEF Submit, At, tables, locks, CallState, Pc
<1>12. ASSUME NEW k \in Call, Mark(k) PROVE Typed'
  BY <1>12, IdleType DEF Mark, locks
<1>13. ASSUME NEW k \in Call, Throw(k) PROVE Typed'
  BY <1>13, IdleType DEF Throw, Free, tables
<1> HIDE DEF Typed
<1> QED
  BY <1>0, <1>1, <1>2, <1>3, <1>4, <1>5, <1>6, <1>7, <1>9, <1>10, <1>11, <1>12, <1>13
     DEF Next, Step, Refused, Dies

-----------------------------------------------------------------------------
\* Only the bytes that are stored and booked ever leave the helper: the
\* sponsor pays a request once (send and saveSigned).
LEMMA InitSent == Init => SentInv
  <1> SUFFICES ASSUME Init PROVE SentInv
    OBVIOUS
  <1>1. Typed
    BY InitTyped
  <1>2. SubmitsStored
    BY IdleType DEF Init, SubmitsStored, At
  <1> QED
    BY <1>1, <1>2 DEF Init, SentInv, SentIsBooked

LEMMA SentStep == SentInv /\ [Next]_vars => SentInv'
<1> SUFFICES ASSUME SentInv, [Next]_vars PROVE SentInv'
  OBVIOUS
<1>t. Typed'
  BY TypedStep DEF SentInv
<1> DEFINE G == SubmitsStored' /\ (sent \subseteq Request \X Nat)' /\ SentIsBooked'
<1> USE DEF SentInv
<1>0. ASSUME tables' = tables, sent' = sent,
             \A l \in Call : call'[l].pc = "submit" =>
               \/ call'[l] = call[l]
               \/ transfer[call'[l].req] = call'[l].tx
      PROVE  G
  BY <1>0 DEF tables, SubmitsStored, SentIsBooked, At
<1>1. ASSUME NEW k \in Call, At(k, "save"), Store(k),
             \A l \in Call : call'[l].pc = "submit" =>
               \/ l # k /\ call'[l] = call[l]
               \/ l = k /\ call'[k].req = call[k].req /\ call'[k].tx = Stored(k)
      PROVE  G
  <2> DEFINE r == call[k].req
  <2>1. r \in Request /\ call[k].tx \in Nat /\ call[k].day \in Day
    BY <1>1 DEF Typed, At, CallState
  <2>2. transfer'[r] = Stored(k) /\ issued'[r] = call[k].day
        /\ (\A q \in Request : q # r => transfer'[q] = transfer[q] /\ issued'[q] = issued[q])
    BY <1>1, <2>1 DEF Store, Typed
  <2>3. transfer[r] # None => Stored(k) = transfer[r]
    BY DEF Stored
  <2>4. issued'[r] # None
    BY <2>1, <2>2, DayType, NoneApart
  <2>5. \A q \in Request : transfer[q] # None => transfer'[q] = transfer[q]
    BY <2>2, <2>3
  <2>6. \A q \in Request : issued[q] # None => issued'[q] # None
    BY <2>2, <2>4
  <2>7. \A q \in Request : transfer'[q] # None => issued'[q] # None
    BY <2>2, <2>4 DEF SubmitsStored
  <2>8. \A l \in Call : call'[l].pc = "submit" => transfer'[call'[l].req] = call'[l].tx
    <3> SUFFICES ASSUME NEW l \in Call, call'[l].pc = "submit"
                 PROVE  transfer'[call'[l].req] = call'[l].tx
      OBVIOUS
    <3>1. CASE l # k /\ call'[l] = call[l]
      <4>1. call[l].req \in Request /\ call[l].tx \in Nat /\ transfer[call[l].req] = call[l].tx
        BY <3>1 DEF Typed, SubmitsStored, At
      <4> QED
        BY <4>1, <3>1, <2>5, NoneApart
    <3>2. CASE l = k /\ call'[k].req = call[k].req /\ call'[k].tx = Stored(k)
      BY <3>2, <2>2
    <3> QED
      BY <1>1, <3>1, <3>2
  <2>9. sent' = sent
    BY <1>1 DEF Store
  <2>10. SentIsBooked'
    <3> SUFFICES ASSUME NEW a \in sent PROVE transfer'[a[1]] = a[2] /\ issued'[a[1]] # None
      BY <2>9 DEF SentIsBooked
    <3>1. a[1] \in Request /\ a[2] \in Nat /\ transfer[a[1]] = a[2] /\ issued[a[1]] # None
      BY DEF SentIsBooked
    <3> QED
      BY <3>1, <2>5, <2>6, NoneApart
  <2> QED
    BY <2>7, <2>8, <2>9, <2>10 DEF SubmitsStored, At
<1>2. ASSUME UNCHANGED vars PROVE G
  <2>1. tables' = tables /\ sent' = sent /\ call' = call
    BY <1>2 DEF vars
  <2> QED
    BY <1>0, <2>1
<1>3. ASSUME Tick PROVE G
  <2>1. tables' = tables /\ sent' = sent /\ call' = call
    BY <1>3 DEF Tick
  <2> QED
    BY <1>0, <2>1
<1>4. ASSUME NEW k \in Call, NEW r \in Request, Send(k, r) PROVE G
  <2>1. \A l \in Call : call'[l].pc = "submit" => call'[l] = call[l]
    BY <1>4 DEF Send, Typed, Idle
  <2> QED
    BY <1>0, <1>4, <2>1 DEF Send
<1>5. ASSUME NEW k \in Call, Connect(k) PROVE G
  <2>1. \A l \in Call : call'[l].pc = "submit" => call'[l] = call[l]
    BY <1>5 DEF Connect, Typed, CallState
  <2> QED
    BY <1>0, <1>5, <2>1 DEF Connect
<1>6. ASSUME NEW k \in Call, Found(k) PROVE G
  <2>1. \A l \in Call : l # k => call'[l] = call[l]
    BY <1>6 DEF Found, Typed
  <2>2. call'[k].req = call[k].req /\ call'[k].tx = transfer[call[k].req]
    BY <1>6 DEF Found, Typed, CallState
  <2> QED
    BY <1>0, <1>6, <2>1, <2>2 DEF Found
<1>7. ASSUME NEW k \in Call, Missing(k) \/ Reserve(k) \/ Prepare(k) PROVE G
  <2>1. \A l \in Call : call'[l].pc = "submit" => call'[l] = call[l]
    BY <1>7 DEF Missing, Reserve, Prepare, Typed, CallState
  <2> QED
    BY <1>0, <1>7, <2>1 DEF Missing, Reserve, Prepare
<1>8. ASSUME NEW k \in Call, Save(k) PROVE G
  <2>1. \A l \in Call : l # k => call'[l] = call[l]
    BY <1>8 DEF Save, Typed
  <2>2. call'[k].req = call[k].req /\ call'[k].tx = Stored(k)
    BY <1>8 DEF Save, Typed, CallState
  <2> QED
    BY <1>1, <1>8, <2>1, <2>2 DEF Save
<1>9. ASSUME NEW k \in Call, SaveUnanswered(k) PROVE G
  <2>1. \A l \in Call : call'[l].pc = "submit" => l # k /\ call'[l] = call[l]
    BY <1>9, IdleType DEF SaveUnanswered, Typed
  <2> QED
    BY <1>1, <1>9, <2>1 DEF SaveUnanswered
<1>10. ASSUME NEW k \in Call, Submit(k) PROVE G
  <2> DEFINE a == <<call[k].req, call[k].tx>>
  <2>1. call[k].req \in Request /\ call[k].tx \in Nat
    BY <1>10 DEF Submit, At, Typed
  <2>2. transfer[call[k].req] = call[k].tx /\ issued[call[k].req] # None
    BY <1>10, <2>1, NoneApart DEF Submit, SubmitsStored
  <2>3. sent' \subseteq sent \cup {a} /\ tables' = tables
    BY <1>10 DEF Submit
  <2>4. a \in Request \X Nat /\ a[1] = call[k].req /\ a[2] = call[k].tx
    BY <2>1
  <2>5. (sent \subseteq Request \X Nat)'
    BY <2>3, <2>4
  <2>6. SentIsBooked'
    BY <2>2, <2>3, <2>4 DEF SentIsBooked, tables
  <2>7. \A l \in Call : call'[l].pc = "submit" => call'[l] = call[l]
    BY <1>10 DEF Submit, Typed, CallState
  <2>8. SubmitsStored'
    BY <2>3, <2>7 DEF SubmitsStored, At, tables
  <2> QED
    BY <2>5, <2>6, <2>8
<1>11. ASSUME NEW k \in Call, Mark(k) PROVE G
  <2>1. \A l \in Call : call'[l].pc = "submit" => call'[l] = call[l]
    BY <1>11, IdleType DEF Mark, Typed
  <2>2. UNCHANGED <<issued, transfer, sent>>
    BY <1>11 DEF Mark
  <2> QED
    BY <2>1, <2>2 DEF SubmitsStored, SentIsBooked, At
<1>12. ASSUME NEW k \in Call, Throw(k) PROVE G
  <2>1. \A l \in Call : call'[l].pc = "submit" => call'[l] = call[l]
    BY <1>12, IdleType DEF Throw, Typed
  <2> QED
    BY <1>0, <1>12, <2>1 DEF Throw
<1>13. G
  <2> HIDE DEF G
  <2>1. ASSUME NEW k \in Call, Step(k) \/ Dies(k) PROVE G
    BY <2>1, <1>5, <1>6, <1>7, <1>8, <1>10, <1>11, <1>12 DEF Step, Refused, Dies
  <2> QED
    BY <2>1, <1>2, <1>3, <1>4, <1>9 DEF Next
<1> QED
  BY <1>t, <1>13

\* Whatever leaves the helper is stored and booked, so a request that is sent
\* again, by whatever call or process, pays what is stored and nothing else.
THEOREM PaidAsBooked == Spec => []SentIsBooked
<1>1. SentInv => SentIsBooked
  BY DEF SentInv
<1> QED
  BY InitSent, SentStep, <1>1, PTL DEF Spec

-----------------------------------------------------------------------------
\* No day is booked beyond its budget: the check of reserveIssuance holds at
\* the commit, because the day stays locked in between.
LEMMA BookedSubset ==
  ASSUME NEW S \in SUBSET Request, NEW T \in SUBSET S
  PROVE  Cardinality(T) \in Nat /\ Cardinality(S) \in Nat /\ Cardinality(T) <= Cardinality(S)
  <1>1. IsFiniteSet(S)
    BY HelperAssumption, FS_Subset
  <1> QED
    BY <1>1, FS_Subset, FS_CardinalityType

LEMMA InitBudget == Init => BudgetInv
  <1> SUFFICES ASSUME Init PROVE BudgetInv
    OBVIOUS
  <1>1. Typed
    BY InitTyped
  <1>2. Checked
    BY IdleType DEF Init, Checked
  <1>3. BudgetKept
    <2> SUFFICES ASSUME NEW d \in Day PROVE Cardinality(Booked(d)) <= Limit
      BY DEF BudgetKept
    <2>1. Booked(d) = {}
      BY DayType, NoneApart DEF Booked, Init
    <2> QED
      BY <2>1, FS_EmptySet, HelperAssumption
  <1> QED
    BY <1>1, <1>2, <1>3 DEF BudgetInv

LEMMA BudgetStep == BudgetInv /\ [Next]_vars => BudgetInv'
<1> SUFFICES ASSUME BudgetInv, [Next]_vars PROVE BudgetInv'
  OBVIOUS
<1>t. Typed'
  BY TypedStep DEF BudgetInv
<1> DEFINE G == Checked' /\ BudgetKept'
<1> USE DEF BudgetInv
\* Nothing is booked, nobody new has checked, and who has keeps its lock.
<1>0. ASSUME issued' = issued,
             \A l \in Call : call'[l].pc \in {"prepare", "save"} =>
               /\ call[l].pc \in {"prepare", "save"}
               /\ call'[l].day = call[l].day
               /\ dayLock'[call[l].day] = dayLock[call[l].day]
      PROVE  G
  <2>1. \A d : Booked(d)' = Booked(d)
    BY <1>0 DEF Booked
  <2>2. BudgetKept'
    BY <2>1 DEF BudgetKept
  <2>3. Checked'
    <3> SUFFICES ASSUME NEW l \in Call, NEW d \in Day,
                        call'[l].pc \in {"prepare", "save"}, call'[l].day = d
                 PROVE  dayLock'[d] = l /\ Cardinality(Booked(d)') < Limit
      BY DEF Checked
    <3>1. dayLock[d] = l /\ Cardinality(Booked(d)) < Limit
      BY <1>0 DEF Checked
    <3> QED
      BY <1>0, <2>1, <3>1
  <2> QED
    BY <2>2, <2>3
\* The commit of a call: nobody else has checked the day it books on.
<1>1. ASSUME NEW k \in Call, At(k, "save"), Store(k),
             \A l \in Call : call'[l].pc \in {"prepare", "save"} =>
               l # k /\ call'[l] = call[l]
      PROVE  G
  <2>1. PICK r \in Request, e \in Day : r = call[k].req /\ e = call[k].day
    BY <1>1 DEF Typed, At, CallState
  <2>2. dayLock[e] = k /\ Cardinality(Booked(e)) < Limit
    BY <1>1, <2>1 DEF Checked, At
  <2>3. issued' = [issued EXCEPT ![r] = e] /\ Free(k)
    BY <1>1, <2>1 DEF Store
  <2>4. ASSUME NEW d \in Day, d # e
        PROVE  Cardinality(Booked(d)') \in Nat /\ Cardinality(Booked(d)') <= Cardinality(Booked(d))
               /\ Cardinality(Booked(d)) \in Nat
    <3>1. Booked(d)' \subseteq Booked(d) /\ Booked(d) \subseteq Request
      BY <2>1, <2>3, <2>4 DEF Booked, Typed
    <3> QED
      BY <3>1, BookedSubset
  <2>5. Cardinality(Booked(e)') <= Limit
    <3>1. Booked(e)' \subseteq Booked(e) \cup {r} /\ Booked(e) \subseteq Request
      BY <2>1, <2>3 DEF Booked, Typed
    <3>2. IsFiniteSet(Booked(e))
      BY <3>1, HelperAssumption, FS_Subset
    <3>a. \/ Cardinality(Booked(e) \cup {r}) = Cardinality(Booked(e))
          \/ Cardinality(Booked(e) \cup {r}) = Cardinality(Booked(e)) + 1
      BY ONLY <3>2, FS_AddElement
    <3>b. Cardinality(Booked(e)) \in Nat
      BY ONLY <3>2, FS_CardinalityType
    <3>3. Cardinality(Booked(e)) \in Nat /\ Cardinality(Booked(e) \cup {r}) <= Cardinality(Booked(e)) + 1
          /\ Cardinality(Booked(e) \cup {r}) \in Nat
      BY ONLY <3>a, <3>b
    <3>4. Cardinality(Booked(e)') <= Cardinality(Booked(e) \cup {r})
          /\ Cardinality(Booked(e)') \in Nat
      BY <3>1, <2>1, BookedSubset
    <3> QED
      BY <2>2, <3>3, <3>4, HelperAssumption
  <2>6. BudgetKept'
    <3> SUFFICES ASSUME NEW d \in Day PROVE Cardinality(Booked(d)') <= Limit
      BY DEF BudgetKept
    <3>1. CASE d = e
      BY <3>1, <2>5
    <3>2. CASE d # e
      <4>1. Cardinality(Booked(d)) <= Limit
        BY DEF BudgetKept
      <4>2. Cardinality(Booked(d)') \in Nat /\ Cardinality(Booked(d)') <= Cardinality(Booked(d))
            /\ Cardinality(Booked(d)) \in Nat
        BY <2>4, <3>2
      <4> QED
        BY <4>1, <4>2, HelperAssumption
    <3> QED
      BY <3>1, <3>2
  <2>7. Checked'
    <3> SUFFICES ASSUME NEW l \in Call, NEW d \in Day,
                        call'[l].pc \in {"prepare", "save"}, call'[l].day = d
                 PROVE  dayLock'[d] = l /\ Cardinality(Booked(d)') < Limit
      BY DEF Checked
    <3>1. l # k /\ call'[l] = call[l]
      BY <1>1
    <3>2. dayLock[d] = l /\ Cardinality(Booked(d)) < Limit
      BY <3>1 DEF Checked, Typed, CallState
    <3>3. d # e
      BY <2>2, <3>1, <3>2
    <3>4. dayLock'[d] = l
      BY <2>3, <3>1, <3>2 DEF Free, Typed
    <3>5. Cardinality(Booked(d)') \in Nat /\ Cardinality(Booked(d)') <= Cardinality(Booked(d))
          /\ Cardinality(Booked(d)) \in Nat
      BY <2>4, <3>2, <3>3
    <3> QED
      BY <3>1, <3>2, <3>4, <3>5, HelperAssumption
  <2> QED
    BY <2>6, <2>7
<1>2. ASSUME UNCHANGED vars PROVE G
  <2>1. issued' = issued /\ dayLock' = dayLock /\ call' = call
    BY <1>2 DEF vars, tables, locks
  <2> QED
    BY <1>0, <2>1
<1>3. ASSUME Tick PROVE G
  <2>1. issued' = issued /\ dayLock' = dayLock /\ call' = call
    BY <1>3 DEF Tick, tables, locks
  <2> QED
    BY <1>0, <2>1
<1>4. ASSUME NEW k \in Call, NEW r \in Request, Send(k, r) PROVE G
  <2>1. issued' = issued /\ dayLock' = dayLock
    BY <1>4 DEF Send, tables, locks
  <2>2. \A l \in Call : call'[l].pc \in {"prepare", "save"} => call'[l] = call[l]
    BY <1>4 DEF Send, Typed, Idle
  <2> QED
    BY <1>0, <2>1, <2>2
<1>5. ASSUME NEW k \in Call, Connect(k) \/ Found(k) \/ Submit(k) PROVE G
  <2>1. issued' = issued /\ dayLock' = dayLock
    BY <1>5 DEF Connect, Found, Submit, tables, locks
  <2>2. \A l \in Call : call'[l].pc \in {"prepare", "save"} => call'[l] = call[l]
    BY <1>5 DEF Connect, Found, Submit, Typed, CallState
  <2> QED
    BY <1>0, <2>1, <2>2
<1>6. ASSUME NEW k \in Call, Missing(k) PROVE G
  <2>1. issued' = issued /\ dayLock' = dayLock
    BY <1>6 DEF Missing, tables
  <2>2. \A l \in Call : call'[l].pc \in {"prepare", "save"} => call'[l] = call[l]
    BY <1>6 DEF Missing, Typed, CallState
  <2> QED
    BY <1>0, <2>1, <2>2
<1>7. ASSUME NEW k \in Call, Reserve(k) PROVE G
  <2>0. PICK e \in Day : e = call[k].day
    BY DEF Typed, CallState
  <2>1. issued' = issued
    BY <1>7 DEF Reserve, tables
  <2>2. dayLock[e] = None /\ Cardinality(Booked(e)) < Limit
        /\ dayLock' = [dayLock EXCEPT ![e] = k]
    BY <1>7, <2>0 DEF Reserve
  <2>3. \A d : Booked(d)' = Booked(d)
    BY <2>1 DEF Booked
  <2>4. BudgetKept'
    BY <2>3 DEF BudgetKept
  <2>5. \A l \in Call : call'[l].day = call[l].day /\ (l # k => call'[l] = call[l])
    BY <1>7 DEF Reserve, Typed, CallState
  <2>6. Checked'
    <3> SUFFICES ASSUME NEW l \in Call, NEW d \in Day,
                        call'[l].pc \in {"prepare", "save"}, call[l].day = d
                 PROVE  dayLock'[d] = l /\ Cardinality(Booked(d)) < Limit
      BY <2>3, <2>5 DEF Checked
    <3>1. CASE l = k
      BY <3>1, <2>0, <2>2 DEF Typed
    <3>2. CASE l # k
      <4>1. dayLock[d] = l /\ Cardinality(Booked(d)) < Limit
        BY <3>2, <2>5 DEF Checked
      <4>2. d # e
        BY <4>1, <2>2, NoneApart
      <4> QED
        BY <4>1, <4>2, <2>2 DEF Typed
    <3> QED
      BY <3>1, <3>2
  <2> QED
    BY <2>4, <2>6
<1>8. ASSUME NEW k \in Call, Prepare(k) PROVE G
  <2>1. issued' = issued /\ dayLock' = dayLock
    BY <1>8 DEF Prepare, tables, locks
  <2>2. \A l \in Call : call'[l].day = call[l].day /\ (l # k => call'[l] = call[l])
    BY <1>8 DEF Prepare, Typed, CallState
  <2>3. call[k].pc = "prepare"
    BY <1>8 DEF Prepare, At
  <2> QED
    BY <1>0, <2>1, <2>2, <2>3
<1>9. ASSUME NEW k \in Call, Save(k) PROVE G
  <2>1. \A l \in Call : call'[l].pc \in {"prepare", "save"} => l # k /\ call'[l] = call[l]
    BY <1>9 DEF Save, Typed, CallState
  <2> QED
    BY <1>1, <1>9, <2>1 DEF Save
<1>10. ASSUME NEW k \in Call, SaveUnanswered(k) PROVE G
  <2>1. \A l \in Call : call'[l].pc \in {"prepare", "save"} => l # k /\ call'[l] = call[l]
    BY <1>10, IdleType DEF SaveUnanswered, Typed
  <2> QED
    BY <1>1, <1>10, <2>1 DEF SaveUnanswered
<1>11. ASSUME NEW k \in Call, Mark(k) PROVE G
  <2>1. issued' = issued /\ dayLock' = dayLock
    BY <1>11 DEF Mark, locks
  <2>2. \A l \in Call : call'[l].pc \in {"prepare", "save"} => call'[l] = call[l]
    BY <1>11, IdleType DEF Mark, Typed
  <2> QED
    BY <1>0, <2>1, <2>2
<1>12. ASSUME NEW k \in Call, Throw(k) PROVE G
  <2>1. issued' = issued
    BY <1>12 DEF Throw, tables
  <2>2. \A l \in Call : call'[l].pc \in {"prepare", "save"} => l # k /\ call'[l] = call[l]
    BY <1>12, IdleType DEF Throw, Typed
  <2>3. \A l \in Call : l # k /\ call[l].pc \in {"prepare", "save"} =>
          dayLock'[call[l].day] = dayLock[call[l].day]
    <3> SUFFICES ASSUME NEW l \in Call, l # k, call[l].pc \in {"prepare", "save"}
                 PROVE  dayLock'[call[l].day] = dayLock[call[l].day]
      OBVIOUS
    <3>1. call[l].day \in Day /\ dayLock[call[l].day] = l
      BY DEF Checked, Typed, CallState
    <3> QED
      BY <1>12, <3>1 DEF Throw, Free
  <2> QED
    BY <1>0, <2>1, <2>2, <2>3
<1>13. G
  <2> HIDE DEF G
  <2>1. ASSUME NEW k \in Call, Step(k) \/ Dies(k) PROVE G
    BY <2>1, <1>5, <1>6, <1>7, <1>8, <1>9, <1>11, <1>12 DEF Step, Refused, Dies
  <2> QED
    BY <2>1, <1>2, <1>3, <1>4, <1>10 DEF Next
<1> QED
  BY <1>t, <1>13

\* No day books more transfers than its budget, however the calls of several
\* processes interleave between the look at the budget and the commit.
THEOREM BudgetIsKept == Spec => []BudgetKept
<1>1. BudgetInv => BudgetKept
  BY DEF BudgetInv
<1> QED
  BY InitBudget, BudgetStep, <1>1, PTL DEF Spec
-----------------------------------------------------------------------------
\* A call that has submitted marks a transfer that is stored.
StatusTyped ==
  /\ requestLock \in [Request -> Call \cup {None}]
  /\ status \in [Request -> {"none", "signed", "broadcast_unknown"}]
  /\ \A r \in Request : transfer[r] = None <=> status[r] = "none"
  /\ \A k \in Call : call[k].pc \in {"reconnect", "mark"} => transfer[call[k].req] # None

TypeInv == SentInv /\ StatusTyped

LEMMA InitTypes == Init => TypeInv
<1>1. Init => StatusTyped
  BY IdleType DEF Init, StatusTyped, Idle
<1> QED BY <1>1, InitSent DEF TypeInv

LEMMA TypesStep == TypeInv /\ [Next]_vars => TypeInv'
<1> SUFFICES ASSUME TypeInv, [Next]_vars PROVE TypeInv'
  OBVIOUS
<1>t. SentInv' /\ Typed
  BY SentStep DEF TypeInv, SentInv
\* Nothing is stored: calls enter the last two waits from the ones before.
<1>0. ASSUME UNCHANGED <<transfer, status>>, requestLock' \in [Request -> Call \cup {None}],
             \A l \in Call : call'[l].pc \in {"reconnect", "mark"} =>
               /\ call'[l].req = call[l].req
               /\ call[l].pc \in {"submit", "reconnect", "mark"}
      PROVE  StatusTyped'
  <2> SUFFICES ASSUME NEW l \in Call, call'[l].pc \in {"reconnect", "mark"}
               PROVE  transfer[call'[l].req] # None
    BY <1>0 DEF StatusTyped, TypeInv
  <2>1. call'[l].req = call[l].req /\ call[l].pc \in {"submit", "reconnect", "mark"}
    BY <1>0
  <2>2. CASE call[l].pc = "submit"
    BY <1>t, <2>1, <2>2, NoneApart DEF TypeInv, SentInv, SubmitsStored, At, Typed
  <2> QED BY <2>1, <2>2 DEF TypeInv, StatusTyped
\* The bytes are stored.
<1>1. ASSUME NEW k \in Call, At(k, "save"), Store(k),
             \A l \in Call : call'[l].pc \in {"reconnect", "mark"} =>
               l # k /\ call'[l] = call[l]
      PROVE  StatusTyped'
  <2> DEFINE r == call[k].req
  <2>1. r \in Request /\ Stored(k) \in Nat
    BY <1>1, <1>t DEF Typed, At, CallState, Stored
  <2>2. /\ transfer'[r] # None /\ status'[r] # "none"
        /\ \A q \in Request : q # r => transfer'[q] = transfer[q] /\ status'[q] = status[q]
        /\ status' \in [Request -> {"none", "signed", "broadcast_unknown"}]
    BY <1>1, <1>t, <2>1, NoneApart DEF Store, Typed, TypeInv, StatusTyped
  <2>3. requestLock' \in [Request -> Call \cup {None}]
    BY <1>1 DEF Store, Free, TypeInv, StatusTyped
  <2>4. \A q \in Request : transfer'[q] = None <=> status'[q] = "none"
    BY <2>2 DEF TypeInv, StatusTyped
  <2>5. \A l \in Call : call'[l].pc \in {"reconnect", "mark"} => transfer'[call'[l].req] # None
    BY <1>1, <1>t, <2>1, <2>2 DEF TypeInv, StatusTyped, Typed
  <2> QED BY <2>2, <2>3, <2>4, <2>5 DEF StatusTyped
<1> DEFINE Apart(l) == call'[l].pc \in {"reconnect", "mark"} =>
                         /\ call'[l].req = call[l].req
                         /\ call[l].pc \in {"submit", "reconnect", "mark"}
<1>2. ASSUME UNCHANGED <<tables, locks, call>> PROVE StatusTyped'
  <2>1. transfer' = transfer /\ status' = status /\ requestLock' = requestLock /\ call' = call
    BY <1>2 DEF tables, locks
  <2> QED BY <2>1 DEF TypeInv, StatusTyped
<1>3. ASSUME Tick PROVE StatusTyped'
  BY <1>2, <1>3 DEF Tick
<1>4. ASSUME NEW k \in Call, NEW r \in Request, Send(k, r) PROVE StatusTyped'
  <2>1. \A l \in Call : Apart(l)
    BY <1>4, <1>t, IdleType DEF Send, Typed, Idle
  <2> QED BY <1>0, <1>4, <2>1 DEF Send, tables, locks, TypeInv, StatusTyped
<1>5. ASSUME NEW k \in Call, Connect(k) PROVE StatusTyped'
  <2>1. \A l \in Call : Apart(l)
    BY <1>5, <1>t DEF Connect, At, Typed, CallState
  <2> QED BY <1>0, <1>5, <2>1 DEF Connect, tables, locks, TypeInv, StatusTyped
<1>6. ASSUME NEW k \in Call, Found(k) \/ Missing(k) \/ Reserve(k) \/ Prepare(k)
      PROVE  StatusTyped'
  <2>1. \A l \in Call : Apart(l)
    BY <1>6, <1>t DEF Found, Missing, Reserve, Prepare, Typed, CallState
  <2>2. UNCHANGED <<transfer, status>>
    BY <1>6 DEF Found, Missing, Reserve, Prepare, tables
  <2>3. requestLock' \in [Request -> Call \cup {None}]
    BY <1>6 DEF Found, Missing, Reserve, Prepare, locks, TypeInv, StatusTyped
  <2> QED BY <1>0, <2>1, <2>2, <2>3
<1>7. ASSUME NEW k \in Call, Save(k) \/ SaveUnanswered(k) PROVE StatusTyped'
  <2>1. \A l \in Call : call'[l].pc \in {"reconnect", "mark"} => l # k /\ call'[l] = call[l]
    BY <1>7, <1>t, IdleType DEF Save, SaveUnanswered, Typed, CallState
  <2> QED BY <1>1, <1>7, <2>1 DEF Save, SaveUnanswered
<1>8. ASSUME NEW k \in Call, Submit(k) PROVE StatusTyped'
  <2>1. \A l \in Call : Apart(l)
    BY <1>8, <1>t DEF Submit, At, Typed, CallState
  <2> QED BY <1>0, <1>8, <2>1 DEF Submit, tables, locks, TypeInv, StatusTyped
<1>9. ASSUME NEW k \in Call, Mark(k) PROVE StatusTyped'
  <2> DEFINE r == call[k].req
  <2>1. r \in Request /\ transfer[r] # None
    BY <1>9, <1>t DEF Mark, At, Typed, TypeInv, StatusTyped
  <2>2. /\ status'[r] = "broadcast_unknown"
        /\ \A q \in Request : q # r => status'[q] = status[q]
        /\ status' \in [Request -> {"none", "signed", "broadcast_unknown"}]
        /\ UNCHANGED <<transfer, requestLock>>
    BY <1>9, <2>1 DEF Mark, locks, TypeInv, StatusTyped
  <2>3. \A l \in Call : call'[l].pc \in {"reconnect", "mark"} => call'[l] = call[l]
    BY <1>9, <1>t, IdleType DEF Mark, Typed
  <2> QED BY <2>1, <2>2, <2>3 DEF TypeInv, StatusTyped
<1>10. ASSUME NEW k \in Call, Throw(k) PROVE StatusTyped'
  <2>1. \A l \in Call : Apart(l)
    BY <1>10, <1>t, IdleType DEF Throw, Typed
  <2> QED BY <1>0, <1>10, <2>1 DEF Throw, Free, tables, TypeInv, StatusTyped
<1>11. StatusTyped'
  <2>1. ASSUME NEW k \in Call, Step(k) \/ Dies(k) PROVE StatusTyped'
    BY <2>1, <1>5, <1>6, <1>7, <1>8, <1>9, <1>10 DEF Step, Refused, Dies
  <2>2. UNCHANGED vars => StatusTyped'
    BY <1>2 DEF vars
  <2> QED BY <2>1, <2>2, <1>3, <1>4, <1>7 DEF Next
<1> QED BY <1>t, <1>11 DEF TypeInv

\* The tables, the locks and the calls have their types, and a transfer has a
\* state exactly when its bytes are stored, for any calls and processes.
THEOREM HelperIsTyped == Spec => []TypeOK
<1>1. TypeInv => TypeOK
  BY DEF TypeInv, SentInv, Typed, StatusTyped, TypeOK
<1> QED BY <1>1, InitTypes, TypesStep, PTL DEF Spec
=============================================================================
