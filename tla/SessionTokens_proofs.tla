----------------------- MODULE SessionTokens_proofs -----------------------
(***************************************************************************)
(* Who owns a session, for any number of sessions, sockets and tokens and  *)
(* any deadlines: the registry's three maps agree, and a token whose       *)
(* replacement was lost stays good until its window has passed.            *)
(*                                                                         *)
(* The second rests on the first and on three more facts.  A token and the *)
(* one before are different (Rotated), so that a sweep that forgets the    *)
(* one before keeps the session in the index.  What a client holds finds   *)
(* its own session or none (HeldIsOwn).  And the registry's window closes  *)
(* no earlier than the client's (Counting): it opens with the first lost   *)
(* answer, and a resume with the token before does not open it anew.       *)
(***************************************************************************)
EXTENDS SessionTokens, FiniteSetTheorems, TLAPS

\* The token of a session and the one before it differ.
Rotated == \A s \in Live : session[s].token # session[s].prev

\* The token a client holds is not another session's.
HeldIsOwn ==
  \A s \in Session : held[s] # None => byDigest[held[s]] \in {s, None}

\* A client that missed nothing holds the present token; one that missed an
\* answer holds one for which the registry's window is open as long.
Counting ==
  \A s \in Live : held[s] # None =>
    /\ lostLeft[s] = Undefined => held[s] = session[s].token
    /\ lostLeft[s] > 0 =>
         \/ held[s] = session[s].token
         \/ held[s] = session[s].prev /\ session[s].prevLeft >= lostLeft[s]

Maps == TypeOK /\ IndexesAgree /\ Rotated
Inv  == Maps /\ HeldIsOwn /\ Counting

(***************************************************************************)
(* A token nobody has                                                      *)
(***************************************************************************)

\* A function on the sessions has no more values than there are sessions.
LEMMA FewValues ==
  ASSUME NEW f, f = [s \in Session |-> f[s]]
  PROVE  LET V == {f[s] : s \in Session}
         IN /\ IsFiniteSet(V) /\ Cardinality(V) \in Nat
            /\ Cardinality(V) <= Cardinality(Session)
<1> DEFINE V == {f[s] : s \in Session}
<1>1. f \in Surjection(Session, V)  BY DEF Surjection
<1>2. IsFiniteSet(Session)  BY TokenAssumption
<1>3. IsFiniteSet(V) /\ Cardinality(V) <= Cardinality(Session)
  BY <1>1, <1>2, FS_Surjection
<1> QED  BY <1>3, FS_CardinalityType

\* Two finite sets together have no more elements than both of them.
LEMMA FewTogether ==
  ASSUME NEW A, NEW B, IsFiniteSet(A), IsFiniteSet(B)
  PROVE  /\ IsFiniteSet(A \cup B) /\ Cardinality(A \cup B) \in Nat
         /\ Cardinality(A \cup B) <= Cardinality(A) + Cardinality(B)
<1>1. IsFiniteSet(A \cap B)  BY FS_Subset
<1>2. IsFiniteSet(A \cup B) /\ Cardinality(A \cup B)
        = Cardinality(A) + Cardinality(B) - Cardinality(A \cap B)
  BY FS_Union
<1>3. /\ Cardinality(A) \in Nat /\ Cardinality(B) \in Nat
      /\ Cardinality(A \cap B) \in Nat /\ Cardinality(A \cup B) \in Nat
  BY <1>1, <1>2, FS_CardinalityType
<1> QED  BY <1>2, <1>3

\* Neither the registry nor a client has it.
Free(t) == byDigest[t] = None /\ \A s \in Session :
             held[s] # t /\ (s \in Live => t \notin {session[s].token, session[s].prev})

\* A fresh token exists, because the maps agree on which are in use.
LEMMA FreshIsFree ==
  ASSUME Maps
  PROVE  Fresh \in Token /\ Free(Fresh)
<1> DEFINE present == [s \in Session |-> IF s \in Live THEN session[s].token ELSE None]
           before  == [s \in Session |-> IF s \in Live THEN session[s].prev ELSE None]
           H == {held[s] : s \in Session}
           P == {present[s] : s \in Session}
           B == {before[s] : s \in Session}
<1>1. /\ IsFiniteSet(H) /\ Cardinality(H) \in Nat
      /\ Cardinality(H) <= Cardinality(Session)
  <2>1. held = [s \in Session |-> held[s]]  BY DEF Maps, TypeOK
  <2> QED  BY <2>1, FewValues
<1>2. /\ IsFiniteSet(P) /\ Cardinality(P) \in Nat
      /\ Cardinality(P) <= Cardinality(Session)
  <2>1. present = [s \in Session |-> present[s]]  OBVIOUS
  <2> HIDE DEF present
  <2> QED  BY <2>1, FewValues
<1>3. /\ IsFiniteSet(B) /\ Cardinality(B) \in Nat
      /\ Cardinality(B) <= Cardinality(Session)
  <2>1. before = [s \in Session |-> before[s]]  OBVIOUS
  <2> HIDE DEF before
  <2> QED  BY <2>1, FewValues
<1>4. Cardinality(Session) \in Nat  BY TokenAssumption, FS_CardinalityType
<1>5. \E t \in Token : t \notin H \cup P \cup B
  <2> HIDE DEF H, P, B
  <2>1. /\ IsFiniteSet(H \cup P) /\ Cardinality(H \cup P) \in Nat
        /\ Cardinality(H \cup P) <= Cardinality(H) + Cardinality(P)
    BY <1>1, <1>2, FewTogether
  <2>2. /\ IsFiniteSet(H \cup P \cup B) /\ Cardinality(H \cup P \cup B) \in Nat
        /\ Cardinality(H \cup P \cup B) <= Cardinality(H \cup P) + Cardinality(B)
    BY <2>1, <1>3, FewTogether
  <2>4. Cardinality(H \cup P \cup B) < Cardinality(Token)
    <3>1. Cardinality(Token) \in Nat  BY TokenSupply, FS_CardinalityType
    <3> QED  BY <3>1, <1>1, <1>2, <1>3, <1>4, <2>1, <2>2, TokenSupply
  <2>5. ~(Token \subseteq H \cup P \cup B)
    <3>1. SUFFICES ASSUME Token \subseteq H \cup P \cup B
                   PROVE  Cardinality(Token) <= Cardinality(H \cup P \cup B)
      <4>1. Cardinality(Token) \in Nat  BY TokenSupply, FS_CardinalityType
      <4> QED  BY <4>1, <2>2, <2>4
    <3> QED  BY <3>1, <2>2, FS_Subset
  <2> QED  BY <2>5
<1>6. PICK t \in Token : t \notin H \cup P \cup B  BY <1>5
<1>7. Free(t)
  <2>1. \A s \in Session : held[s] # t  BY <1>6
  <2>2. \A s \in Live : t \notin {session[s].token, session[s].prev}
    <3> SUFFICES ASSUME NEW s \in Live
                 PROVE  t \notin {session[s].token, session[s].prev}
      OBVIOUS
    <3>1. s \in Session  BY DEF Live
    <3>2. present[s] = session[s].token /\ before[s] = session[s].prev  BY <3>1
    <3>3. present[s] \in P /\ before[s] \in B  BY <3>1
    <3> QED  BY <3>2, <3>3, <1>6
  <2>3. byDigest[t] \in Session \cup {None}  BY DEF Maps, TypeOK
  <2>4. byDigest[t] \notin Session
    BY <2>2 DEF Maps, IndexesAgree
  <2> QED  BY <2>1, <2>2, <2>3, <2>4 DEF Free
<1> QED  BY <1>7 DEF Fresh, Free

(***************************************************************************)
(* The sweep                                                               *)
(***************************************************************************)

\* A session that is swept is gone; another keeps its token and its socket,
\* and loses the token before if its window has passed.
LEMMA SweptRecord ==
  ASSUME Maps, NEW s \in Session
  PROVE  /\ SweptSession(s) \in Record \cup {None}
         /\ SweptSession(s) = None <=> s \notin Live \ Dead
         /\ s \in Live \ Dead =>
              /\ session[s] \in Record /\ SweptSession(s) \in Record
              /\ SweptSession(s).token = session[s].token
              /\ SweptSession(s).socket = session[s].socket
              /\ s \notin Lapsed => SweptSession(s) = session[s]
              /\ s \in Lapsed => /\ SweptSession(s).prev = None
                                 /\ SweptSession(s).prevLeft = Undefined
<1>1. session[s] \in Record \cup {None}  BY DEF Maps, TypeOK
<1>2. CASE s \notin Live
  <2>1. session[s] = None /\ s \notin Dead /\ s \notin Lapsed
    BY <1>2 DEF Live, Dead, Lapsed
  <2> QED  BY <2>1, <1>2 DEF SweptSession
<1>3. CASE s \in Dead
  BY <1>3 DEF SweptSession
<1>4. CASE s \in Live \ Dead /\ s \in Lapsed
  <2>1. session[s] \in Record  BY <1>1, <1>4 DEF Live
  <2>2. SweptSession(s) = [session[s] EXCEPT !.prev = None, !.prevLeft = Undefined]
    BY <1>4 DEF SweptSession
  <2>3. /\ SweptSession(s) \in Record
        /\ SweptSession(s).token = session[s].token
        /\ SweptSession(s).socket = session[s].socket
        /\ SweptSession(s).prev = None
        /\ SweptSession(s).prevLeft = Undefined
    BY <2>1, <2>2 DEF Record, Left
  <2> QED  BY <2>1, <2>3, <1>4, NoneAssumption
<1>5. CASE s \in Live \ Dead /\ s \notin Lapsed
  <2>1. session[s] \in Record  BY <1>1, <1>5 DEF Live
  <2>2. SweptSession(s) = session[s]  BY <1>5 DEF SweptSession
  <2> QED  BY <2>1, <2>2, <1>5, NoneAssumption
<1> QED  BY <1>2, <1>3, <1>4, <1>5

\* After the sweep the maps agree again.
LEMMA SweptMaps ==
  ASSUME Maps
  PROVE  /\ \A t \in Token :
              /\ SweptDigest(t) \in Session \cup {None}
              /\ \A s \in Session :
                   SweptDigest(t) = s <=>
                     /\ s \in Live \ Dead
                     /\ t \in {SweptSession(s).token, SweptSession(s).prev}
         /\ \A k \in Socket :
              /\ SweptSocket(k) \in Session \cup {None}
              /\ \A s \in Session :
                   SweptSocket(k) = s <=>
                     s \in Live \ Dead /\ SweptSession(s).socket = k
<1>1. ASSUME NEW t \in Token
      PROVE  /\ SweptDigest(t) \in Session \cup {None}
             /\ \A s \in Session :
                  SweptDigest(t) = s <=>
                    /\ s \in Live \ Dead
                    /\ t \in {SweptSession(s).token, SweptSession(s).prev}
  <2>1. byDigest[t] \in Session \cup {None}  BY DEF Maps, TypeOK
  <2>2. SweptDigest(t) \in {byDigest[t], None}  BY DEF SweptDigest
  <2>3. t # None /\ None \notin Session  BY TokenAssumption
  <2>4. ASSUME NEW s \in Session, SweptDigest(t) = s
        PROVE  /\ s \in Live \ Dead
               /\ t \in {SweptSession(s).token, SweptSession(s).prev}
    <3>1. byDigest[t] = s /\ t \notin Gone  BY <2>4, <2>3 DEF SweptDigest
    <3>2. s \in Live /\ t \in {session[s].token, session[s].prev}
      BY <3>1 DEF Maps, IndexesAgree
    <3>3. s \notin Dead  BY <3>1, <3>2 DEF Gone
    <3>4. s \in Lapsed => t = session[s].token  BY <3>1, <3>2 DEF Gone
    <3> QED  BY <3>2, <3>3, <3>4, SweptRecord
  <2>5. ASSUME NEW s \in Live \ Dead,
               t \in {SweptSession(s).token, SweptSession(s).prev}
        PROVE  SweptDigest(t) = s
    <3>1. s \in Session  BY DEF Live
    <3>2. t \in {session[s].token, session[s].prev}
      BY <2>3, <2>5, <3>1, SweptRecord
    <3>3. byDigest[t] = s  BY <3>1, <3>2 DEF Maps, IndexesAgree
    <3>4. ASSUME NEW r \in Live, t \in {session[r].token, session[r].prev}
          PROVE  r = s
      BY <3>3, <3>4 DEF Maps, IndexesAgree, Live
    <3>5. t \notin {session[r].token : r \in Dead}
      BY <3>4 DEF Dead
    <3>6. t \notin {session[r].prev : r \in Dead \cup Lapsed}
      <4>1. SUFFICES ASSUME NEW r \in Dead \cup Lapsed, t = session[r].prev
                     PROVE  FALSE
        OBVIOUS
      <4>2. r = s /\ s \in Lapsed  BY <4>1, <3>4 DEF Dead, Lapsed
      <4>3. t = SweptSession(s).token /\ SweptSession(s).token = session[s].token
        BY <4>2, <2>3, <2>5, <3>1, SweptRecord
      <4> QED  BY <4>1, <4>2, <4>3 DEF Maps, Rotated
    <3> QED  BY <3>3, <3>5, <3>6 DEF SweptDigest, Gone
  <2> QED  BY <2>1, <2>2, <2>4, <2>5
<1>2. ASSUME NEW k \in Socket
      PROVE  /\ SweptSocket(k) \in Session \cup {None}
             /\ \A s \in Session :
                  SweptSocket(k) = s <=>
                    s \in Live \ Dead /\ SweptSession(s).socket = k
  <2>1. bySocket[k] \in Session \cup {None} /\ None \notin Session
    BY TokenAssumption DEF Maps, TypeOK
  <2>2. SweptSocket(k) \in {bySocket[k], None}  BY DEF SweptSocket
  <2>3. ASSUME NEW s \in Session, SweptSocket(k) = s
        PROVE  s \in Live \ Dead /\ SweptSession(s).socket = k
    <3>1. bySocket[k] = s /\ k \notin Closed  BY <2>3, <2>1 DEF SweptSocket
    <3>2. s \in Live /\ session[s].socket = k  BY <3>1 DEF Maps, IndexesAgree
    <3>3. s \notin Dead  BY <3>1, <3>2 DEF Closed
    <3> QED  BY <3>2, <3>3, SweptRecord
  <2>4. ASSUME NEW s \in Live \ Dead, SweptSession(s).socket = k
        PROVE  SweptSocket(k) = s
    <3>1. s \in Session  BY DEF Live
    <3>2. session[s].socket = k  BY <2>4, <3>1, SweptRecord
    <3>3. bySocket[k] = s  BY <3>1, <3>2 DEF Maps, IndexesAgree
    <3>4. k \notin Closed
      BY <3>3 DEF Closed, Maps, IndexesAgree, Live, Dead
    <3> QED  BY <3>3, <3>4 DEF SweptSocket
  <2> QED  BY <2>1, <2>2, <2>3, <2>4
<1> QED  BY <1>1, <1>2

(***************************************************************************)
(* What create, resume and authorize have in common                        *)
(***************************************************************************)

\* One session, new or not swept, gets a record, and the indexes follow; the
\* others are swept.
Rebuilds(s, r) ==
  /\ r \in Record /\ r.token # r.prev
  /\ session' = [i \in Session |-> IF i = s THEN r ELSE SweptSession(i)]
  /\ byDigest' \in [Token -> Session \cup {None}]
  /\ bySocket' \in [Socket -> Session \cup {None}]
  /\ \A t \in Token :
       /\ byDigest'[t] = s <=> t \in {r.token, r.prev}
       /\ \A i \in Session \ {s} : byDigest'[t] = i <=> SweptDigest(t) = i
  /\ \A k \in Socket :
       /\ bySocket'[k] = s <=> k = r.socket
       /\ \A i \in Session \ {s} : bySocket'[k] = i <=> SweptSocket(k) = i

\* Then the maps agree as before.
LEMMA RebuiltMaps ==
  ASSUME Maps, NEW s \in Session, NEW r, Rebuilds(s, r)
  PROVE  /\ session' \in [Session -> Record \cup {None}]
         /\ Live' = (Live \ Dead) \cup {s}
         /\ IndexesAgree' /\ Rotated'
<1>1. session' \in [Session -> Record \cup {None}]
  BY SweptRecord DEF Rebuilds
<1>2. Live' = (Live \ Dead) \cup {s}
  <2>1. \A i \in Session : session'[i] # None <=> i \in (Live \ Dead) \cup {s}
    BY SweptRecord, NoneAssumption DEF Rebuilds
  <2> QED  BY <2>1 DEF Live
<1>3. IndexesAgree'
  <2>1. ASSUME NEW t \in Token, NEW i \in Session
        PROVE  byDigest'[t] = i <=>
                 i \in Live' /\ t \in {session'[i].token, session'[i].prev}
    <3>1. CASE i = s  BY <3>1, <1>2 DEF Rebuilds
    <3>2. CASE i # s
      <4>1. session'[i] = SweptSession(i)  BY <3>2 DEF Rebuilds
      <4>2. byDigest'[t] = i <=> SweptDigest(t) = i  BY <3>2 DEF Rebuilds
      <4>3. i \in Live' <=> i \in Live \ Dead  BY <1>2, <3>2
      <4> QED  BY <4>1, <4>2, <4>3, SweptMaps
    <3> QED  BY <3>1, <3>2
  <2>2. ASSUME NEW k \in Socket, NEW i \in Session
        PROVE  bySocket'[k] = i <=> i \in Live' /\ session'[i].socket = k
    <3>1. CASE i = s  BY <3>1, <1>2 DEF Rebuilds
    <3>2. CASE i # s
      <4>1. session'[i] = SweptSession(i)  BY <3>2 DEF Rebuilds
      <4>2. bySocket'[k] = i <=> SweptSocket(k) = i  BY <3>2 DEF Rebuilds
      <4>3. i \in Live' <=> i \in Live \ Dead  BY <1>2, <3>2
      <4> QED  BY <4>1, <4>2, <4>3, SweptMaps
    <3> QED  BY <3>1, <3>2
  <2> QED  BY <2>1, <2>2 DEF IndexesAgree
<1>4. Rotated'
  <2> SUFFICES ASSUME NEW i \in Live' PROVE session'[i].token # session'[i].prev
    BY DEF Rotated
  <2>1. i \in Session  BY DEF Live
  <2>2. CASE i = s  BY <2>2 DEF Rebuilds
  <2>3. CASE i # s
    <3>1. i \in Live \ Dead /\ session'[i] = SweptSession(i)
      BY <2>1, <2>3, <1>2 DEF Rebuilds
    <3>2. session[i].token \in Token /\ session[i].token # session[i].prev
      BY <3>1, <2>1, SweptRecord DEF Maps, Rotated, Record
    <3> QED  BY <2>1, <3>1, <3>2, SweptRecord, TokenAssumption
  <2> QED  BY <2>2, <2>3
<1> QED  BY <1>1, <1>2, <1>3, <1>4

\* The others' tokens and windows are what they were, as far as it matters.
LEMMA RebuiltWindows ==
  ASSUME Inv, NEW s \in Session, NEW r, Rebuilds(s, r),
         \A i \in Session \ {s} : held'[i] = held[i] /\ lostLeft'[i] = lostLeft[i],
         \A i \in Session \ {s} : held[i] \notin {r.token, r.prev} \ {None},
         held'[s] # None => held'[s] \in Token /\ byDigest'[held'[s]] \in {s, None},
         held'[s] # None =>
           /\ lostLeft'[s] = Undefined => held'[s] = r.token
           /\ lostLeft'[s] > 0 =>
                \/ held'[s] = r.token
                \/ held'[s] = r.prev /\ r.prevLeft >= lostLeft'[s]
  PROVE  HeldIsOwn' /\ Counting'
<1> USE DEF Inv
<1>1. HeldIsOwn'
  <2> SUFFICES ASSUME NEW i \in Session, held'[i] # None
               PROVE  byDigest'[held'[i]] \in {i, None}
    BY DEF HeldIsOwn
  <2>1. CASE i = s  BY <2>1
  <2>2. CASE i # s
    <3>1. held'[i] = held[i] /\ held[i] \in Token
      BY <2>2 DEF Maps, TypeOK
    <3>2. byDigest[held[i]] \in {i, None}  BY <3>1 DEF HeldIsOwn
    <3>3. byDigest'[held[i]] # s  BY <3>1, <2>2 DEF Rebuilds
    <3>4. byDigest'[held[i]] \in Session \cup {None}  BY <3>1 DEF Rebuilds
    <3>5. \A j \in Session \ {s} : byDigest'[held[i]] = j => SweptDigest(held[i]) = j
      BY <3>1 DEF Rebuilds
    <3>6. SweptDigest(held[i]) \in {i, None}  BY <3>2 DEF SweptDigest
    <3> QED  BY <3>1, <3>3, <3>4, <3>5, <3>6, TokenAssumption
  <2> QED  BY <2>1, <2>2
<1>2. Counting'
  <2> SUFFICES ASSUME NEW i \in Live', held'[i] # None
               PROVE  /\ lostLeft'[i] = Undefined => held'[i] = session'[i].token
                      /\ lostLeft'[i] > 0 =>
                           \/ held'[i] = session'[i].token
                           \/ /\ held'[i] = session'[i].prev
                              /\ session'[i].prevLeft >= lostLeft'[i]
    BY DEF Counting
  <2>1. i \in Session  BY DEF Live
  <2>2. CASE i = s  BY <2>2 DEF Rebuilds
  <2>3. CASE i # s
    <3>1. i \in Live \ Dead  BY <2>3, RebuiltMaps
    <3>2. session'[i] = SweptSession(i)  BY <2>1, <2>3 DEF Rebuilds
    <3>3. held'[i] = held[i] /\ lostLeft'[i] = lostLeft[i]  BY <2>1, <2>3
    <3>4. session'[i].token = session[i].token
      BY <2>1, <3>1, <3>2, SweptRecord
    <3>5. lostLeft[i] = Undefined => held[i] = session[i].token
      BY <3>1, <3>3 DEF Counting
    <3>6. lostLeft[i] > 0 => \/ held[i] = session[i].token
                             \/ /\ held[i] = session[i].prev
                                /\ session[i].prevLeft >= lostLeft[i]
      BY <3>1, <3>3 DEF Counting
    <3>7. lostLeft[i] > 0 /\ session[i].prevLeft >= lostLeft[i]
            => session'[i] = session[i]
      <4>1. lostLeft[i] \in Int /\ session[i].prevLeft \in Int
        BY <2>1, <3>1, SweptRecord, TokenAssumption
           DEF Maps, TypeOK, Record, Left, Undefined
      <4>2. lostLeft[i] > 0 /\ session[i].prevLeft >= lostLeft[i]
              => i \notin Lapsed
        BY <4>1 DEF Lapsed
      <4> QED  BY <4>2, <2>1, <3>1, <3>2, SweptRecord
    <3> QED  BY <3>3, <3>4, <3>5, <3>6, <3>7
  <2> QED  BY <2>2, <2>3
<1> QED  BY <1>1, <1>2

(***************************************************************************)
(* The operations                                                          *)
(***************************************************************************)

\* The swept maps are well typed.
LEMMA SweptTypes ==
  ASSUME Maps
  PROVE  /\ \A t \in Token : SweptDigest(t) \in Session \cup {None}
         /\ \A k \in Socket : SweptSocket(k) \in Session \cup {None}
         /\ open \ Closed \subseteq Socket
BY SweptMaps DEF Maps, TypeOK

\* A create, on a socket whose session was swept or that had none.
LEMMA CreateStep ==
  ASSUME Inv, NEW k \in Socket, Create(k)
  PROVE  Inv'
<1> USE DEF Inv
<1> DEFINE s == CHOOSE i \in Session : i \notin Live
           t == Fresh
           r == [token |-> t, prev |-> None, prevLeft |-> Undefined,
                 socket |-> k, ttl |-> Ttl, grace |-> Undefined]
<1>1. s \in Session /\ s \notin Live  BY DEF Create, Live
<1>2. t \in Token /\ Free(t)  BY FreshIsFree
<1> HIDE DEF s, t
<1>3. /\ session' = [i \in Session |-> IF i = s THEN r ELSE SweptSession(i)]
      /\ byDigest' = [i \in Token |-> IF i = t THEN s ELSE SweptDigest(i)]
      /\ bySocket' = [i \in Socket |-> IF i = k THEN s ELSE SweptSocket(i)]
      /\ open' = open \ Closed
      /\ held' = [held EXCEPT ![s] = t] \/ held' = [held EXCEPT ![s] = None]
      /\ lostLeft' = [lostLeft EXCEPT ![s] = Undefined]
      /\ GetBound(k) = None
  BY DEF Create, s, t
<1>4. r \in Record /\ r.token # r.prev
  BY <1>2, TokenAssumption DEF Record, Left, Undefined
<1>5. \A i \in Token : i \in {r.token, r.prev} <=> i = t
  BY TokenAssumption
<1>6. \A i \in Token : SweptDigest(i) # s
  BY <1>1, SweptMaps
<1>7. \A i \in Socket : SweptSocket(i) # s
  BY <1>1, SweptMaps
<1>8. SweptDigest(t) = None  BY <1>2 DEF SweptDigest, Free
<1>9. SweptSocket(k) = None
  <2>1. SweptSocket(k) \in Session \cup {None} /\ SweptSocket(k) \in {bySocket[k], None}
    BY SweptTypes DEF SweptSocket
  <2>2. ASSUME NEW i \in Session, SweptSocket(k) = i  PROVE FALSE
    <3>1. bySocket[k] = i /\ i # None /\ i \in Live \ Dead
      BY <2>1, <2>2, SweptMaps, TokenAssumption
    <3>2. ~IsExpired(i)  BY <3>1 DEF Dead
    <3> QED  BY <1>3, <3>1, <3>2 DEF GetBound
  <2> QED  BY <2>1, <2>2
<1>10. Rebuilds(s, r)
  <2>1. byDigest' \in [Token -> Session \cup {None}]  BY <1>1, <1>3, SweptTypes
  <2>2. bySocket' \in [Socket -> Session \cup {None}]  BY <1>1, <1>3, SweptTypes
  <2>3. ASSUME NEW i \in Token
        PROVE  /\ byDigest'[i] = s <=> i \in {r.token, r.prev}
               /\ \A j \in Session \ {s} : byDigest'[i] = j <=> SweptDigest(i) = j
    BY <1>3, <1>5, <1>6, <1>8, TokenAssumption
  <2>4. ASSUME NEW i \in Socket
        PROVE  /\ bySocket'[i] = s <=> i = r.socket
               /\ \A j \in Session \ {s} : bySocket'[i] = j <=> SweptSocket(i) = j
    BY <1>3, <1>7, <1>9, TokenAssumption
  <2> HIDE DEF r
  <2> QED  BY <1>3, <1>4, <2>1, <2>2, <2>3, <2>4 DEF Rebuilds
<1>11. /\ held' \in [Session -> Token \cup {None}]
       /\ lostLeft' \in [Session -> Left(Recovery)]
       /\ open' \subseteq Socket
  BY <1>1, <1>2, <1>3, SweptTypes DEF Maps, TypeOK, Left
<1>12. Maps'
  <2> HIDE DEF r
  <2> QED  BY <1>1, <1>10, <1>11, RebuiltMaps DEF Maps, TypeOK, Rebuilds
<1>13. \A i \in Session \ {s} : held'[i] = held[i] /\ lostLeft'[i] = lostLeft[i]
  BY <1>1, <1>3 DEF Maps, TypeOK
<1>14. \A i \in Session \ {s} : held[i] \notin {r.token, r.prev} \ {None}
  BY <1>2 DEF Free
<1>15. held'[s] \in {t, None} /\ lostLeft'[s] = Undefined /\ byDigest'[t] = s
  BY <1>1, <1>2, <1>3 DEF Maps, TypeOK
<1>16. HeldIsOwn' /\ Counting'
  <2>1. held'[s] # None => held'[s] \in Token /\ byDigest'[held'[s]] \in {s, None}
    BY <1>2, <1>15
  <2>2. held'[s] # None =>
          /\ lostLeft'[s] = Undefined => held'[s] = r.token
          /\ lostLeft'[s] > 0 =>
               \/ held'[s] = r.token
               \/ held'[s] = r.prev /\ r.prevLeft >= lostLeft'[s]
    BY <1>15 DEF Undefined
  <2> HIDE DEF r
  <2> QED  BY <1>1, <1>10, <1>13, <1>14, <2>1, <2>2, RebuiltWindows
<1> QED  BY <1>12, <1>16

\* The client of s gets the new token, or keeps its own and its window is as
\* long as the registry's.
LEMMA AnsweredWindow ==
  ASSUME Inv, NEW k, NEW s \in Session, NEW r, Rebuilds(s, r),
         Free(r.token), r.token \in Token,
         s \in Live, r.prev = held[s], held[s] \in Token, byDigest[held[s]] = s,
         \/ r.prevLeft = Recovery
         \/ held[s] # session[s].token /\ r.prevLeft = session[s].prevLeft,
         Answered(k, s, r.token, held[s])
  PROVE  /\ held' \in [Session -> Token \cup {None}]
         /\ lostLeft' \in [Session -> Left(Recovery)]
         /\ HeldIsOwn' /\ Counting'
<1> USE DEF Inv
<1>1. /\ held \in [Session -> Token \cup {None}]
      /\ lostLeft \in [Session -> Left(Recovery)]
  BY DEF Maps, TypeOK
<1>2. held[s] # None  BY TokenAssumption
<1>3. \/ /\ held' = [held EXCEPT ![s] = r.token]
         /\ lostLeft' = [lostLeft EXCEPT ![s] = Undefined]
      \/ /\ held' = [held EXCEPT ![s] = held[s]]
         /\ lostLeft' = [lostLeft EXCEPT ![s] =
              IF lostLeft[s] # Undefined THEN lostLeft[s] ELSE Recovery]
  BY <1>1, <1>2 DEF Answered
<1>4. /\ held' \in [Session -> Token \cup {None}]
      /\ lostLeft' \in [Session -> Left(Recovery)]
  BY <1>1, <1>3, TokenAssumption DEF Left, Undefined
<1>5. \A i \in Session \ {s} : held'[i] = held[i] /\ lostLeft'[i] = lostLeft[i]
  BY <1>1, <1>3
<1>6. ASSUME NEW i \in Session \ {s}
      PROVE  held[i] \notin {r.token, r.prev} \ {None}
  <2>1. held[i] # r.token  BY DEF Free
  <2>2. held[i] # None => byDigest[held[i]] # s
    BY TokenAssumption DEF HeldIsOwn
  <2> QED  BY <2>1, <2>2
<1>7. held'[s] \in {r.token, r.prev} /\ held'[s] \in Token
  BY <1>1, <1>3
<1>8. byDigest'[held'[s]] = s  BY <1>7 DEF Rebuilds
<1>9. /\ lostLeft'[s] = Undefined => held'[s] = r.token
      /\ lostLeft'[s] > 0 =>
           \/ held'[s] = r.token
           \/ held'[s] = r.prev /\ r.prevLeft >= lostLeft'[s]
  <2>1. CASE held'[s] = r.token  BY <2>1
  <2>2. CASE held'[s] # r.token
    <3>1. lostLeft[s] \in Left(Recovery) /\ Recovery \in Nat \ {0}
      BY <1>1, TokenAssumption
    <3>2. lostLeft'[s] = IF lostLeft[s] # Undefined THEN lostLeft[s] ELSE Recovery
      BY <1>1, <1>3, <2>2
    <3>3. lostLeft'[s] \in 0 .. Recovery
      BY <3>1, <3>2 DEF Left, Undefined
    <3>4. held'[s] = r.prev  BY <1>7, <2>2
    <3>5. CASE r.prevLeft = Recovery
      BY <3>1, <3>3, <3>4, <3>5 DEF Undefined
    <3>6. CASE /\ held[s] # session[s].token
               /\ r.prevLeft = session[s].prevLeft
      <4>1. lostLeft[s] # Undefined
        BY <1>2, <3>6 DEF Counting
      <4>2. lostLeft[s] > 0 => session[s].prevLeft >= lostLeft[s]
        BY <1>2, <3>6 DEF Counting
      <4> QED  BY <3>2, <3>3, <3>4, <3>6, <4>1, <4>2 DEF Undefined
    <3> QED  BY <3>5, <3>6
  <2> QED  BY <2>1, <2>2
<1>10. HeldIsOwn' /\ Counting'
  BY <1>5, <1>6, <1>7, <1>8, <1>9, RebuiltWindows
<1> QED  BY <1>4, <1>10

\* A resume, from the token held: the one it replaces is the session's, so
\* the socket it leaves is never the one it takes.
LEMMA ResumeStep ==
  ASSUME Inv, NEW k \in Socket, NEW x \in Session, held[x] # None,
         Resume(k, held[x])
  PROVE  Inv'
<1> USE DEF Inv
<1> DEFINE t == held[x]
           s == byDigest[t]
           old == session[s].socket
           n == Fresh
           sockets == SocketsAfter(s, k)
           stale == old # None /\ sockets[old] = s
           r == [session[s] EXCEPT !.token = n, !.prev = PreviousOf(s, t),
                   !.prevLeft = IF IsRecoverable(s, t) THEN @ ELSE Recovery,
                   !.socket = IF stale THEN None ELSE k,
                   !.grace = IF stale THEN Grace ELSE Undefined]
<1>1. t \in Token  BY DEF Maps, TypeOK
<1>2. /\ s # None /\ s \in Live \ Dead /\ GetBound(k) = None
      /\ IsCurrent(s, t) \/ IsRecoverable(s, t)
  BY DEF Resume, Accepted
<1>3. s \in Session  BY <1>2 DEF Live
<1>4. s = x  BY <1>2 DEF HeldIsOwn
<1>5. n \in Token /\ Free(n)  BY FreshIsFree
<1>6. session[s] \in Record  BY <1>2, <1>3, SweptRecord
<1>7. old \in Socket \cup {None}  BY <1>6 DEF Record
<1>8. old # k
  <2>1. ASSUME old = k PROVE FALSE
    <3>1. bySocket[k] = s  BY <1>2, <1>3, <2>1 DEF Maps, IndexesAgree
    <3> QED  BY <1>2, <3>1 DEF GetBound, Dead
  <2> QED  BY <2>1
<1>9. ~stale
  <2>1. old \in Socket => sockets[old] = None
    BY <1>8 DEF SocketsAfter
  <2> QED  BY <1>2, <1>7, <2>1
<1> HIDE DEF s, n
<1>10. /\ session' = [i \in Session |-> IF i = s THEN r ELSE SweptSession(i)]
       /\ byDigest' = DigestsAfter(s, t, n)
       /\ bySocket' = [i \in Socket |-> IF stale /\ i = old THEN None ELSE sockets[i]]
       /\ open' = (open \ Closed) \ {old}
       /\ Answered(k, s, n, held[s])
  BY DEF Resume, s, n
<1>11. /\ r.token = n /\ r.prev = t /\ r.socket = k
       /\ r.prevLeft = IF IsRecoverable(s, t) THEN session[s].prevLeft ELSE Recovery
       /\ r \in Record
  <2>1. r = [session[s] EXCEPT !.token = n, !.prev = t,
               !.prevLeft = IF IsRecoverable(s, t) THEN session[s].prevLeft
                            ELSE Recovery,
               !.socket = k, !.grace = Undefined]
    <3> HIDE DEF stale, t
    <3> QED  BY <1>6, <1>9 DEF PreviousOf, Record
  <2> HIDE DEF r, t
  <2>2. /\ session[s].prevLeft \in Left(Recovery)
        /\ Recovery \in Left(Recovery) /\ Undefined \in Left(Grace)
    BY <1>6, TokenAssumption DEF Record, Left, Undefined
  <2>3. k \in Socket \cup {None} /\ t \in Token \cup {None} /\ n \in Token
    BY <1>1, <1>5
  <2>4. /\ r.token = n /\ r.prev = t /\ r.socket = k
        /\ r.prevLeft = IF IsRecoverable(s, t) THEN session[s].prevLeft
                        ELSE Recovery
    BY <2>1, <1>6 DEF Record
  <2>5. r \in Record
    BY <2>1, <2>2, <2>3, <1>6 DEF Record
  <2> QED  BY <2>4, <2>5
<1>12. r.token # r.prev  BY <1>2, <1>5, <1>11 DEF Free, s
<1>13. bySocket' = [i \in Socket |-> sockets[i]]
  <2> HIDE DEF stale, sockets
  <2> QED  BY <1>9, <1>10
<1> HIDE DEF r, stale, old
<1>14. \A i \in Token :
         SweptDigest(i) = s => i \in {session[s].token, session[s].prev}
  BY <1>3, TokenAssumption DEF SweptDigest, Maps, IndexesAgree, s
<1>15. SweptDigest(n) = None /\ SweptDigest(t) \in {s, None}
  BY <1>1, <1>5 DEF SweptDigest, Free, s
<1>16. \A i \in Token, j \in Session \ {s} :
         i \in {session[s].token, session[s].prev} => SweptDigest(i) # j
  <2> SUFFICES ASSUME NEW i \in Token, NEW j \in Session \ {s},
                      i \in {session[s].token, session[s].prev}
               PROVE  SweptDigest(i) # j
    OBVIOUS
  <2>1. byDigest[i] = s  BY <1>2, <1>3 DEF Maps, IndexesAgree
  <2> QED  BY <2>1, TokenAssumption DEF SweptDigest
<1>17. Rebuilds(s, r)
  <2>1. byDigest' \in [Token -> Session \cup {None}]
    BY <1>3, <1>10, SweptTypes DEF DigestsAfter
  <2>2. bySocket' \in [Socket -> Session \cup {None}]
    BY <1>3, <1>13, SweptTypes DEF SocketsAfter
  <2>3. ASSUME NEW i \in Token
        PROVE  /\ byDigest'[i] = s <=> i \in {r.token, r.prev}
               /\ \A j \in Session \ {s} : byDigest'[i] = j <=> SweptDigest(i) = j
    <3>1. byDigest'[i] = IF i \in {n, t} THEN s
                         ELSE IF i \in {session[s].token, session[s].prev} THEN None
                         ELSE SweptDigest(i)
      BY <1>10 DEF DigestsAfter, PreviousOf
    <3>2. CASE i \in {n, t}
      BY <3>1, <3>2, <1>3, <1>11, <1>15, TokenAssumption
    <3>3. CASE i \notin {n, t} /\ i \in {session[s].token, session[s].prev}
      BY <3>1, <3>3, <1>3, <1>11, <1>16, TokenAssumption
    <3>4. CASE i \notin {n, t} /\ i \notin {session[s].token, session[s].prev}
      BY <3>1, <3>4, <1>11, <1>14
    <3> QED  BY <3>2, <3>3, <3>4
  <2>4. ASSUME NEW i \in Socket
        PROVE  /\ bySocket'[i] = s <=> i = r.socket
               /\ \A j \in Session \ {s} : bySocket'[i] = j <=> SweptSocket(i) = j
    <3>1. bySocket'[i] = IF i = k THEN s
                         ELSE IF i = session[s].socket THEN None
                         ELSE SweptSocket(i)
      BY <1>13 DEF SocketsAfter
    <3>2. CASE i = k
      <4>1. ASSUME NEW j \in Session \ {s}, SweptSocket(k) = j PROVE FALSE
        <5>1. j \in Live \ Dead /\ bySocket[k] = j
          BY <4>1, SweptMaps, TokenAssumption DEF SweptSocket
        <5> QED  BY <1>2, <5>1, TokenAssumption DEF GetBound, Dead
      <4> QED  BY <3>1, <3>2, <4>1, <1>11
    <3>3. CASE i # k /\ i = session[s].socket
      <4>1. bySocket[i] = s  BY <3>3, <1>2, <1>3 DEF Maps, IndexesAgree
      <4>2. SweptSocket(i) \in {s, None}  BY <4>1 DEF SweptSocket
      <4> QED  BY <3>1, <3>3, <4>2, <1>3, <1>11, TokenAssumption
    <3>4. CASE i # k /\ i # session[s].socket
      <4>1. SweptSocket(i) # s
        BY <3>4, <1>3, TokenAssumption DEF SweptSocket, Maps, IndexesAgree, Live
      <4> QED  BY <3>1, <3>4, <4>1, <1>11
    <3> QED  BY <3>2, <3>3, <3>4
  <2> QED  BY <1>10, <1>11, <1>12, <2>1, <2>2, <2>3, <2>4 DEF Rebuilds
<1>18. \/ r.prevLeft = Recovery
       \/ held[s] # session[s].token /\ r.prevLeft = session[s].prevLeft
  <2>1. IsRecoverable(s, t) => t # session[s].token
    BY <1>2 DEF IsRecoverable, Maps, Rotated
  <2> QED  BY <1>4, <1>11, <2>1
<1>19. /\ held' \in [Session -> Token \cup {None}]
       /\ lostLeft' \in [Session -> Left(Recovery)]
       /\ HeldIsOwn' /\ Counting'
  <2>1. byDigest[held[s]] = s  BY <1>4 DEF s
  <2>2. Answered(k, s, r.token, held[s])  BY <1>10, <1>11
  <2>3. r.prev = held[s] /\ held[s] \in Token  BY <1>1, <1>4, <1>11
  <2> QED  BY <1>2, <1>3, <1>5, <1>11, <1>17, <1>18, <2>1, <2>2, <2>3,
              AnsweredWindow
<1>20. Maps'
  BY <1>3, <1>10, <1>17, <1>19, SweptTypes, RebuiltMaps DEF Maps, TypeOK, Rebuilds
<1> QED  BY <1>19, <1>20

\* An authorization, on the session's own socket.
LEMMA AuthorizeStep ==
  ASSUME Inv, NEW s \in Session, Authorize(s)
  PROVE  Inv'
<1> USE DEF Inv
<1> DEFINE n == Fresh
           k == session[s].socket
           r == [session[s] EXCEPT !.token = n, !.prev = session[s].token,
                                   !.prevLeft = Recovery]
<1>1. /\ s \in Live /\ held[s] = session[s].token
      /\ k \in open /\ GetBound(k) = s
  BY DEF Authorize
<1>2. s \notin Dead
  BY <1>1, TokenAssumption DEF GetBound, Dead
<1>3. n \in Token /\ Free(n)  BY FreshIsFree
<1>4. session[s] \in Record  BY <1>1, <1>2, SweptRecord
<1> HIDE DEF n
<1>5. /\ session' = [i \in Session |-> IF i = s THEN r ELSE SweptSession(i)]
      /\ byDigest' = [i \in Token |-> IF i = n THEN s
                        ELSE IF i = session[s].prev THEN None ELSE SweptDigest(i)]
      /\ bySocket' = [i \in Socket |-> SweptSocket(i)]
      /\ open' = open \ Closed
      /\ Answered(k, s, n, held[s])
  BY DEF Authorize, n
<1>6. /\ r.token = n /\ r.prev = held[s] /\ r.prevLeft = Recovery
      /\ r.socket = session[s].socket
  BY <1>1, <1>4 DEF Record
<1>7. r \in Record
  <2>1. Recovery \in Left(Recovery)  BY TokenAssumption DEF Left
  <2> QED  BY <2>1, <1>3, <1>4 DEF Record
<1>8. held[s] \in Token  BY <1>1, <1>4 DEF Record
<1>9. byDigest[held[s]] = s  BY <1>1, <1>8 DEF Maps, IndexesAgree
<1>10. r.token # r.prev  BY <1>3, <1>6 DEF Free
<1> HIDE DEF r
<1>11. Rebuilds(s, r)
  <2>1. byDigest' \in [Token -> Session \cup {None}]
    BY <1>5, SweptTypes
  <2>2. bySocket' \in [Socket -> Session \cup {None}]
    BY <1>5, SweptTypes
  <2>3. ASSUME NEW i \in Token
        PROVE  /\ byDigest'[i] = s <=> i \in {r.token, r.prev}
               /\ \A j \in Session \ {s} : byDigest'[i] = j <=> SweptDigest(i) = j
    <3>1. byDigest'[i] = IF i = n THEN s
                         ELSE IF i = session[s].prev THEN None ELSE SweptDigest(i)
      BY <1>5
    <3>2. CASE i = n
      <4>1. SweptDigest(i) = None  BY <3>2, <1>3 DEF SweptDigest, Free
      <4> QED  BY <3>1, <3>2, <4>1, <1>6, TokenAssumption
    <3>3. CASE i # n /\ i = session[s].prev
      <4>1. byDigest[i] = s  BY <3>3, <1>1 DEF Maps, IndexesAgree
      <4>2. SweptDigest(i) \in {s, None}  BY <4>1 DEF SweptDigest
      <4>3. i # held[s]  BY <3>3, <1>1 DEF Maps, Rotated
      <4> QED  BY <3>1, <3>3, <4>2, <4>3, <1>6, TokenAssumption
    <3>4. CASE i # n /\ i # session[s].prev
      <4>1. i = held[s] <=> byDigest[i] = s
        BY <3>4, <1>1 DEF Maps, IndexesAgree
      <4>2. SweptDigest(i) = s => byDigest[i] = s
        BY TokenAssumption DEF SweptDigest
      <4>3. i = held[s] => SweptDigest(i) = s
        <5>1. SweptSession(s).token = session[s].token
          BY <1>1, <1>2, SweptRecord
        <5> QED  BY <5>1, <1>1, <1>2, SweptMaps
      <4> QED  BY <3>1, <3>4, <4>1, <4>2, <4>3, <1>6
    <3> QED  BY <3>2, <3>3, <3>4
  <2>4. ASSUME NEW i \in Socket
        PROVE  /\ bySocket'[i] = s <=> i = r.socket
               /\ \A j \in Session \ {s} : bySocket'[i] = j <=> SweptSocket(i) = j
    <3>1. SweptSocket(i) = s <=> i = session[s].socket
      BY <1>1, <1>2, SweptMaps, SweptRecord
    <3> QED  BY <3>1, <1>5, <1>6
  <2> QED  BY <1>5, <1>7, <1>10, <2>1, <2>2, <2>3, <2>4 DEF Rebuilds
<1>12. /\ held' \in [Session -> Token \cup {None}]
       /\ lostLeft' \in [Session -> Left(Recovery)]
       /\ HeldIsOwn' /\ Counting'
  BY <1>1, <1>3, <1>5, <1>6, <1>8, <1>9, <1>11, AnsweredWindow
<1>13. Maps'
  BY <1>5, <1>11, <1>12, SweptTypes, RebuiltMaps DEF Maps, TypeOK, Rebuilds
<1> QED  BY <1>12, <1>13

\* A sweep by itself.
LEMMA SweepStep ==
  ASSUME Inv, Sweep
  PROVE  Inv'
<1> USE DEF Inv
<1>1. /\ session' = [s \in Session |-> SweptSession(s)]
      /\ byDigest' = [t \in Token |-> SweptDigest(t)]
      /\ bySocket' = [k \in Socket |-> SweptSocket(k)]
      /\ open' = open \ Closed /\ held' = held /\ lostLeft' = lostLeft
  BY DEF Sweep
<1>2. Live' = Live \ Dead
  BY <1>1, SweptRecord DEF Live
<1>3. TypeOK'
  BY <1>1, SweptTypes, SweptRecord DEF Maps, TypeOK
<1>4. IndexesAgree'
  BY <1>1, <1>2, SweptMaps DEF IndexesAgree
<1>5. Rotated'
  <2> SUFFICES ASSUME NEW s \in Live' PROVE session'[s].token # session'[s].prev
    BY DEF Rotated
  <2>1. s \in Live \ Dead /\ s \in Session  BY <1>2 DEF Live
  <2>2. session[s].token \in Token /\ session[s].token # session[s].prev
    BY <2>1, SweptRecord DEF Maps, Rotated, Record
  <2> QED  BY <1>1, <2>1, <2>2, SweptRecord, TokenAssumption
<1>6. HeldIsOwn'
  <2> SUFFICES ASSUME NEW s \in Session, held[s] # None
               PROVE  SweptDigest(held[s]) \in {s, None}
    BY <1>1 DEF HeldIsOwn, Maps, TypeOK
  <2> QED  BY DEF HeldIsOwn, SweptDigest
<1>7. Counting'
  <2> SUFFICES ASSUME NEW s \in Live', held'[s] # None
               PROVE  /\ lostLeft'[s] = Undefined => held'[s] = session'[s].token
                      /\ lostLeft'[s] > 0 =>
                           \/ held'[s] = session'[s].token
                           \/ /\ held'[s] = session'[s].prev
                              /\ session'[s].prevLeft >= lostLeft'[s]
    BY DEF Counting
  <2>1. s \in Live \ Dead /\ s \in Session  BY <1>2 DEF Live
  <2>2. /\ lostLeft[s] = Undefined => held[s] = session[s].token
        /\ lostLeft[s] > 0 => \/ held[s] = session[s].token
                              \/ /\ held[s] = session[s].prev
                                 /\ session[s].prevLeft >= lostLeft[s]
    BY <1>1, <2>1 DEF Counting
  <2>3. session'[s].token = session[s].token  BY <1>1, <2>1, SweptRecord
  <2>4. lostLeft[s] > 0 /\ session[s].prevLeft >= lostLeft[s]
          => session'[s] = session[s]
    <3>1. lostLeft[s] \in Int /\ session[s].prevLeft \in Int
      BY <2>1, SweptRecord, TokenAssumption
         DEF Maps, TypeOK, Record, Left, Undefined
    <3>2. lostLeft[s] > 0 /\ session[s].prevLeft >= lostLeft[s] => s \notin Lapsed
      BY <3>1 DEF Lapsed
    <3> QED  BY <3>2, <1>1, <2>1, SweptRecord
  <2> QED  BY <1>1, <2>2, <2>3, <2>4
<1> QED  BY <1>3, <1>4, <1>5, <1>6, <1>7 DEF Maps

\* A disconnect, of a socket with a session or without.
LEMMA DisconnectStep ==
  ASSUME Inv, NEW k \in Socket, Disconnect(k)
  PROVE  Inv'
<1> USE DEF Inv
<1> DEFINE s == GetBound(k)
<1>1. open' \subseteq Socket /\ held' = held /\ lostLeft' = lostLeft
  BY DEF Disconnect, Maps, TypeOK
<1>2. CASE s = None
  <2>1. UNCHANGED registry  BY <1>2 DEF Disconnect
  <2> QED
    BY <1>1, <2>1 DEF registry, Maps, TypeOK, IndexesAgree, Rotated, Live,
                      HeldIsOwn, Counting
<1>3. CASE s # None
  <2>1. s \in Session /\ bySocket[k] = s
    BY <1>3 DEF GetBound, Maps, TypeOK
  <2>2. s \in Live /\ session[s].socket = k
    BY <2>1 DEF Maps, IndexesAgree
  <2>3. session[s] \in Record  BY <2>1, <2>2 DEF Maps, TypeOK, Live
  <2> HIDE DEF s
  <2>4. /\ session' = [session EXCEPT ![s].socket = None, ![s].grace = Grace]
        /\ bySocket' = [bySocket EXCEPT ![k] = None]
        /\ byDigest' = byDigest
    BY <1>3 DEF Disconnect, s
  <2> DEFINE r == [session[s] EXCEPT !.socket = None, !.grace = Grace]
  <2>5. session' = [session EXCEPT ![s] = r]
    BY <2>1, <2>3, <2>4 DEF Maps, TypeOK, Record
  <2>6. /\ r.token = session[s].token /\ r.prev = session[s].prev
        /\ r.prevLeft = session[s].prevLeft /\ r.socket = None
    BY <2>3 DEF Record
  <2>7. r \in Record
    <3>1. Grace \in Left(Grace)  BY TokenAssumption DEF Left
    <3> QED  BY <2>3, <3>1 DEF Record
  <2> HIDE DEF r
  <2>8. TypeOK'
    <3>1. session' \in [Session -> Record \cup {None}]
      BY <2>1, <2>5, <2>7 DEF Maps, TypeOK
    <3>2. bySocket' \in [Socket -> Session \cup {None}]
      BY <2>4 DEF Maps, TypeOK
    <3> QED  BY <1>1, <2>4, <3>1, <3>2 DEF Maps, TypeOK
  <2>9. \A i \in Session :
          /\ session'[i] = None <=> session[i] = None
          /\ session'[i].token = session[i].token
          /\ session'[i].prev = session[i].prev
          /\ session'[i].prevLeft = session[i].prevLeft
          /\ session'[i].socket = IF i = s THEN None ELSE session[i].socket
    BY <2>1, <2>2, <2>5, <2>6, <2>7, NoneAssumption DEF Maps, TypeOK, Live
  <2>10. Live' = Live  BY <2>9 DEF Live
  <2>11. IndexesAgree'
    <3>1. \A t \in Token, i \in Session :
            byDigest'[t] = i <=>
              i \in Live' /\ t \in {session'[i].token, session'[i].prev}
      BY <2>4, <2>9, <2>10 DEF Maps, IndexesAgree
    <3>2. ASSUME NEW h \in Socket, NEW i \in Session
          PROVE  bySocket'[h] = i <=> i \in Live' /\ session'[i].socket = h
      <4>1. bySocket'[h] = IF h = k THEN None ELSE bySocket[h]
        BY <2>4 DEF Maps, TypeOK
      <4>2. bySocket[h] = i <=> i \in Live /\ session[i].socket = h
        BY DEF Maps, IndexesAgree
      <4>3. h = k => bySocket[h] = s  BY <2>1
      <4>4. i = s => session[i].socket = k  BY <2>2
      <4> QED  BY <4>1, <4>2, <4>3, <4>4, <2>9, <2>10, TokenAssumption
    <3> QED  BY <3>1, <3>2 DEF IndexesAgree
  <2>12. Rotated'
    BY <2>9, <2>10 DEF Maps, Rotated, Live
  <2>13. HeldIsOwn'  BY <1>1, <2>4 DEF HeldIsOwn
  <2>14. Counting'  BY <1>1, <2>9, <2>10 DEF Counting, Live
  <2> QED  BY <2>8, <2>11, <2>12, <2>13, <2>14 DEF Maps
<1> QED  BY <1>2, <1>3

\* What is left of a deadline stays within it.
LEMMA DownType ==
  ASSUME NEW b \in Nat, NEW d \in Left(b)
  PROVE  Down(d) \in Left(b)
BY DEF Down, Left, Undefined

\* The clock moves both windows alike.
LEMMA TickStep ==
  ASSUME Inv, Tick
  PROVE  Inv'
<1> USE DEF Inv
<1> DEFINE r(s) == [session[s] EXCEPT !.ttl = Down(session[s].ttl),
                                      !.grace = Down(session[s].grace),
                                      !.prevLeft = Down(session[s].prevLeft)]
<1>1. /\ session' = [s \in Session |-> IF s \notin Live THEN None ELSE r(s)]
      /\ lostLeft' = [s \in Session |-> Down(lostLeft[s])]
      /\ byDigest' = byDigest /\ bySocket' = bySocket /\ open' = open /\ held' = held
  <2>1. \A s \in Live : session[s] \in Record  BY DEF Live, Maps, TypeOK
  <2> QED  BY <2>1 DEF Tick, Record
<1>2. ASSUME NEW s \in Live
      PROVE  /\ session[s] \in Record /\ r(s) \in Record
             /\ r(s).token = session[s].token /\ r(s).prev = session[s].prev
             /\ r(s).prevLeft = Down(session[s].prevLeft)
             /\ r(s).socket = session[s].socket
  <2>1. session[s] \in Record  BY DEF Live, Maps, TypeOK
  <2>2. /\ Down(session[s].grace) \in Left(Grace)
        /\ Down(session[s].prevLeft) \in Left(Recovery)
    BY <2>1, DownType, TokenAssumption DEF Record
  <2>3. Down(session[s].ttl) \in 0 .. Ttl
    BY <2>1, TokenAssumption DEF Record, Down
  <2> QED  BY <2>1, <2>2, <2>3 DEF Record
<1> HIDE DEF r
<1>3. Live' = Live
  BY <1>1, <1>2, NoneAssumption DEF Live
<1>4. TypeOK'
  <2>1. session' \in [Session -> Record \cup {None}]  BY <1>1, <1>2
  <2>2. lostLeft' \in [Session -> Left(Recovery)]
    BY <1>1, DownType, TokenAssumption DEF Maps, TypeOK
  <2> QED  BY <1>1, <2>1, <2>2 DEF Maps, TypeOK
<1>5. \A s \in Live :
        /\ s \in Session /\ session'[s] = r(s)
        /\ session'[s].token = session[s].token
        /\ session'[s].prev = session[s].prev
        /\ session'[s].socket = session[s].socket
        /\ session'[s].prevLeft = Down(session[s].prevLeft)
  BY <1>1, <1>2 DEF Live
<1>6. IndexesAgree'
  BY <1>1, <1>3, <1>5 DEF Maps, IndexesAgree
<1>7. Rotated'
  BY <1>3, <1>5 DEF Maps, Rotated
<1>8. HeldIsOwn'  BY <1>1 DEF HeldIsOwn
<1>9. Counting'
  <2> SUFFICES ASSUME NEW s \in Live, held[s] # None
               PROVE  /\ lostLeft'[s] = Undefined => held[s] = session[s].token
                      /\ lostLeft'[s] > 0 =>
                           \/ held[s] = session[s].token
                           \/ /\ held[s] = session[s].prev
                              /\ Down(session[s].prevLeft) >= lostLeft'[s]
    BY <1>1, <1>3, <1>5 DEF Counting
  <2>1. lostLeft'[s] = Down(lostLeft[s])  BY <1>1, <1>5
  <2>2. /\ lostLeft[s] \in Left(Recovery)
        /\ session[s].prevLeft \in Left(Recovery)
    BY <1>2, <1>5 DEF Maps, TypeOK, Record
  <2>3. /\ lostLeft'[s] = Undefined => lostLeft[s] = Undefined
        /\ lostLeft'[s] > 0 =>
             /\ lostLeft[s] > 0
             /\ session[s].prevLeft >= lostLeft[s]
                  => Down(session[s].prevLeft) >= lostLeft'[s]
    BY <2>1, <2>2, TokenAssumption DEF Left, Undefined, Down
  <2> QED  BY <2>3 DEF Counting
<1> QED  BY <1>4, <1>6, <1>7, <1>8, <1>9 DEF Maps

(***************************************************************************)
(* The theorems                                                            *)
(***************************************************************************)

\* An empty registry.
LEMMA InvInit == Init => Inv
<1> SUFFICES ASSUME Init PROVE Inv  OBVIOUS
<1>1. Live = {}  BY DEF Init, Live
<1>2. TypeOK
  BY TokenAssumption DEF Init, TypeOK, Left, Undefined
<1>3. IndexesAgree  BY <1>1, TokenAssumption DEF Init, IndexesAgree
<1> QED
  BY <1>1, <1>2, <1>3 DEF Init, Inv, Maps, Rotated, HeldIsOwn, Counting

\* Every step preserves the invariant.
LEMMA InvStep == Inv /\ [Next]_vars => Inv'
<1> SUFFICES ASSUME Inv, [Next]_vars PROVE Inv'  OBVIOUS
<1>1. ASSUME NEW k \in Socket, Connect(k) PROVE Inv'
  BY <1>1 DEF Connect, registry, Inv, Maps, TypeOK, IndexesAgree, Rotated, Live,
              HeldIsOwn, Counting
<1>2. ASSUME NEW k \in Socket, NEW s \in Session, ResumeRefused(k, held[s])
      PROVE  Inv'
  BY <1>2, SweepStep DEF ResumeRefused
<1>3. CASE UNCHANGED vars
  BY <1>3 DEF vars, registry, Inv, Maps, TypeOK, IndexesAgree, Rotated, Live,
              HeldIsOwn, Counting
<1> QED
  BY <1>1, <1>2, <1>3, CreateStep, ResumeStep, AuthorizeStep, DisconnectStep,
     SweepStep, TickStep DEF Next

\* The invariant of the registry.
LEMMA InvHolds == Spec => []Inv
BY InvInit, InvStep, PTL DEF Spec

\* Sessions, indexes, sockets and the clients' tokens are well typed.
THEOREM SessionsAreTyped == Spec => []TypeOK
<1>1. Inv => TypeOK  BY DEF Inv, Maps
<1> QED  BY <1>1, InvHolds, PTL

\* The registry's three maps describe the same sessions, across rotations,
\* recoveries, disconnects and sweeps.
THEOREM IndexesStayTrue == Spec => []IndexesAgree
<1>1. Inv => IndexesAgree  BY DEF Inv, Maps
<1> QED  BY <1>1, InvHolds, PTL

\* Until the window of the first answer it missed has passed, a client holds
\* a token the registry knows its session by.
THEOREM LostAnswersRecover == Spec => []LostAnswerRecoverable
<1>1. ASSUME Inv PROVE LostAnswerRecoverable
  <2> SUFFICES ASSUME NEW s \in Live, held[s] # None, lostLeft[s] # 0
               PROVE  held[s] \in {session[s].token, session[s].prev}
    BY DEF LostAnswerRecoverable
  <2>1. lostLeft[s] \in Left(Recovery)
    BY <1>1 DEF Inv, Maps, TypeOK, Live
  <2>2. lostLeft[s] = Undefined \/ lostLeft[s] > 0
    BY <2>1, TokenAssumption DEF Left, Undefined
  <2> QED  BY <1>1, <2>2 DEF Inv, Counting
<1> QED  BY <1>1, InvHolds, PTL

=============================================================================
