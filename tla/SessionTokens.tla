-------------------------- MODULE SessionTokens --------------------------
(***************************************************************************)
(* Who owns a session: the bearer tokens and sockets of the registry in    *)
(* server/src/session/registry.ts, as socket.ts drives it.  A token is     *)
(* replaced on every resume and authorization; the answer that carries the *)
(* new one may be lost, and the one before stays good for a while.  Every  *)
(* deadline is kept as the time left until it, so that no clock is needed. *)
(* Matches and the identity a session carries are left to other modules.   *)
(***************************************************************************)
EXTENDS Integers, FiniteSets

CONSTANTS
  Session,      \* bound on the session ids in use at a time
  Socket,       \* socket ids in use at a time
  Token,        \* tokens in use at a time, numbered
  MaxSessions,  \* the registry's limit
  Ttl,          \* sessionTtlMs
  Grace,        \* reconnectGraceMs
  Recovery,     \* tokenRecoveryMs
  None

ASSUME TokenAssumption ==
  /\ IsFiniteSet(Session) /\ MaxSessions \in Nat
  /\ Token \subseteq Nat /\ None \notin Nat \cup Session \cup Socket
  /\ Ttl \in Nat \ {0} /\ Grace \in Nat \ {0} /\ Recovery \in Nat \ {0}

\* There is always a token nobody has: random ones never collide.
ASSUME TokenSupply ==
  IsFiniteSet(Token) /\ Cardinality(Token) > 3 * Cardinality(Session)

VARIABLES
  session,    \* sessions: id -> its record
  byDigest,   \* sessionsByDigest
  bySocket,   \* sessionsBySocket
  open,       \* sockets the server holds open
  held,       \* the token the client of each session last received
  lostLeft    \* history: what is left of the recovery window that opened
              \* with the first answer the client missed

registry == <<session, byDigest, bySocket>>
vars == <<registry, open, held, lostLeft>>

Undefined == -1
Left(n)   == {Undefined} \cup 0 .. n
Record == [token: Token, prev: Token \cup {None}, prevLeft: Left(Recovery),
           socket: Socket \cup {None}, ttl: 0 .. Ttl, grace: Left(Grace)]

ASSUME NoneAssumption == None \notin Record

TypeOK ==
  /\ session \in [Session -> Record \cup {None}]
  /\ byDigest \in [Token -> Session \cup {None}]
  /\ bySocket \in [Socket -> Session \cup {None}]
  /\ open \subseteq Socket
  /\ held \in [Session -> Token \cup {None}]
  /\ lostLeft \in [Session -> Left(Recovery)]

Init ==
  /\ session = [s \in Session |-> None]
  /\ byDigest = [t \in Token |-> None]
  /\ bySocket = [k \in Socket |-> None]
  /\ open = {}
  /\ held = [s \in Session |-> None]
  /\ lostLeft = [s \in Session |-> Undefined]

Live == {s \in Session : session[s] # None}

IsExpired(s) == session[s].ttl = 0 \/ session[s].grace = 0

\* getBound: the session of a socket, unless its time has run out.
GetBound(k) ==
  IF bySocket[k] = None THEN None
  ELSE IF IsExpired(bySocket[k]) THEN None ELSE bySocket[k]

Fresh == CHOOSE t \in Token : byDigest[t] = None /\ \A s \in Session :
           held[s] # t /\ (s \in Live => t \notin {session[s].token, session[s].prev})
-----------------------------------------------------------------------------
(* sweep(), which create, resume and authorize begin with                  *)

\* Mutant: a session without a socket is overlooked.
Dead_Bound == {s \in Live : IsExpired(s) /\ session[s].socket # None}

Dead == {s \in Live : IsExpired(s)}
Lapsed == {s \in Live : session[s].prevLeft = 0}
Gone == {session[s].token : s \in Dead} \cup {session[s].prev : s \in Dead \cup Lapsed}
Closed == {session[s].socket : s \in Dead}

\* onSessionClosed also disconnects the socket, before the caller goes on.
SweptSession(s) ==
  IF s \in Dead THEN None
  ELSE IF s \in Lapsed THEN [session[s] EXCEPT !.prev = None, !.prevLeft = Undefined]
  ELSE session[s]
SweptDigest(t) == IF t \in Gone THEN None ELSE byDigest[t]
SweptSocket(k) == IF k \in Closed THEN None ELSE bySocket[k]

Sweep ==
  /\ session' = [s \in Session |-> SweptSession(s)]
  /\ byDigest' = [t \in Token |-> SweptDigest(t)]
  /\ bySocket' = [k \in Socket |-> SweptSocket(k)]
  /\ open' = open \ Closed
  /\ UNCHANGED <<held, lostLeft>>
-----------------------------------------------------------------------------
(* What the client learns                                                  *)

\* The answer to s carries token t: it arrives, or the connection that was
\* to bring it is lost.  It cannot arrive on a socket the sweep has closed.
Answered(k, s, t, before) ==
  \/ /\ k \in open'
     /\ held' = [held EXCEPT ![s] = t]
     /\ lostLeft' = [lostLeft EXCEPT ![s] = Undefined]
  \/ /\ held' = [held EXCEPT ![s] = before]
     /\ lostLeft' = [lostLeft EXCEPT ![s] =
          IF before = None \/ @ # Undefined THEN @ ELSE Recovery]

Connect(k) ==
  /\ k \notin open
  /\ \A s \in Live : session[s].socket # k
  /\ open' = open \cup {k}
  /\ UNCHANGED <<registry, held, lostLeft>>

\* Ids are random in the code; here one is used again once it has been swept.
Create(k) ==
  /\ k \in open /\ GetBound(k) = None
  /\ Cardinality(Live \ Dead) < MaxSessions /\ Live # Session
  /\ LET s == CHOOSE i \in Session : i \notin Live
         t == Fresh
     IN
     /\ session' = [i \in Session |-> IF i = s
          THEN [token |-> t, prev |-> None, prevLeft |-> Undefined,
                socket |-> k, ttl |-> Ttl, grace |-> Undefined]
          ELSE SweptSession(i)]
     /\ byDigest' = [i \in Token |-> IF i = t THEN s ELSE SweptDigest(i)]
     /\ bySocket' = [i \in Socket |-> IF i = k THEN s ELSE SweptSocket(i)]
     /\ open' = open \ Closed
     /\ \/ k \in open' /\ held' = [held EXCEPT ![s] = t]
        \/ held' = [held EXCEPT ![s] = None]
     /\ lostLeft' = [lostLeft EXCEPT ![s] = Undefined]

\* Resume with token t: the current one, or the one before while no socket
\* holds the session and its window is open.
IsCurrent(s, t) == session[s].token = t
IsRecoverable(s, t) ==
  session[s].prev = t /\ session[s].prevLeft > 0 /\ session[s].socket = None

Accepted(s, t) ==
  s \in Live \ Dead /\ (IsCurrent(s, t) \/ IsRecoverable(s, t))

\* Mutant: the token kept is the one the registry had, not the one shown.
PreviousOf_Current(s, t) == session[s].token

PreviousOf(s, t) == t

\* Mutant: the replaced token stays in the index.
DigestsAfter_Kept(s, t, n) ==
  [i \in Token |-> IF i \in {n, PreviousOf(s, t)} THEN s ELSE SweptDigest(i)]

DigestsAfter(s, t, n) ==
  [i \in Token |-> IF i \in {n, PreviousOf(s, t)} THEN s
     ELSE IF i \in {session[s].token, session[s].prev} THEN None
     ELSE SweptDigest(i)]

SocketsAfter(s, k) ==
  [i \in Socket |-> IF i = k THEN s
     ELSE IF i = session[s].socket THEN None
     ELSE SweptSocket(i)]

\* The socket that held the session is disconnected once the answer is on
\* its way; by then it is in no index, and its disconnect event does nothing.
Resume(k, t) ==
  LET s == byDigest[t]
      old == session[s].socket
      sockets == SocketsAfter(s, k)
      stale == old # None /\ sockets[old] = s
  IN
  /\ k \in open /\ GetBound(k) = None
  /\ s # None /\ Accepted(s, t)
  /\ LET n == Fresh IN
     /\ session' = [i \in Session |-> IF i = s
          THEN [session[s] EXCEPT !.token = n, !.prev = PreviousOf(s, t),
                  !.prevLeft = IF IsRecoverable(s, t) THEN @ ELSE Recovery,
                  !.socket = IF stale THEN None ELSE k,
                  !.grace = IF stale THEN Grace ELSE Undefined]
          ELSE SweptSession(i)]
     /\ byDigest' = DigestsAfter(s, t, n)
     /\ bySocket' = [i \in Socket |-> IF stale /\ i = old THEN None ELSE sockets[i]]
     /\ open' = (open \ Closed) \ {old}
     /\ Answered(k, s, n, held[s])

\* SESSION_EXPIRED, with the sweep done.
ResumeRefused(k, t) ==
  /\ k \in open /\ GetBound(k) = None
  /\ byDigest[t] = None \/ ~Accepted(byDigest[t], t)
  /\ Sweep

\* identity.complete: the client, which holds the current token, proved its
\* wallet and the session's token is replaced on the same socket.
Authorize(s) ==
  /\ s \in Live /\ held[s] = session[s].token
  /\ session[s].socket \in open /\ GetBound(session[s].socket) = s
  /\ LET n == Fresh IN
     /\ session' = [i \in Session |-> IF i = s
          THEN [session[s] EXCEPT !.token = n, !.prev = session[s].token,
                                  !.prevLeft = Recovery]
          ELSE SweptSession(i)]
     /\ byDigest' = [i \in Token |-> IF i = n THEN s
                       ELSE IF i = session[s].prev THEN None ELSE SweptDigest(i)]
     /\ bySocket' = [i \in Socket |-> SweptSocket(i)]
     /\ open' = open \ Closed
     /\ Answered(session[s].socket, s, n, held[s])

\* The transport closes: registry.disconnect(socket.id).
Disconnect(k) ==
  /\ k \in open
  /\ open' = open \ {k}
  /\ LET s == GetBound(k) IN
     IF s = None THEN UNCHANGED registry
     ELSE /\ session' = [session EXCEPT ![s].socket = None, ![s].grace = Grace]
          /\ bySocket' = [bySocket EXCEPT ![k] = None]
          /\ UNCHANGED byDigest
  /\ UNCHANGED <<held, lostLeft>>

\* Mutant: a deadline that has passed goes on counting.
Down_Past(n) == n - 1

Down(n) == IF n > 0 THEN n - 1 ELSE n

Tick ==
  /\ session' = [s \in Session |-> IF s \notin Live THEN None
       ELSE [session[s] EXCEPT !.ttl = Down(@), !.grace = Down(@), !.prevLeft = Down(@)]]
  /\ lostLeft' = [s \in Session |-> Down(lostLeft[s])]
  /\ UNCHANGED <<byDigest, bySocket, open, held>>

Next ==
  \/ \E k \in Socket :
       \/ Connect(k) \/ Create(k) \/ Disconnect(k)
       \/ \E s \in Session : held[s] # None /\ (Resume(k, held[s]) \/ ResumeRefused(k, held[s]))
  \/ \E s \in Session : Authorize(s)
  \/ Sweep
  \/ Tick

Spec == Init /\ [][Next]_vars

\* Time passes and the sweep timer fires.
FairSpec == Spec /\ WF_vars(Tick) /\ WF_vars(Sweep)
-----------------------------------------------------------------------------
\* The three maps describe the same sessions: a digest finds the session
\* whose current or previous token it is, a socket the session bound to it,
\* and nothing else is found, across rotations, recoveries and sweeps.
IndexesAgree ==
  /\ \A t \in Token, s \in Session :
       byDigest[t] = s <=> s \in Live /\ t \in {session[s].token, session[s].prev}
  /\ \A k \in Socket, s \in Session :
       bySocket[k] = s <=> s \in Live /\ session[s].socket = k

\* "A bounded previous-token recovery window protects reconnects whose
\* rotation acknowledgement was lost": however many answers in a row the
\* client misses, until the window of the first one has passed the token it
\* holds is still one the registry knows the session by.
LostAnswerRecoverable ==
  \A s \in Live : held[s] # None /\ lostLeft[s] # 0 =>
    held[s] \in {session[s].token, session[s].prev}

\* A session whose transport is gone is resumed or removed.  A create that
\* runs on the socket of a session just swept binds to a dead socket and
\* gets no reconnect deadline; only the session's lifetime ends it.
DeadTransportEnds ==
  \A s \in Session :
    (s \in Live /\ session[s].socket \notin open) ~>
      (s \notin Live \/ session[s].socket \in open)
=============================================================================
