------------------------- MODULE SqlSessionsProofs -------------------------
(***************************************************************************)
(* What is proved of SqlSessions for any number of programs and clients,   *)
(* however they connect, type, leave and are pushed to: that a push goes   *)
(* to the client it is for unless the connection it was looked up for is   *)
(* gone, and that a client is reachable unless two of its sessions, or a   *)
(* push that outlives one, have met.                                       *)
(*                                                                         *)
(* The invariant follows a client's identity from its program to what it   *)
(* sends, from there to its session, to the registry, and to whoever has   *)
(* looked the registry up.                                                 *)
(***************************************************************************)
EXTENDS SqlSessions, FiniteSetTheorems, WellFoundedInduction, TLAPS

People == Clients \cup {Nobody}
Kinds == {"auth", "connected", "order", "exit", "welcome", "refused", "push"}
Messages == [kind : Kinds, client : People, meant : SUBSET Programs]
Pushes == [client : Clients, fd : Nat \ {NoFd}, to : SUBSET Programs]

\* Where a session is while it has a descriptor.
Open == {"read", "serve", "ending", "closing"}

SessionTypes ==
  /\ owner \in [Programs -> People]
  /\ program \in [Programs -> {"off", "auth", "open", "joining", "ended"}]
  /\ clientId \in [Programs -> People]
  /\ up \in [Programs -> Seq(Messages)]
  /\ down \in [Programs -> Seq(Messages)]
  /\ fd \in [Programs -> Nat]
  /\ session \in [Programs -> [at : {"none", "ended"} \cup Open, client : People]]
  /\ registry \in [Clients -> Nat]
  /\ todo \in [Threads -> Seq(Clients)]
  /\ hand \in [Threads -> SUBSET Pushes]

\* The messages of a stream.
Mail(stream) == {stream[i] : i \in DOMAIN stream}

\* A program says who it is once it is authenticated, and says the same ever
\* after; so its session knows it by that name or by none.
IdentityInv ==
  \A p \in Programs :
    /\ clientId[p] \in {owner[p], Nobody}
    /\ \A m \in Mail(up[p]) : m.kind = "auth" \/ m.client = clientId[p]
    /\ session[p].client \in {clientId[p], Nobody}
    /\ program[p] \in {"off", "auth"} =>
         session[p].client = Nobody /\ \A m \in Mail(up[p]) : m.kind = "auth"

\* A descriptor is of one open connection.
FdInv ==
  /\ \A p \in Programs : fd[p] # NoFd <=> session[p].at \in Open
  /\ \A p, q \in Programs : p # q /\ fd[p] # NoFd => fd[p] # fd[q]

\* The registry names descriptors of sessions of that client, which have still to
\* take them out.
RegistryInv ==
  \A c \in Clients : registry[c] # NoFd =>
    \E p \in Programs :
      fd[p] = registry[c] /\ session[p].client = c /\ session[p].at \in Open \ {"closing"}

\* What was looked up was the connection of a session of that client.
HandInv ==
  \A t \in Threads : \A push \in hand[t] :
    \E p \in Programs :
      push.to = {p} /\ session[p].client = push.client

\* A push that met the connection it was meant for met its client.
MailInv ==
  \A p \in Programs : \A m \in Mail(down[p]) :
    m.kind = "push" /\ p \in m.meant => m.client = owner[p]

SessionsInv ==
  SessionTypes /\ IdentityInv /\ FdInv /\ RegistryInv /\ HandInv /\ MailInv

\* Who races is noted.
RacedInv == Racing \subseteq raced

-----------------------------------------------------------------------------
\* Streams, descriptors and sets

LEMMA MailOf ==
  ASSUME NEW M, NEW s \in Seq(M)
  PROVE  /\ \A m \in M : Append(s, m) \in Seq(M) /\ Mail(Append(s, m)) = Mail(s) \cup {m}
         /\ s # <<>> => /\ Tail(s) \in Seq(M) /\ Mail(Tail(s)) \subseteq Mail(s)
                        /\ Head(s) \in Mail(s) /\ Head(s) \in M
<1>1. ASSUME NEW m \in M
      PROVE  Append(s, m) \in Seq(M) /\ Mail(Append(s, m)) = Mail(s) \cup {m}
  <2>1. /\ Append(s, m) \in Seq(M)
        /\ Len(Append(s, m)) = Len(s) + 1 /\ Append(s, m)[Len(s) + 1] = m
        /\ \A i \in 1 .. Len(s) : Append(s, m)[i] = s[i]
    OBVIOUS
  <2>2. DOMAIN s = 1 .. Len(s) /\ DOMAIN Append(s, m) = 1 .. Len(s) + 1
    OBVIOUS
  <2>3. Len(s) \in Nat
    OBVIOUS
  <2>4. \A i \in 1 .. Len(s) + 1 : i \in 1 .. Len(s) \/ i = Len(s) + 1
    BY <2>3
  <2>5. Mail(Append(s, m)) \subseteq Mail(s) \cup {m}
    BY <2>1, <2>2, <2>4 DEF Mail
  <2>6. Mail(s) \subseteq Mail(Append(s, m))
    BY <2>1, <2>2, <2>3 DEF Mail
  <2>7. m \in Mail(Append(s, m))
    BY <2>1, <2>2, <2>3 DEF Mail
  <2> QED BY <2>1, <2>5, <2>6, <2>7
<1>2. ASSUME s # <<>>
      PROVE  /\ Tail(s) \in Seq(M) /\ Mail(Tail(s)) \subseteq Mail(s)
             /\ Head(s) \in Mail(s) /\ Head(s) \in M
  <2>1. /\ Tail(s) \in Seq(M) /\ Len(Tail(s)) = Len(s) - 1
        /\ \A i \in 1 .. Len(s) - 1 : Tail(s)[i] = s[i + 1]
    BY <1>2
  <2>2. Len(s) \in Nat \ {0} /\ DOMAIN s = 1 .. Len(s) /\ Head(s) = s[1]
    BY <1>2
  <2>3. DOMAIN Tail(s) = 1 .. Len(s) - 1
    BY <2>1
  <2>4. Mail(Tail(s)) \subseteq Mail(s)
    BY <2>1, <2>2, <2>3 DEF Mail
  <2>5. Head(s) \in Mail(s) /\ Head(s) \in M
    BY <2>2 DEF Mail
  <2> QED BY <2>1, <2>4, <2>5
<1> QED BY <1>1, <1>2

\* A read takes the first messages and leaves the others.
LEMMA MailRead ==
  ASSUME NEW M, NEW s \in Seq(M), NEW n \in 1 .. Len(s)
  PROVE  LET read == SubSeq(s, 1, n)
             rest == SubSeq(s, Len(read) + 1, Len(s))
         IN  /\ read \in Seq(M) /\ read # <<>> /\ Mail(read) \subseteq Mail(s)
             /\ rest \in Seq(M) /\ Mail(rest) \subseteq Mail(s)
<1> DEFINE read == SubSeq(s, 1, n)
           rest == SubSeq(s, n + 1, Len(s))
<1>1. Len(s) \in Nat /\ n \in Nat /\ n >= 1 /\ n <= Len(s) /\ DOMAIN s = 1 .. Len(s)
  OBVIOUS
<1>2. read = [i \in 1 .. n |-> s[i]]
  BY <1>1
<1>3. rest = [i \in 1 .. Len(s) - n |-> s[i + n]]
  BY <1>1
<1>4. read \in Seq(M) /\ Len(read) = n /\ read # <<>>
  BY <1>1, <1>2
<1>5. rest \in Seq(M)
  BY <1>1, <1>3
<1>6. Mail(read) \subseteq Mail(s)
  BY <1>1, <1>2 DEF Mail
<1>7. Mail(rest) \subseteq Mail(s)
  BY <1>1, <1>3 DEF Mail
<1> HIDE DEF rest
<1> QED BY <1>4, <1>5, <1>6, <1>7 DEF rest

\* The lowest free descriptor is there, for there are as many as programs, and is
\* free.
LEMMA LowestIsFree ==
  ASSUME SessionTypes, NEW p \in Programs, fd[p] = NoFd
  PROVE  LET n == Min({k \in 1 .. Cardinality(Programs) : Holder(k) = {}})
         IN  n \in Nat \ {NoFd} /\ \A q \in Programs : fd[q] # n
<1> DEFINE N == Cardinality(Programs)
           Free == {k \in 1 .. N : Holder(k) = {}}
<1>1. N \in Nat /\ IsFiniteSet(Programs)
  BY FS_CardinalityType, SessionsAssumption
<1>2. Free # {}
  <2> SUFFICES ASSUME Free = {} PROVE FALSE
    OBVIOUS
  <2>1. \A k \in 1 .. N : \E q \in Programs \ {p} : fd[q] = k
    BY <1>1 DEF Holder, NoFd
  <2> DEFINE f == [k \in 1 .. N |-> CHOOSE q \in Programs \ {p} : fd[q] = k]
  <2>2. \A k \in 1 .. N : f[k] \in Programs \ {p} /\ fd[f[k]] = k
    BY <2>1
  <2>3. f \in [1 .. N -> Programs \ {p}]
    BY <2>2
  <2>4. IsFiniteSet(Programs \ {p}) /\ Cardinality(Programs \ {p}) = N - 1
    BY <1>1, FS_RemoveElement
  <2>5. N # 0
    BY <1>1, FS_EmptySet
  <2>6. IsFiniteSet(1 .. N) /\ Cardinality(1 .. N) = N
    BY <1>1, <2>5, FS_Interval
  <2>7. Cardinality(Programs \ {p}) < Cardinality(1 .. N)
    BY <1>1, <2>4, <2>6
  <2> DEFINE Wanted == 1 .. N
             Others == Programs \ {p}
  <2>8. \E x, y \in Wanted : x # y /\ f[x] = f[y]
    <3>1. f \in [Wanted -> Others] /\ IsFiniteSet(Wanted) /\ IsFiniteSet(Others)
      BY <2>3, <2>4, <2>6
    <3>2. Cardinality(Others) < Cardinality(Wanted)
      BY <2>7
    <3> HIDE DEF f, Wanted, Others
    <3> QED BY <3>1, <3>2, FS_PigeonHole
  <2> HIDE DEF f
  <2> QED BY <2>2, <2>8
<1>3. Free \subseteq Nat
  BY <1>1
<1> DEFINE R == OpToRel(<, Nat)
<1>4. \E m \in Free : \A k \in Free : ~ (<<k, m>> \in R)
  <2> HIDE DEF Free
  <2> QED BY <1>2, <1>3, NatLessThanWellFounded, WFMin
<1>5. \E m \in Free : \A k \in Free : m <= k
  <2>1. PICK m \in Free : \A k \in Free : ~ (<<k, m>> \in R)
    BY <1>4
  <2> HIDE DEF Free
  <2>2. ASSUME NEW k \in Free PROVE m <= k
    <3>1. k \in Nat /\ m \in Nat
      BY <1>3
    <3>2. ~ (k < m)
      BY <2>1, <3>1 DEF OpToRel
    <3> QED BY <3>1, <3>2
  <2> QED BY <2>2
<1>6. Min(Free) \in Free
  BY <1>5 DEF Min
<1>7. Min(Free) \in 1 .. N /\ Holder(Min(Free)) = {}
  <2> HIDE DEF N
  <2> QED BY <1>6
<1> DEFINE n == Min(Free)
<1>8. n \in Nat \ {NoFd} /\ Holder(n) = {}
  BY <1>1, <1>7 DEF NoFd
<1> HIDE DEF n
<1> QED BY <1>8 DEF Holder, n

LEMMA TwoAreMany ==
  ASSUME NEW S \in SUBSET Programs, NEW p \in S, NEW q \in S, p # q
  PROVE  Cardinality(S) > 1
<1>1. IsFiniteSet(S)
  BY FS_Subset, SessionsAssumption
<1>2. IsFiniteSet({p}) /\ Cardinality({p}) = 1
  BY FS_Singleton
<1>3. Cardinality({p} \cup {q}) = 2
  BY <1>2, FS_AddElement
<1>4. {p} \cup {q} \in SUBSET S
  OBVIOUS
<1>5. Cardinality({p} \cup {q}) <= Cardinality(S)
  BY <1>1, <1>4, FS_Subset
<1>6. Cardinality(S) \in Nat
  BY <1>1, FS_CardinalityType
<1> QED BY <1>3, <1>5, <1>6

-----------------------------------------------------------------------------
\* The programs

LEMMA SessionsInit == Init => SessionsInv /\ RacedInv
<1> SUFFICES ASSUME Init PROVE SessionsInv /\ RacedInv
  OBVIOUS
<1>1. SessionTypes
  BY SessionsAssumption DEF Init, SessionTypes, People, Open, NoSession, NoFd
<1>2. \A p \in Programs : Mail(up[p]) = {} /\ Mail(down[p]) = {}
  BY DEF Init, Mail
<1>3. IdentityInv /\ MailInv
  BY <1>2 DEF Init, IdentityInv, MailInv, NoSession
<1>4. FdInv /\ RegistryInv /\ HandInv
  BY DEF Init, FdInv, RegistryInv, HandInv, NoSession, Open
<1>5. RacedInv
  <2>1. \A c \in Clients : SessionsOf(c) = {}
    BY DEF Init, SessionsOf
  <2>2. \A t \in Threads : hand[t] = {}
    BY DEF Init
  <2>3. Cardinality({}) = 0
    BY FS_EmptySet
  <2> QED BY <2>1, <2>2, <2>3 DEF RacedInv, Racing
<1> QED BY <1>1, <1>3, <1>4, <1>5 DEF SessionsInv

\* A step of a program that says nothing and does not become somebody.
LEMMA QuietProgram ==
  ASSUME SessionsInv,
         UNCHANGED <<owner, clientId, up, fd, session, registry, todo, hand>>,
         program' \in [Programs -> {"off", "auth", "open", "joining", "ended"}],
         \A q \in Programs : program'[q] \in {"off", "auth"} => program[q] \in {"off", "auth"},
         down' \in [Programs -> Seq(Messages)],
         \A q \in Programs : Mail(down'[q]) \subseteq Mail(down[q])
  PROVE  SessionsInv'
<1>1. SessionTypes'
  BY DEF SessionsInv, SessionTypes
<1>2. IdentityInv'
  BY DEF SessionsInv, IdentityInv
<1>3. FdInv' /\ RegistryInv' /\ HandInv'
  BY DEF SessionsInv, FdInv, RegistryInv, HandInv
<1>4. MailInv'
  BY DEF SessionsInv, MailInv
<1> QED BY <1>1, <1>2, <1>3, <1>4 DEF SessionsInv

\* A step of a program that sends.
LEMMA SpeakingProgram ==
  ASSUME SessionsInv, NEW p \in Programs, NEW m \in Messages, NEW id \in {owner[p], Nobody},
         UNCHANGED <<owner, fd, session, registry, todo, hand>>,
         up' = [up EXCEPT ![p] = Append(@, m)],
         clientId' = [clientId EXCEPT ![p] = id],
         program' \in [Programs -> {"off", "auth", "open", "joining", "ended"}],
         \A q \in Programs \ {p} : program'[q] = program[q],
         program'[p] = "open" /\ m.client = id,
         program[p] = "auth" \/ clientId[p] = id,
         down' \in [Programs -> Seq(Messages)],
         \A q \in Programs : Mail(down'[q]) \subseteq Mail(down[q])
  PROVE  SessionsInv'
<1>1. /\ up'[p] \in Seq(Messages) /\ Mail(up'[p]) = Mail(up[p]) \cup {m}
      /\ \A q \in Programs \ {p} : up'[q] = up[q]
  <2>1. up[p] \in Seq(Messages)
    BY DEF SessionsInv, SessionTypes
  <2> QED BY <2>1, MailOf DEF SessionsInv, SessionTypes
<1>2. SessionTypes'
  <2>1. SessionTypes
    BY DEF SessionsInv
  <2>2. up' \in [Programs -> Seq(Messages)]
    <3>1. up \in [Programs -> Seq(Messages)] /\ Append(up[p], m) \in Seq(Messages)
      BY <2>1 DEF SessionTypes
    <3> QED BY <3>1
  <2>3. clientId' \in [Programs -> People]
    <3>1. owner[p] \in People /\ Nobody \in People
      BY <2>1 DEF SessionTypes, People
    <3> QED BY <2>1, <3>1 DEF SessionTypes
  <2> QED BY <2>1, <2>2, <2>3 DEF SessionTypes
<1>3. IdentityInv'
  <2> SUFFICES ASSUME NEW q \in Programs
               PROVE  /\ clientId'[q] \in {owner[q], Nobody}
                      /\ \A k \in Mail(up'[q]) : k.kind = "auth" \/ k.client = clientId'[q]
                      /\ session[q].client \in {clientId'[q], Nobody}
                      /\ program'[q] \in {"off", "auth"} =>
                           session[q].client = Nobody /\ \A k \in Mail(up'[q]) : k.kind = "auth"
    BY DEF IdentityInv
  <2>1. CASE q = p
    BY <1>1, <2>1 DEF SessionsInv, SessionTypes, IdentityInv
  <2>2. CASE q # p
    BY <1>1, <2>2 DEF SessionsInv, SessionTypes, IdentityInv
  <2> QED BY <2>1, <2>2
<1>4. FdInv' /\ RegistryInv' /\ HandInv'
  <2>1. FdInv'
    BY DEF SessionsInv, FdInv
  <2>2. RegistryInv'
    BY DEF SessionsInv, RegistryInv
  <2>3. HandInv'
    BY DEF SessionsInv, HandInv
  <2> QED BY <2>1, <2>2, <2>3
<1>5. MailInv'
  BY DEF SessionsInv, MailInv
<1> QED BY <1>2, <1>3, <1>4, <1>5 DEF SessionsInv

LEMMA ProgramInv ==
  ASSUME SessionsInv, NEW p \in Programs, Program(p)
  PROVE  SessionsInv'
<1>1. UNCHANGED <<owner, fd, session, registry, todo, hand>>
  BY DEF Program, MainThread, Launch, Authenticated, Turned, Leave, Join, Listen, Type,
         BrokenPipe, UserExits, EndProgram, server, programs
<1> DEFINE States == {"off", "auth", "open", "joining", "ended"}
<1>2. ASSUME down[p] # <<>>, down' = [down EXCEPT ![p] = Tail(@)]
      PROVE  /\ down' \in [Programs -> Seq(Messages)]
             /\ \A q \in Programs : Mail(down'[q]) \subseteq Mail(down[q])
  <2>1. down[p] \in Seq(Messages)
    BY DEF SessionsInv, SessionTypes
  <2>2. Tail(down[p]) \in Seq(Messages) /\ Mail(Tail(down[p])) \subseteq Mail(down[p])
    BY <1>2, <2>1, MailOf
  <2> QED BY <1>2, <2>2 DEF SessionsInv, SessionTypes
<1>3. ASSUME UNCHANGED down
      PROVE  /\ down' \in [Programs -> Seq(Messages)]
             /\ \A q \in Programs : Mail(down'[q]) \subseteq Mail(down[q])
  BY <1>3 DEF SessionsInv, SessionTypes
<1>4. CASE Turned(p) \/ BrokenPipe(p) \/ UserExits(p) \/ Leave(p) \/ Join(p)
  <2>1. UNCHANGED <<clientId, up, down>>
    BY <1>4 DEF Turned, BrokenPipe, UserExits, Leave, Join, EndProgram
  <2>2. /\ program' \in [Programs -> States]
        /\ \A q \in Programs : program'[q] \in {"off", "auth"} => program[q] \in {"off", "auth"}
    BY <1>4 DEF Turned, BrokenPipe, UserExits, Leave, Join, EndProgram, SessionsInv, SessionTypes
  <2> QED BY <1>1, <1>3, <2>1, <2>2, QuietProgram
<1>5. CASE Listen(p)
  <2>1. UNCHANGED <<clientId, up, program>>
    BY <1>5 DEF Listen
  <2>2. UNCHANGED down \/ (down[p] # <<>> /\ down' = [down EXCEPT ![p] = Tail(@)])
    BY <1>5, Zenon DEF Listen
  <2> QED BY <1>1, <1>2, <1>3, <2>1, <2>2, QuietProgram DEF SessionsInv, SessionTypes
<1>6. CASE Type(p)
  <2>1. PICK kind \in {"order", "exit"} :
          up' = [up EXCEPT ![p] = Append(@, Message(kind, clientId[p]))]
    BY <1>6 DEF Type
  <2>2. UNCHANGED <<clientId, program, down>> /\ program[p] = "open"
    BY <1>6 DEF Type, programs
  <2>3. Message(kind, clientId[p]) \in Messages /\ Message(kind, clientId[p]).client = clientId[p]
    BY DEF Message, Messages, Kinds, SessionsInv, SessionTypes
  <2>4. clientId[p] \in {owner[p], Nobody} /\ clientId' = [clientId EXCEPT ![p] = clientId[p]]
    BY <2>2 DEF SessionsInv, IdentityInv, SessionTypes
  <2>5. program' \in [Programs -> States]
    BY <2>2 DEF SessionsInv, SessionTypes
  <2> QED BY <1>1, <1>3, <2>1, <2>2, <2>3, <2>4, <2>5, SpeakingProgram
<1>7. CASE Authenticated(p)
  <2> DEFINE id == IF Head(down[p]).kind = "welcome" THEN owner[p] ELSE Nobody
  <2>1. /\ down[p] # <<>> /\ down' = [down EXCEPT ![p] = Tail(@)]
        /\ program[p] = "auth" /\ program' = [program EXCEPT ![p] = "open"]
        /\ clientId' = [clientId EXCEPT ![p] = id]
        /\ up' = [up EXCEPT ![p] = Append(@, Message("connected", clientId'[p]))]
    BY <1>7 DEF Authenticated
  <2>2. id \in {owner[p], Nobody} /\ id \in People /\ clientId'[p] = id
    BY <2>1 DEF SessionsInv, SessionTypes, People
  <2>3. Message("connected", id) \in Messages /\ Message("connected", id).client = id
    BY <2>2 DEF Message, Messages, Kinds
  <2>4. program' \in [Programs -> States] /\ program'[p] = "open"
        /\ \A q \in Programs \ {p} : program'[q] = program[q]
    BY <2>1 DEF SessionsInv, SessionTypes
  <2> HIDE DEF id
  <2> QED BY <1>1, <1>2, <2>1, <2>2, <2>3, <2>4, SpeakingProgram
<1>8. CASE Launch(p)
  <2>1. /\ program[p] = "off" /\ program' = [program EXCEPT ![p] = "auth"]
        /\ up' = [up EXCEPT ![p] = <<Message("auth", Nobody)>>]
        /\ UNCHANGED <<clientId, down>>
    BY <1>8 DEF Launch
  <2>2. Message("auth", Nobody) \in Messages /\ Message("auth", Nobody).kind = "auth"
    BY DEF Message, Messages, Kinds, People
  <2>3. /\ up'[p] \in Seq(Messages) /\ \A m \in Mail(up'[p]) : m.kind = "auth"
        /\ \A q \in Programs \ {p} : up'[q] = up[q]
    BY <2>1, <2>2 DEF SessionsInv, SessionTypes, Mail
  <2>4. SessionTypes'
    BY <1>1, <2>1, <2>3 DEF SessionsInv, SessionTypes
  <2>5. IdentityInv'
    <3> SUFFICES ASSUME NEW q \in Programs
                 PROVE  /\ clientId'[q] \in {owner'[q], Nobody}
                        /\ \A m \in Mail(up'[q]) : m.kind = "auth" \/ m.client = clientId'[q]
                        /\ session'[q].client \in {clientId'[q], Nobody}
                        /\ program'[q] \in {"off", "auth"} =>
                             session'[q].client = Nobody /\ \A m \in Mail(up'[q]) : m.kind = "auth"
      BY DEF IdentityInv
    <3>1. owner' = owner /\ session' = session /\ clientId' = clientId
      BY <1>1, <2>1
    <3>2. IdentityInv /\ program \in [Programs -> {"off", "auth", "open", "joining", "ended"}]
      BY DEF SessionsInv, SessionTypes
    <3>3. CASE q = p
      BY <2>1, <2>3, <3>1, <3>2, <3>3 DEF IdentityInv
    <3>4. CASE q # p
      <4>1. up'[q] = up[q] /\ program'[q] = program[q]
        BY <2>1, <2>3, <3>2, <3>4
      <4> QED BY <3>1, <3>2, <4>1 DEF IdentityInv
    <3> QED BY <3>3, <3>4
  <2>6. FdInv' /\ RegistryInv' /\ HandInv' /\ MailInv'
    BY <1>1, <2>1 DEF SessionsInv, FdInv, RegistryInv, HandInv, MailInv
  <2> QED BY <2>4, <2>5, <2>6 DEF SessionsInv
<1> QED BY <1>4, <1>5, <1>6, <1>7, <1>8 DEF Program, MainThread

-----------------------------------------------------------------------------
\* The sessions

LEMMA ReadMessages ==
  ASSUME SessionsInv, NEW p \in Programs, NEW n \in 1 .. Len(up[p]),
         Read(p, SubSeq(up[p], 1, n))
  PROVE  LET messages == SubSeq(up[p], 1, n)
         IN  /\ Head(messages) \in Mail(up[p]) /\ Head(messages) \in Messages
             /\ up' \in [Programs -> Seq(Messages)]
             /\ \A q \in Programs : Mail(up'[q]) \subseteq Mail(up[q])
             /\ UNCHANGED <<owner, program, clientId, fd, hand>>
             /\ session[p].at = "read"
<1> DEFINE messages == SubSeq(up[p], 1, n)
<1>1. up[p] \in Seq(Messages)
  BY DEF SessionsInv, SessionTypes
<1>2. /\ messages \in Seq(Messages) /\ messages # <<>> /\ Mail(messages) \subseteq Mail(up[p])
      /\ SubSeq(up[p], Len(messages) + 1, Len(up[p])) \in Seq(Messages)
      /\ Mail(SubSeq(up[p], Len(messages) + 1, Len(up[p]))) \subseteq Mail(up[p])
  BY <1>1, MailRead
<1>3. /\ up' = [up EXCEPT ![p] = SubSeq(@, Len(messages) + 1, Len(@))]
      /\ UNCHANGED <<owner, program, clientId, fd, hand>>
      /\ session[p].at = "read"
  BY DEF Read, programs
<1> HIDE DEF messages
<1>4. Head(messages) \in Mail(messages) /\ Head(messages) \in Messages
  BY <1>2, MailOf
<1>5. \A q \in Programs : up'[q] = IF q = p THEN SubSeq(up[p], Len(messages) + 1, Len(up[p]))
                                            ELSE up[q]
  BY <1>3 DEF SessionsInv, SessionTypes
<1>6. up' \in [Programs -> Seq(Messages)]
  BY <1>2, <1>3 DEF SessionsInv, SessionTypes
<1>7. \A q \in Programs : Mail(up'[q]) \subseteq Mail(up[q])
  BY <1>2, <1>5
<1> QED BY <1>2, <1>3, <1>4, <1>6, <1>7 DEF messages

\* A step of a session that stays open, for the client it is for, and leaves the
\* registry alone.
LEMMA QuietSession ==
  ASSUME SessionsInv, NEW p \in Programs, NEW at \in Open \ {"closing"},
         UNCHANGED <<owner, program, clientId, fd, registry, hand>>,
         session[p].at \in Open \ {"closing"},
         session' = [session EXCEPT ![p].at = at],
         todo' \in [Threads -> Seq(Clients)],
         up' \in [Programs -> Seq(Messages)],
         \A q \in Programs : Mail(up'[q]) \subseteq Mail(up[q]),
         down' \in [Programs -> Seq(Messages)],
         \A q \in Programs : \A m \in Mail(down'[q]) : m \in Mail(down[q]) \/ m.kind # "push"
  PROVE  SessionsInv'
<1>1. \A q \in Programs : /\ session'[q].client = session[q].client
                          /\ q # p => session'[q] = session[q]
                          /\ q = p => session'[q].at = at
  BY DEF SessionsInv, SessionTypes
<1>2. SessionTypes'
  BY DEF SessionsInv, SessionTypes
<1>3. IdentityInv'
  BY <1>1 DEF SessionsInv, IdentityInv
<1>4. \A q \in Programs :
        /\ (session'[q].at \in Open) <=> (session[q].at \in Open)
        /\ session[q].at \in Open \ {"closing"} => session'[q].at \in Open \ {"closing"}
  <2> TAKE q \in Programs
  <2>1. CASE q = p
    BY <1>1, <2>1, Zenon
  <2>2. CASE q # p
    BY <1>1, <2>2, Zenon
  <2> QED BY <2>1, <2>2
<1>5. FdInv'
  BY <1>4 DEF SessionsInv, FdInv
<1>6. RegistryInv'
  <2> SUFFICES ASSUME NEW c \in Clients, registry[c] # NoFd
               PROVE  \E q \in Programs : fd[q] = registry[c] /\ session'[q].client = c
                                          /\ session'[q].at \in Open \ {"closing"}
    BY DEF RegistryInv
  <2>1. PICK q \in Programs : fd[q] = registry[c] /\ session[q].client = c
                              /\ session[q].at \in Open \ {"closing"}
    BY DEF SessionsInv, RegistryInv
  <2> QED BY <1>1, <1>4, <2>1
<1>7. HandInv'
  <2> SUFFICES ASSUME NEW t \in Threads, NEW push \in hand[t]
               PROVE  \E q \in Programs : push.to = {q} /\ session'[q].client = push.client
    BY DEF HandInv
  <2>1. PICK q \in Programs : push.to = {q} /\ session[q].client = push.client
    BY DEF SessionsInv, HandInv
  <2>2. session'[q].client = session[q].client
    BY <1>1
  <2> QED BY <2>1, <2>2
<1>8. MailInv'
  BY Zenon DEF SessionsInv, MailInv
<1> QED BY <1>2, <1>3, <1>5, <1>6, <1>7, <1>8 DEF SessionsInv

\* What a session answers is no push.
LEMMA Answered ==
  ASSUME SessionsInv, NEW p \in Programs, NEW m \in Messages, m.kind # "push",
         down' = [down EXCEPT ![p] = Append(@, m)]
  PROVE  /\ down' \in [Programs -> Seq(Messages)]
         /\ \A q \in Programs : \A k \in Mail(down'[q]) : k \in Mail(down[q]) \/ k.kind # "push"
<1>1. down[p] \in Seq(Messages)
  BY DEF SessionsInv, SessionTypes
<1>2. Append(down[p], m) \in Seq(Messages) /\ Mail(Append(down[p], m)) = Mail(down[p]) \cup {m}
  BY <1>1, MailOf
<1>3. \A q \in Programs : down'[q] = IF q = p THEN Append(down[p], m) ELSE down[q]
  BY DEF SessionsInv, SessionTypes
<1>4. down' \in [Programs -> Seq(Messages)]
  BY <1>2 DEF SessionsInv, SessionTypes
<1> QED BY <1>2, <1>3, <1>4

LEMMA LoopHeadIsOpen ==
  ASSUME NEW s
  PROVE  \E at \in Open \ {"closing"} : LoopHead(s) = [s EXCEPT !.at = at]
BY DEF LoopHead, Open

\* A client that connects says who it is, and its session and the registry take its
\* word.
LEMMA ConnectedInv ==
  ASSUME SessionsInv, NEW p \in Programs, NEW n \in 1 .. Len(up[p]),
         Connected(p, SubSeq(up[p], 1, n))
  PROVE  SessionsInv'
<1> DEFINE messages == SubSeq(up[p], 1, n)
           client == Head(messages).client
<1>1. /\ Head(messages) \in Mail(up[p]) /\ Head(messages) \in Messages
      /\ up' \in [Programs -> Seq(Messages)]
      /\ \A q \in Programs : Mail(up'[q]) \subseteq Mail(up[q])
      /\ UNCHANGED <<owner, program, clientId, fd, hand>>
      /\ session[p].at = "read"
  BY ReadMessages DEF Connected
<1>2. /\ Head(messages).kind # "auth"
      /\ RegisterClientSocket(client, fd[p])
      /\ session' = [session EXCEPT ![p] = LoopHead([@ EXCEPT !.client = client])]
      /\ UNCHANGED <<down, todo>>
  BY DEF Connected
<1> HIDE DEF messages
<1>3. client = clientId[p] /\ client \in People
  BY <1>1, <1>2 DEF SessionsInv, IdentityInv, Messages
<1>4. program[p] \notin {"off", "auth"}
  BY <1>1, <1>2 DEF SessionsInv, IdentityInv
<1>5. \E at \in Open \ {"closing"} :
        LoopHead([session[p] EXCEPT !.client = client])
          = [[session[p] EXCEPT !.client = client] EXCEPT !.at = at]
  BY LoopHeadIsOpen
<1>6. PICK at \in Open \ {"closing"} :
        session' = [session EXCEPT ![p] = [[session[p] EXCEPT !.client = client] EXCEPT !.at = at]]
  BY <1>2, <1>5
<1> HIDE DEF client
<1>7. /\ session'[p].client = client /\ session'[p].at = at
      /\ \A q \in Programs : q # p => session'[q] = session[q]
  BY <1>6 DEF SessionsInv, SessionTypes
<1>8. registry' \in [Clients -> Nat]
      /\ \A c \in Clients : registry'[c] = IF c = client THEN fd[p] ELSE registry[c]
  BY <1>2, SessionsAssumption DEF RegisterClientSocket, SessionsInv, SessionTypes
<1>9. SessionTypes'
  <2> DEFINE Sessions == [at : {"none", "ended"} \cup Open, client : People]
  <2>1. [[session[p] EXCEPT !.client = client] EXCEPT !.at = at] \in Sessions
    <3>1. session[p] \in Sessions
      BY DEF SessionsInv, SessionTypes
    <3>2. [session[p] EXCEPT !.client = client] \in Sessions
      BY <1>3, <3>1
    <3> DEFINE said == [session[p] EXCEPT !.client = client]
    <3> HIDE DEF said
    <3>3. [said EXCEPT !.at = at] \in Sessions
      BY <3>2 DEF said
    <3> QED BY <3>3 DEF said
  <2>2. session' \in [Programs -> [at : {"none", "ended"} \cup Open, client : People]]
    BY <1>3, <1>6, <2>1 DEF SessionsInv, SessionTypes
  <2> QED BY <1>1, <1>2, <1>8, <2>2 DEF SessionsInv, SessionTypes
<1>10. \A q \in Programs : session[q].client \in Clients => session'[q].client = session[q].client
  BY <1>3, <1>7, SessionsAssumption DEF SessionsInv, IdentityInv
<1>11. IdentityInv'
  <2> SUFFICES ASSUME NEW q \in Programs
               PROVE  /\ clientId[q] \in {owner[q], Nobody}
                      /\ \A m \in Mail(up'[q]) : m.kind = "auth" \/ m.client = clientId[q]
                      /\ session'[q].client \in {clientId[q], Nobody}
                      /\ program[q] \in {"off", "auth"} =>
                           session'[q].client = Nobody /\ \A m \in Mail(up'[q]) : m.kind = "auth"
    BY <1>1 DEF IdentityInv
  <2>1. CASE q = p
    BY <1>1, <1>3, <1>4, <1>7, <2>1 DEF SessionsInv, IdentityInv
  <2>2. CASE q # p
    BY <1>1, <1>7, <2>2 DEF SessionsInv, IdentityInv
  <2> QED BY <2>1, <2>2
<1>12. \A q \in Programs : (session'[q].at \in Open) <=> (session[q].at \in Open)
  <2> SUFFICES ASSUME NEW q \in Programs
               PROVE  (session'[q].at \in Open) <=> (session[q].at \in Open)
    OBVIOUS
  <2>1. "read" \in Open
    BY DEF Open
  <2>2. CASE q = p
    BY <1>1, <1>7, <2>1, <2>2, Zenon
  <2>3. CASE q # p
    BY <1>7, <2>3, Zenon
  <2> QED BY <2>2, <2>3
<1>13. FdInv'
  BY <1>1, <1>12 DEF SessionsInv, FdInv
<1>14. RegistryInv'
  <2> SUFFICES ASSUME NEW c \in Clients, registry'[c] # NoFd
               PROVE  \E q \in Programs : fd[q] = registry'[c] /\ session'[q].client = c
                                          /\ session'[q].at \in Open \ {"closing"}
    BY <1>1 DEF RegistryInv
  <2>1. CASE c = client
    BY <1>6, <1>7, <1>8, <2>1
  <2>2. CASE c # client
    <3>1. PICK q \in Programs : fd[q] = registry[c] /\ session[q].client = c
                                /\ session[q].at \in Open \ {"closing"}
      BY <1>8, <2>2 DEF SessionsInv, RegistryInv
    <3>2. q # p
      BY <1>7, <1>10, <2>2, <3>1
    <3> QED BY <1>7, <1>8, <2>2, <3>1, <3>2
  <2> QED BY <2>1, <2>2
<1>15. HandInv'
  <2> SUFFICES ASSUME NEW t \in Threads, NEW push \in hand[t]
               PROVE  \E q \in Programs : push.to = {q} /\ session'[q].client = push.client
    BY <1>1 DEF HandInv
  <2>1. PICK q \in Programs : push.to = {q} /\ session[q].client = push.client
    BY DEF SessionsInv, HandInv
  <2>2. push.client \in Clients
    BY DEF SessionsInv, SessionTypes, Pushes
  <2> QED BY <1>10, <2>1, <2>2
<1>16. MailInv'
  BY <1>1, <1>2 DEF SessionsInv, MailInv
<1> QED BY <1>9, <1>11, <1>13, <1>14, <1>15, <1>16 DEF SessionsInv

LEMMA PartiesAreClients == Parties \subseteq Seq(Clients)
<1> SUFFICES ASSUME NEW x \in Parties PROVE x \in Seq(Clients)
  OBVIOUS
<1>1. CASE x = <<>>
  BY <1>1
<1>2. CASE x \in Clients \X Clients
  <2>1. PICK b \in Clients, s \in Clients : x = <<b, s>>
    BY <1>2
  <2> QED BY <2>1
<1> QED BY <1>1, <1>2 DEF Parties

\* The other steps of a session that stays open.
LEMMA TalkInv ==
  ASSUME SessionsInv, NEW p \in Programs,
         \/ Served(p) \/ EndOfStream(p)
         \/ \E n \in 1 .. Len(up[p]) :
              \/ Authenticate(p, SubSeq(up[p], 1, n))
              \/ ExitKeyword(p, SubSeq(up[p], 1, n))
              \/ PlaceOrder(p, SubSeq(up[p], 1, n))
  PROVE  SessionsInv'
<1>1. CASE Served(p) \/ EndOfStream(p)
  <2>1. /\ UNCHANGED <<owner, program, clientId, fd, registry, hand, up, down, todo>>
        /\ session[p].at \in Open \ {"closing"}
    BY <1>1 DEF Served, EndOfStream, programs, Open
  <2>2. \E at \in Open \ {"closing"} : session' = [session EXCEPT ![p].at = at]
    BY <1>1, LoopHeadIsOpen DEF Served, EndOfStream, LoopHead, Open
  <2>3. /\ todo' \in [Threads -> Seq(Clients)]
        /\ up' \in [Programs -> Seq(Messages)]
        /\ down' \in [Programs -> Seq(Messages)]
    BY <2>1 DEF SessionsInv, SessionTypes
  <2> QED BY <2>1, <2>2, <2>3, QuietSession
<1>2. ASSUME NEW n \in 1 .. Len(up[p]),
             \/ Authenticate(p, SubSeq(up[p], 1, n))
             \/ ExitKeyword(p, SubSeq(up[p], 1, n))
             \/ PlaceOrder(p, SubSeq(up[p], 1, n))
      PROVE  SessionsInv'
  <2> DEFINE messages == SubSeq(up[p], 1, n)
  <2>1. Read(p, messages)
    BY <1>2 DEF Authenticate, ExitKeyword, PlaceOrder
  <2>2. /\ Head(messages) \in Mail(up[p]) /\ Head(messages) \in Messages
        /\ up' \in [Programs -> Seq(Messages)]
        /\ \A q \in Programs : Mail(up'[q]) \subseteq Mail(up[q])
        /\ UNCHANGED <<owner, program, clientId, fd, hand>>
        /\ session[p].at = "read"
    BY <2>1, ReadMessages
  <2>3. session[p].at \in Open \ {"closing"}
    BY <2>2 DEF Open
  <2> HIDE DEF messages
  <2>4. CASE Authenticate(p, messages)
    <3> DEFINE answer == Message(IF owner[p] # Nobody /\ Len(messages) = 1 THEN "welcome"
                                                                        ELSE "refused", Nobody)
    <3>1. /\ down' = [down EXCEPT ![p] = Append(@, answer)]
          /\ session' = [session EXCEPT ![p] = LoopHead(@)]
          /\ UNCHANGED <<registry, todo>>
      BY <2>4 DEF Authenticate
    <3>2. answer \in Messages /\ answer.kind # "push"
      BY DEF Message, Messages, Kinds, People
    <3> HIDE DEF answer
    <3>3. /\ down' \in [Programs -> Seq(Messages)]
          /\ \A q \in Programs : \A m \in Mail(down'[q]) : m \in Mail(down[q]) \/ m.kind # "push"
      BY <3>1, <3>2, Answered
    <3>4. \E at \in Open \ {"closing"} : session' = [session EXCEPT ![p].at = at]
      BY <3>1, LoopHeadIsOpen
    <3>5. todo' \in [Threads -> Seq(Clients)]
      BY <3>1 DEF SessionsInv, SessionTypes
    <3> QED BY <2>2, <2>3, <3>1, <3>3, <3>4, <3>5, QuietSession
  <2>5. CASE ExitKeyword(p, messages)
    <3>1. /\ session' = [session EXCEPT ![p].at = "ending"]
          /\ UNCHANGED <<down, registry, todo>>
      BY <2>5 DEF ExitKeyword
    <3>2. "ending" \in Open \ {"closing"}
      BY DEF Open
    <3>3. todo' \in [Threads -> Seq(Clients)] /\ down' \in [Programs -> Seq(Messages)]
      BY <3>1 DEF SessionsInv, SessionTypes
    <3> QED BY <2>2, <2>3, <3>1, <3>2, <3>3, QuietSession
  <2>6. CASE PlaceOrder(p, messages)
    <3>1. UNCHANGED <<down, registry>>
      BY <2>6 DEF PlaceOrder
    <3>2. \E at \in Open \ {"closing"} : session' = [session EXCEPT ![p].at = at]
      <4>1. \/ session' = [session EXCEPT ![p] = LoopHead(@)]
            \/ session' = [session EXCEPT ![p].at = "serve"]
        BY <2>6 DEF PlaceOrder
      <4>2. "serve" \in Open \ {"closing"}
        BY DEF Open
      <4> QED BY <4>1, <4>2, LoopHeadIsOpen
    <3>3. todo' \in [Threads -> Seq(Clients)]
      <4>1. CASE UNCHANGED todo
        BY <4>1 DEF SessionsInv, SessionTypes
      <4>2. CASE todo' # todo
        <5>1. /\ Head(messages).client # Nobody
              /\ \E parties \in Parties :
                   todo' = [todo EXCEPT ![p] = <<Head(messages).client>> \o parties]
          BY <2>6, <4>2 DEF PlaceOrder
        <5>2. Head(messages).client \in Clients
          BY <2>2, <5>1 DEF Messages, People
        <5>3. PICK parties \in Parties :
                todo' = [todo EXCEPT ![p] = <<Head(messages).client>> \o parties]
          BY <5>1
        <5>4. parties \in Seq(Clients)
          BY PartiesAreClients
        <5>5. <<Head(messages).client>> \o parties \in Seq(Clients)
          BY <5>2, <5>4
        <5> QED BY <5>3, <5>5 DEF SessionsInv, SessionTypes, Threads
      <4> QED BY <4>1, <4>2
    <3>4. down' \in [Programs -> Seq(Messages)]
      BY <3>1 DEF SessionsInv, SessionTypes
    <3> QED BY <2>2, <2>3, <3>1, <3>2, <3>3, <3>4, QuietSession
  <2> QED BY <1>2, <2>4, <2>5, <2>6 DEF messages
<1> QED BY <1>1, <1>2

\* A connection gets a descriptor nobody has, and so one the registry does not name.
LEMMA AcceptInv ==
  ASSUME SessionsInv, NEW p \in Programs, Accept(p)
  PROVE  SessionsInv'
<1> DEFINE n == Min({k \in 1 .. Cardinality(Programs) : Holder(k) = {}})
<1>1. /\ session[p] = NoSession
      /\ fd' = [fd EXCEPT ![p] = n]
      /\ session' = [session EXCEPT ![p].at = "read"]
      /\ UNCHANGED <<owner, program, clientId, up, down, registry, todo, hand>>
  BY DEF Accept, programs
<1>2. fd[p] = NoFd
  BY <1>1 DEF NoSession, Open, SessionsInv, FdInv
<1>3. n \in Nat \ {NoFd} /\ \A q \in Programs : fd[q] # n
  BY <1>2, LowestIsFree DEF SessionsInv
<1> HIDE DEF n
<1>4. /\ fd'[p] = n /\ session'[p].at = "read" /\ "read" \in Open
      /\ \A q \in Programs : q # p => fd'[q] = fd[q] /\ session'[q] = session[q]
      /\ \A q \in Programs : session'[q].client = session[q].client
  BY <1>1 DEF SessionsInv, SessionTypes, Open
<1>5. SessionTypes'
  BY <1>1, <1>3 DEF SessionsInv, SessionTypes, Open
<1>6. IdentityInv'
  BY <1>1, <1>4 DEF SessionsInv, IdentityInv
<1>7. FdInv'
  BY <1>3, <1>4 DEF SessionsInv, FdInv
<1>8. RegistryInv'
  <2> SUFFICES ASSUME NEW c \in Clients, registry[c] # NoFd
               PROVE  \E q \in Programs : fd'[q] = registry[c] /\ session'[q].client = c
                                          /\ session'[q].at \in Open \ {"closing"}
    BY <1>1 DEF RegistryInv
  <2>1. PICK q \in Programs : fd[q] = registry[c] /\ session[q].client = c
                              /\ session[q].at \in Open \ {"closing"}
    BY DEF SessionsInv, RegistryInv
  <2>2. q # p
    BY <1>2, <2>1
  <2> QED BY <1>4, <2>1, <2>2
<1>9. HandInv'
  <2> SUFFICES ASSUME NEW t \in Threads, NEW push \in hand[t]
               PROVE  \E q \in Programs : push.to = {q} /\ session'[q].client = push.client
    BY <1>1 DEF HandInv
  <2> QED BY <1>4 DEF SessionsInv, HandInv
<1>10. MailInv'
  BY <1>1 DEF SessionsInv, MailInv
<1> QED BY <1>5, <1>6, <1>7, <1>8, <1>9, <1>10 DEF SessionsInv

\* The last two steps of a session: its client leaves the registry, and only then
\* the descriptor is closed.
LEMMA LeaveInv ==
  ASSUME SessionsInv, NEW p \in Programs, Unregister(p) \/ Close(p)
  PROVE  SessionsInv'
<1>1. UNCHANGED <<owner, program, clientId, up, down, todo, hand>>
  BY DEF Unregister, Close, programs
<1>2. PICK at \in {"closing", "ended"} : session' = [session EXCEPT ![p].at = at]
  BY DEF Unregister, Close
<1>3. /\ session'[p].at = at
      /\ \A q \in Programs : session'[q].client = session[q].client
      /\ \A q \in Programs : q # p => session'[q] = session[q]
  BY <1>2 DEF SessionsInv, SessionTypes
<1>4. IdentityInv' /\ MailInv'
  BY <1>1, <1>3 DEF SessionsInv, IdentityInv, MailInv
<1>5. HandInv'
  <2> SUFFICES ASSUME NEW t \in Threads, NEW push \in hand[t]
               PROVE  \E q \in Programs : push.to = {q} /\ session'[q].client = push.client
    BY <1>1 DEF HandInv
  <2> QED BY <1>3 DEF SessionsInv, HandInv
<1>6. CASE Unregister(p)
  <2>1. session[p].at = "ending" /\ session'[p].at = "closing" /\ UNCHANGED fd
    BY <1>6 DEF Unregister, SessionsInv, SessionTypes
  <2>2. /\ registry' \in [Clients -> Nat]
        /\ \A c \in Clients :
             registry'[c] = IF c = session[p].client THEN NoFd ELSE registry[c]
    BY <1>6, SessionsAssumption
       DEF Unregister, UnregisterClientSocket, RegisterClientSocket, SessionsInv, SessionTypes,
           NoFd
  <2>3. SessionTypes'
    BY <1>1, <1>2, <2>1, <2>2 DEF SessionsInv, SessionTypes, Open
  <2>4. FdInv'
    BY <1>3, <2>1 DEF SessionsInv, FdInv, Open
  <2>5. RegistryInv'
    <3> SUFFICES ASSUME NEW c \in Clients, registry'[c] # NoFd
                 PROVE  \E q \in Programs : fd[q] = registry'[c] /\ session'[q].client = c
                                            /\ session'[q].at \in Open \ {"closing"}
      BY <2>1 DEF RegistryInv
    <3>1. registry'[c] = registry[c] /\ c # session[p].client
      BY <2>2
    <3>2. PICK q \in Programs : fd[q] = registry[c] /\ session[q].client = c
                                /\ session[q].at \in Open \ {"closing"}
      BY <3>1 DEF SessionsInv, RegistryInv
    <3> QED BY <1>3, <3>1, <3>2
  <2> QED BY <1>4, <1>5, <2>3, <2>4, <2>5 DEF SessionsInv
<1>7. CASE Close(p)
  <2>1. /\ session[p].at = "closing" /\ session'[p].at = "ended"
        /\ fd' = [fd EXCEPT ![p] = NoFd] /\ UNCHANGED registry
    BY <1>7 DEF Close, SessionsInv, SessionTypes
  <2>2. fd'[p] = NoFd /\ \A q \in Programs : q # p => fd'[q] = fd[q]
    BY <2>1 DEF SessionsInv, SessionTypes
  <2>3. SessionTypes'
    <3>1. fd \in [Programs -> Nat] /\ NoFd \in Nat
      BY DEF SessionsInv, SessionTypes, NoFd
    <3>2. fd' \in [Programs -> Nat]
      BY <2>1, <3>1
    <3>3. session' \in [Programs -> [at : {"none", "ended"} \cup Open, client : People]]
      <4>1. session \in [Programs -> [at : {"none", "ended"} \cup Open, client : People]]
        BY DEF SessionsInv, SessionTypes
      <4>2. at \in {"none", "ended"} \cup Open
        BY <1>2 DEF Open
      <4> QED BY <1>2, <4>1, <4>2
    <3> QED BY <1>1, <2>1, <3>2, <3>3 DEF SessionsInv, SessionTypes
  <2>4. FdInv'
    BY <1>3, <2>1, <2>2 DEF SessionsInv, FdInv, Open
  <2>5. RegistryInv'
    <3> SUFFICES ASSUME NEW c \in Clients, registry[c] # NoFd
                 PROVE  \E q \in Programs : fd'[q] = registry[c] /\ session'[q].client = c
                                            /\ session'[q].at \in Open \ {"closing"}
      BY <2>1 DEF RegistryInv
    <3>1. PICK q \in Programs : fd[q] = registry[c] /\ session[q].client = c
                                /\ session[q].at \in Open \ {"closing"}
      BY DEF SessionsInv, RegistryInv
    <3>2. q # p
      BY <2>1, <3>1
    <3> QED BY <1>3, <2>2, <3>1, <3>2
  <2> QED BY <1>4, <1>5, <2>3, <2>4, <2>5 DEF SessionsInv
<1> QED BY <1>6, <1>7

-----------------------------------------------------------------------------
\* The pushes

\* The registry leads to the one connection of a session of the client.
LEMMA LookUpInv ==
  ASSUME SessionsInv, NEW t \in Threads, LookUp(t)
  PROVE  SessionsInv'
<1> DEFINE client == Head(todo[t])
           n == registry[client]
           found == IF n = NoFd THEN {} ELSE {[client |-> client, fd |-> n, to |-> Holder(n)]}
<1>1. /\ todo[t] # <<>> /\ hand' = [hand EXCEPT ![t] = found]
      /\ todo' = [todo EXCEPT ![t] = Tail(@)]
      /\ UNCHANGED <<owner, program, clientId, up, down, fd, session, registry>>
  BY DEF LookUp, programs
<1>2. todo[t] \in Seq(Clients)
  BY DEF SessionsInv, SessionTypes
<1>3. client \in Clients /\ Tail(todo[t]) \in Seq(Clients)
  BY <1>1, <1>2
<1> HIDE DEF client
<1>4. n \in Nat
  BY <1>3 DEF SessionsInv, SessionTypes
<1>5. n # NoFd => \E p \in Programs : Holder(n) = {p} /\ session[p].client = client
  <2> SUFFICES ASSUME n # NoFd
               PROVE  \E p \in Programs : Holder(n) = {p} /\ session[p].client = client
    OBVIOUS
  <2>1. PICK p \in Programs : fd[p] = n /\ session[p].client = client
    BY <1>3 DEF SessionsInv, RegistryInv
  <2>2. \A q \in Programs : fd[q] = n => q = p
    BY <2>1 DEF SessionsInv, FdInv
  <2>3. Holder(n) = {p}
    BY <2>1, <2>2 DEF Holder
  <2> QED BY <2>1, <2>3
<1> HIDE DEF n
<1>6. \A push \in found : /\ push \in Pushes
                          /\ \E p \in Programs : push.to = {p} /\ session[p].client = push.client
  <2> SUFFICES ASSUME NEW push \in found
               PROVE  /\ push \in Pushes
                      /\ \E p \in Programs : push.to = {p} /\ session[p].client = push.client
    OBVIOUS
  <2>1. n # NoFd /\ push = [client |-> client, fd |-> n, to |-> Holder(n)]
    OBVIOUS
  <2>2. Holder(n) \in SUBSET Programs
    BY DEF Holder
  <2> QED BY <1>3, <1>4, <1>5, <2>1, <2>2 DEF Pushes
<1> HIDE DEF found
<1>7. SessionTypes'
  BY <1>1, <1>3, <1>6 DEF SessionsInv, SessionTypes
<1>8. HandInv'
  <2> SUFFICES ASSUME NEW u \in Threads, NEW push \in hand'[u]
               PROVE  \E p \in Programs : push.to = {p} /\ session[p].client = push.client
    BY <1>1 DEF HandInv
  <2>1. CASE u = t
    BY <1>1, <1>6, <2>1 DEF SessionsInv, SessionTypes
  <2>2. CASE u # t
    <3>1. push \in hand[u]
      BY <1>1, <2>2 DEF SessionsInv, SessionTypes
    <3> QED BY <3>1 DEF SessionsInv, HandInv
  <2> QED BY <2>1, <2>2
<1>9. IdentityInv' /\ FdInv' /\ RegistryInv' /\ MailInv'
  BY <1>1 DEF SessionsInv, IdentityInv, FdInv, RegistryInv, MailInv
<1> QED BY <1>7, <1>8, <1>9 DEF SessionsInv

\* Whoever has the descriptor gets the message, and it was meant for its client or
\* for somebody else.
LEMMA PushInv ==
  ASSUME SessionsInv, NEW t \in Threads, Push(t) \/ PushFails(t)
  PROVE  SessionsInv'
<1>1. /\ hand' = [hand EXCEPT ![t] = {}]
      /\ UNCHANGED <<owner, program, clientId, up, fd, session, todo>>
  BY DEF Push, PushFails, programs
<1>2. \A u \in Threads : hand'[u] \subseteq hand[u]
  BY <1>1 DEF SessionsInv, SessionTypes
<1>3. HandInv'
  <2> SUFFICES ASSUME NEW u \in Threads, NEW push \in hand'[u]
               PROVE  \E p \in Programs : push.to = {p} /\ session[p].client = push.client
    BY <1>1 DEF HandInv
  <2> QED BY <1>2 DEF SessionsInv, HandInv
<1>4. IdentityInv' /\ FdInv'
  BY <1>1 DEF SessionsInv, IdentityInv, FdInv
<1>5. CASE Push(t)
  <2>1. UNCHANGED registry
    BY <1>5 DEF Push
  <2>1a. PICK push \in hand[t] : \E p \in Holder(push.fd) :
          down' = IF p \in shut THEN down ELSE
                    [down EXCEPT ![p] = Append(@, [kind |-> "push", client |-> push.client,
                                                   meant |-> push.to])]
    BY <1>5 DEF Push
  <2>2. PICK p \in Holder(push.fd) :
          down' = IF p \in shut THEN down ELSE
                    [down EXCEPT ![p] = Append(@, [kind |-> "push", client |-> push.client,
                                                   meant |-> push.to])]
    BY <2>1a
  <2> DEFINE m == [kind |-> "push", client |-> push.client, meant |-> push.to]
  <2>3. p \in Programs /\ push \in Pushes
    BY DEF Holder, SessionsInv, SessionTypes
  <2>4. m \in Messages /\ m.meant = push.to /\ m.client = push.client
    BY <2>3 DEF Pushes, Messages, Kinds, People
  <2>5. p \in push.to => push.client = owner[p]
    <3>1. PICK q \in Programs : push.to = {q} /\ session[q].client = push.client
      BY DEF SessionsInv, HandInv
    <3>2. push.client \in Clients
      BY <2>3 DEF Pushes
    <3>3. push.client = owner[q]
      BY <3>1, <3>2, SessionsAssumption DEF SessionsInv, IdentityInv
    <3> QED BY <3>1, <3>3
  <2> HIDE DEF m
  <2>6. down[p] \in Seq(Messages)
    BY <2>3 DEF SessionsInv, SessionTypes
  <2>7. /\ Append(down[p], m) \in Seq(Messages)
        /\ Mail(Append(down[p], m)) = Mail(down[p]) \cup {m}
    BY <2>4, <2>6, MailOf
  <2>8. /\ down' \in [Programs -> Seq(Messages)]
        /\ \A q \in Programs : down'[q] = down[q] \/ (q = p /\ down'[q] = Append(down[p], m))
    <3>1. CASE p \in shut
      BY <2>2, <3>1 DEF SessionsInv, SessionTypes
    <3>2. CASE p \notin shut
      <4>1. down' = [down EXCEPT ![p] = Append(@, m)]
        BY <2>2, <3>2 DEF m
      <4> QED BY <2>3, <2>7, <4>1 DEF SessionsInv, SessionTypes
    <3> QED BY <3>1, <3>2
  <2>9. MailInv'
    <3> SUFFICES ASSUME NEW q \in Programs, NEW k \in Mail(down'[q]), k.kind = "push",
                        q \in k.meant
                 PROVE  k.client = owner[q]
      BY <1>1 DEF MailInv
    <3>1. CASE k \in Mail(down[q])
      BY <3>1 DEF SessionsInv, MailInv
    <3>2. CASE k \notin Mail(down[q])
      <4>1. q = p /\ k = m
        BY <2>7, <2>8, <3>2
      <4> QED BY <2>4, <2>5, <4>1
    <3> QED BY <3>1, <3>2
  <2>10. SessionTypes'
    BY <1>1, <2>1, <2>8 DEF SessionsInv, SessionTypes
  <2>11. RegistryInv'
    BY <1>1, <2>1 DEF SessionsInv, RegistryInv
  <2> QED BY <1>3, <1>4, <2>9, <2>10, <2>11 DEF SessionsInv
<1>6. CASE PushFails(t)
  <2>1. PICK push \in hand[t] : UnregisterClientSocket(push.client)
    BY <1>6 DEF PushFails
  <2>2. push.client \in Clients
    BY DEF SessionsInv, SessionTypes, Pushes
  <2>3. registry' = [registry EXCEPT ![push.client] = NoFd]
    BY <2>1, <2>2, SessionsAssumption DEF UnregisterClientSocket, RegisterClientSocket
  <2>4. UNCHANGED down
    BY <1>6 DEF PushFails
  <2>5. SessionTypes'
    BY <1>1, <2>3, <2>4 DEF SessionsInv, SessionTypes, NoFd
  <2>6. \A c \in Clients : registry'[c] # NoFd => registry'[c] = registry[c]
    BY <2>3 DEF SessionsInv, SessionTypes
  <2>7. RegistryInv'
    <3> SUFFICES ASSUME NEW c \in Clients, registry'[c] # NoFd
                 PROVE  \E q \in Programs : fd[q] = registry'[c] /\ session[q].client = c
                                            /\ session[q].at \in Open \ {"closing"}
      BY <1>1 DEF RegistryInv
    <3> QED BY <2>6 DEF SessionsInv, RegistryInv
  <2>8. MailInv'
    BY <1>1, <2>4 DEF SessionsInv, MailInv
  <2> QED BY <1>3, <1>4, <2>5, <2>7, <2>8 DEF SessionsInv
<1> QED BY <1>5, <1>6

-----------------------------------------------------------------------------
\* Every step

LEMMA SessionsStep == SessionsInv /\ [Next]_vars => SessionsInv'
<1> SUFFICES ASSUME SessionsInv, [Next]_vars PROVE SessionsInv'
  OBVIOUS
<1>1. CASE \E p \in Programs : Program(p)
  BY <1>1, ProgramInv
<1>2. CASE \E p \in Programs : HandleClient(p)
  <2>1. PICK p \in Programs : HandleClient(p)
    BY <1>2
  <2>2. \/ \E n \in 1 .. Len(up[p]) : Connected(p, SubSeq(up[p], 1, n))
        \/ Unregister(p) \/ Close(p)
        \/ Served(p) \/ EndOfStream(p)
        \/ \E n \in 1 .. Len(up[p]) :
             \/ Authenticate(p, SubSeq(up[p], 1, n))
             \/ ExitKeyword(p, SubSeq(up[p], 1, n))
             \/ PlaceOrder(p, SubSeq(up[p], 1, n))
    BY <2>1, Zenon DEF HandleClient
  <2> QED BY <2>2, ConnectedInv, LeaveInv, TalkInv
<1>3. CASE \E t \in Threads : SendToClient(t)
  BY <1>3, LookUpInv, PushInv DEF SendToClient
<1>4. CASE \E p \in Programs : Accept(p)
  BY <1>4, AcceptInv
<1>5. CASE StopAccepting \/ Trade \/ CloseMarket \/ Exit \/ UNCHANGED vars
  <2>1. UNCHANGED <<owner, program, clientId, up, down, fd, session, registry, hand>>
    BY <1>5 DEF StopAccepting, Trade, CloseMarket, Exit, vars, programs, server
  <2>2. todo' \in [Threads -> Seq(Clients)]
    <3>1. CASE Trade
      <4>1. PICK b \in Clients, s \in Clients : todo' = [todo EXCEPT !["market"] = <<b, s>>]
        BY <3>1 DEF Trade
      <4>2. <<b, s>> \in Seq(Clients)
        OBVIOUS
      <4> QED BY <4>1, <4>2 DEF SessionsInv, SessionTypes
    <3>2. CASE ~Trade
      <4>1. UNCHANGED todo
        BY <1>5, <3>2 DEF StopAccepting, CloseMarket, Exit, vars, server
      <4> QED BY <4>1 DEF SessionsInv, SessionTypes
    <3> QED BY <3>1, <3>2
  <2>3. SessionTypes'
    BY <2>1, <2>2 DEF SessionsInv, SessionTypes
  <2>4. IdentityInv' /\ FdInv' /\ RegistryInv' /\ HandInv' /\ MailInv'
    BY <2>1 DEF SessionsInv, IdentityInv, FdInv, RegistryInv, HandInv, MailInv
  <2> QED BY <2>3, <2>4 DEF SessionsInv
<1> QED BY <1>1, <1>2, <1>3, <1>4, <1>5 DEF Next, AcceptClients

\* Two sessions of a client race.
LEMMA TwoRace ==
  ASSUME NEW c \in Clients, NEW p \in SessionsOf(c)', NEW q \in SessionsOf(c)', p # q,
         Watched
  PROVE  c \in raced'
<1>1. SessionsOf(c)' \in SUBSET Programs
  BY DEF SessionsOf
<1>2. Cardinality(SessionsOf(c)') > 1
  BY <1>1, TwoAreMany
<1>3. c \in Racing'
  BY <1>2 DEF Racing
<1> QED BY <1>3 DEF Watched

\* What takes a client that has not raced out of the registry, or overwrites its
\* entry, is its own session.
LEMMA ReachableStep ==
  SessionsInv /\ RacedInv /\ ReachableUnlessRaced /\ [Next]_vars => ReachableUnlessRaced'
<1> SUFFICES ASSUME SessionsInv, RacedInv, ReachableUnlessRaced, [Next]_vars,
                    NEW p \in Programs, NEW c \in Clients, c \notin raced', alive',
                    p \in SessionsOf(c)', p \notin shut', session'[p].at \in {"read", "serve"}
             PROVE  registry'[c] = fd'[p]
  BY DEF ReachableUnlessRaced
<1>1. c \notin raced /\ c \notin Racing
  BY DEF RacedInv, Next, Watched, vars
<1>2. session'[p].client = c /\ fd'[p] # NoFd
  BY DEF SessionsOf
\* While the session goes on as the session of the client, all that matters is the entry.
<1>3. ASSUME session[p].client = c, fd[p] = fd'[p], session[p].at \in {"read", "serve"},
             alive, p \notin shut, registry'[c] = registry[c]
      PROVE  registry'[c] = fd'[p]
  <2>1. p \in SessionsOf(c)
    BY <1>2, <1>3 DEF SessionsOf
  <2> QED BY <1>1, <1>3, <2>1 DEF ReachableUnlessRaced
<1>4. CASE \E q \in Programs : Program(q)
  <2>1. UNCHANGED <<fd, session, registry, alive>>
    BY <1>4 DEF Program, MainThread, Launch, Authenticated, Turned, Leave, Join, Listen, Type,
           BrokenPipe, UserExits, EndProgram, server, programs
  <2>2. shut \subseteq shut'
    BY <1>4 DEF Program, MainThread, Launch, Authenticated, Turned, Leave, Join, Listen, Type,
           BrokenPipe, UserExits, EndProgram, server, programs
  <2> QED BY <1>2, <1>3, <2>1, <2>2
<1>5. CASE Next /\ \E q \in Programs : HandleClient(q)
  <2>1. PICK q \in Programs : HandleClient(q)
    BY <1>5
  <2>2. Watched
    BY <1>5 DEF Next
  <2>3. CASE \E n \in 1 .. Len(up[q]) : Connected(q, SubSeq(up[q], 1, n))
    <3>1. PICK n \in 1 .. Len(up[q]) : Connected(q, SubSeq(up[q], 1, n))
      BY <2>3
    <3> DEFINE client == Head(SubSeq(up[q], 1, n)).client
    <3>2. /\ RegisterClientSocket(client, fd[q])
          /\ session' = [session EXCEPT ![q] = LoopHead([@ EXCEPT !.client = client])]
          /\ alive /\ UNCHANGED <<fd, shut>>
          /\ session[q].at = "read"
      BY <3>1 DEF Connected, Read, programs
    <3> HIDE DEF client
    <3>3. /\ session'[q].client = client
          /\ \A r \in Programs : r # q => session'[r] = session[r]
      BY <3>2 DEF LoopHead, SessionsInv, SessionTypes
    <3>4. registry'[c] = IF c = client THEN fd[q] ELSE registry[c]
      BY <3>2, SessionsAssumption DEF RegisterClientSocket, SessionsInv, SessionTypes
    <3>5. fd[q] # NoFd
      BY <3>2 DEF SessionsInv, FdInv, Open
    <3>6. CASE p = q
      BY <1>2, <3>2, <3>3, <3>4, <3>6
    <3>7. CASE p # q
      <4>1. c # client
        <5> SUFFICES ASSUME c = client PROVE FALSE
          OBVIOUS
        <5>1. q \in SessionsOf(c)'
          BY <3>2, <3>3, <3>5 DEF SessionsOf
        <5> QED BY <2>2, <3>7, <5>1, TwoRace
      <4> QED BY <1>2, <1>3, <3>2, <3>3, <3>4, <3>7, <4>1
    <3> QED BY <3>6, <3>7
  <2>4. CASE Unregister(q)
    <3>1. /\ UnregisterClientSocket(session[q].client)
          /\ session[q].at = "ending" /\ session' = [session EXCEPT ![q].at = "closing"]
          /\ alive /\ UNCHANGED <<fd, shut>>
      BY <2>4 DEF Unregister, programs
    <3>2. /\ session'[q].client = session[q].client /\ session'[q].at = "closing"
          /\ \A r \in Programs : r # q => session'[r] = session[r]
      BY <3>1 DEF SessionsInv, SessionTypes
    <3>3. p # q
      BY <3>2
    <3>4. c # session[q].client
      <4> SUFFICES ASSUME c = session[q].client PROVE FALSE
        OBVIOUS
      <4>1. fd[q] # NoFd
        BY <3>1 DEF SessionsInv, FdInv, Open
      <4>2. q \in SessionsOf(c)'
        BY <3>1, <3>2, <4>1 DEF SessionsOf
      <4> QED BY <2>2, <3>3, <4>2, TwoRace
    <3>5. registry'[c] = registry[c]
      BY <3>1, <3>4 DEF UnregisterClientSocket, RegisterClientSocket, SessionsInv, SessionTypes
    <3> QED BY <1>2, <1>3, <3>1, <3>2, <3>3, <3>5
  <2>5. CASE Close(q)
    <3>1. /\ session' = [session EXCEPT ![q].at = "ended"]
          /\ fd' = [fd EXCEPT ![q] = NoFd]
          /\ alive /\ UNCHANGED <<registry, shut>>
      BY <2>5 DEF Close, programs
    <3>2. /\ session'[q].at = "ended"
          /\ \A r \in Programs : r # q => session'[r] = session[r] /\ fd'[r] = fd[r]
      BY <3>1 DEF SessionsInv, SessionTypes
    <3>3. p # q
      BY <3>2
    <3> QED BY <1>2, <1>3, <3>1, <3>2, <3>3
  <2>6. CASE \/ Served(q) \/ EndOfStream(q)
             \/ \E n \in 1 .. Len(up[q]) :
                  \/ Authenticate(q, SubSeq(up[q], 1, n))
                  \/ ExitKeyword(q, SubSeq(up[q], 1, n))
                  \/ PlaceOrder(q, SubSeq(up[q], 1, n))
    <3>1. /\ alive /\ session[q].at \in {"read", "serve"}
          /\ UNCHANGED <<fd, registry, shut>>
      BY <2>6 DEF Served, EndOfStream, Authenticate, ExitKeyword, PlaceOrder, Read, programs
    <3>2. \/ session' = [session EXCEPT ![q] = LoopHead(@)]
          \/ \E at \in {"serve", "ending"} : session' = [session EXCEPT ![q].at = at]
      BY <2>6 DEF Served, EndOfStream, Authenticate, ExitKeyword, PlaceOrder
    <3>3. \E at \in Open : session' = [session EXCEPT ![q].at = at]
      BY <3>2, LoopHeadIsOpen DEF Open
    <3>4. \A r \in Programs : /\ session'[r].client = session[r].client
                              /\ r # q => session'[r] = session[r]
      BY <3>3 DEF SessionsInv, SessionTypes
    <3>5. session[p].at \in {"read", "serve"}
      BY <3>1, <3>4
    <3> QED BY <1>2, <1>3, <3>1, <3>4, <3>5
  <2> QED BY <2>1, <2>3, <2>4, <2>5, <2>6, Zenon DEF HandleClient
<1>6. CASE \E q \in Programs : Accept(q)
  <2>1. PICK q \in Programs : Accept(q)
    BY <1>6
  <2>2. /\ session[q] = NoSession /\ session' = [session EXCEPT ![q].at = "read"]
        /\ \A r \in Programs : r # q => fd'[r] = fd[r]
        /\ alive /\ UNCHANGED <<registry, shut>>
    BY <2>1 DEF Accept, programs, SessionsInv, SessionTypes
  <2>3. /\ session'[q].client = Nobody
        /\ \A r \in Programs : r # q => session'[r] = session[r]
    BY <2>2 DEF NoSession, SessionsInv, SessionTypes
  <2>4. p # q
    BY <1>2, <2>3, SessionsAssumption
  <2> QED BY <1>2, <1>3, <2>2, <2>3, <2>4
<1>7. CASE Next /\ \E t \in Threads : SendToClient(t)
  <2>1. PICK t \in Threads : LookUp(t) \/ Push(t) \/ PushFails(t)
    BY <1>7 DEF SendToClient
  <2>2. alive /\ UNCHANGED <<fd, session, shut>>
    BY <2>1 DEF LookUp, Push, PushFails, programs
  <2>3. CASE LookUp(t) \/ Push(t)
    <3>1. UNCHANGED registry
      BY <2>3 DEF LookUp, Push
    <3> QED BY <1>2, <1>3, <2>2, <3>1
  <2>4. CASE PushFails(t)
    <3>1. PICK push \in hand[t] :
            Holder(push.fd) \subseteq shut /\ UnregisterClientSocket(push.client)
      BY <2>4 DEF PushFails
    <3>2. push.client # c
      <4> SUFFICES ASSUME push.client = c PROVE FALSE
        OBVIOUS
      <4>1. PICK q \in Programs : push.to = {q} /\ session[q].client = c
        BY DEF SessionsInv, HandInv
      <4>2. Holder(push.fd) = push.to
        BY <1>1 DEF Racing
      <4>3. q \in shut /\ fd[q] # NoFd
        BY <3>1, <4>1, <4>2 DEF Holder
      <4>4. q \in SessionsOf(c)'
        BY <2>2, <4>1, <4>3 DEF SessionsOf
      <4>5. p # q
        BY <2>2, <4>3
      <4>6. Watched
        BY <1>7 DEF Next
      <4> QED BY <4>4, <4>5, <4>6, TwoRace
    <3>3. registry'[c] = registry[c]
      BY <3>1, <3>2 DEF UnregisterClientSocket, RegisterClientSocket, SessionsInv, SessionTypes
    <3> QED BY <1>2, <1>3, <2>2, <3>3
  <2> QED BY <2>1, <2>3, <2>4
<1>8. CASE StopAccepting \/ Trade \/ CloseMarket \/ Exit \/ UNCHANGED vars
  <2>1. UNCHANGED <<fd, session, registry, shut>> /\ (alive' => alive)
    BY <1>8 DEF StopAccepting, Trade, CloseMarket, Exit, vars, programs, server
  <2> QED BY <1>2, <1>3, <2>1
<1> QED BY <1>4, <1>5, <1>6, <1>7, <1>8 DEF Next, AcceptClients

LEMMA RacedStep == RacedInv /\ [Next]_vars => RacedInv'
<1> SUFFICES ASSUME RacedInv, [Next]_vars PROVE RacedInv'
  OBVIOUS
<1>1. CASE Next
  BY <1>1 DEF Next, Watched, RacedInv
<1>2. CASE UNCHANGED vars
  <2>1. UNCHANGED <<raced, session, fd, hand>>
    BY <1>2 DEF vars, server
  <2> QED BY <2>1 DEF RacedInv, Racing, SessionsOf, Holder
<1> QED BY <1>1, <1>2

\* SessionsInv holds in every state of every behaviour.
THEOREM SessionsInvariance == Spec => []SessionsInv
BY SessionsInit, SessionsStep, PTL DEF Spec

\* However sessions come and go and descriptors are used again, a push that meets
\* the connection it was looked up for meets its client (send_to_client,
\* server.cpp).
THEOREM PushesFindTheirClient == Spec => []PushesReachTheirClient
<1>1. SessionsInv => PushesReachTheirClient
  BY DEF SessionsInv, MailInv, Mail, PushesReachTheirClient
<1> QED BY <1>1, SessionsInvariance, PTL

\* A client with one session, and no push that outlives it, stays in the registry
\* from CLIENT_CONNECTED to the end of the session (server.cpp:9).
THEOREM OneSessionStaysReachable == Spec => []ReachableUnlessRaced
<1>1. Init => RacedInv /\ ReachableUnlessRaced
  BY SessionsInit DEF Init, ReachableUnlessRaced, SessionsOf
<1> QED BY <1>1, SessionsInvariance, RacedStep, ReachableStep, PTL DEF Spec
=============================================================================
