--------------------------- MODULE ConnectionsProofs ---------------------------
(***************************************************************************)
(* Proofs about Connections: an attached actor has a live connection, and  *)
(* an approval is used once on every branch.  They hold for every set of   *)
(* connections, actors, roles and ids, and every bound.                    *)
(***************************************************************************)
EXTENDS Connections, PickingProofs, FiniteSetTheorems, SequenceTheorems, TLAPS

-----------------------------------------------------------------------------
(* The inductive invariant. *)

\* What a record tells.
Kinds == {"note", "actor", "gone", "request", "resolve", "consume", "patch"}

\* A record of the journal.
LogRecord == [base : Nat, what : Kinds, of : Ids \cup Nat \cup Actors \cup {None},
              now : Approval \cup {None}]

\* What a connection's thread knows.
Connection == [phase : {"Closed", "Open", "Ready", "Left"},
               actor : Actors \cup {None}, role : Offered \cup {None}]

\* The connections, of which finitely many are live, and the service.
ServiceInv ==
    /\ conns \in [Connections -> Connection]
    /\ IsFiniteSet(Live)
    /\ server \in [mode : {"Serving", "Down"}, once : BOOLEAN,
                   waiting : BOOLEAN, shutdown : BOOLEAN]
    /\ active = Cardinality(Live) /\ active <= MaxConnections
    /\ DOMAIN actors \subseteq Actors
    /\ \A a \in DOMAIN actors : actors[a] \in Offered
    /\ terminated \in BOOLEAN
    /\ server.mode # "Down" =>
         \A a \in DOMAIN actors : \E c \in Connections :
           conns[c] = [phase |-> "Ready", actor |-> a, role |-> actors[a]]

-----------------------------------------------------------------------------
(* Connections and actors. *)

\* A step that leaves the threads and the actors alone.
SameService == UNCHANGED <<active, conns, actors, terminated>>

\* The loop and the journal are no matter to connections and actors.
LEMMA SameServiceKeeps ==
    ASSUME ServiceInv, SameService,
           server' \in [mode : {"Serving", "Down"}, once : BOOLEAN,
                        waiting : BOOLEAN, shutdown : BOOLEAN],
           server'.mode # "Down" => server.mode # "Down"
    PROVE  ServiceInv'
BY DEF ServiceInv, SameService, Live

\* The process ends.
LEMMA ExitKeeps ==
    ASSUME ServiceInv, Exit
    PROVE  ServiceInv'
<1> USE DEF ServiceInv
<1>1. conns' \in [Connections -> Connection]
  BY DEF Exit, Closed, Connection
<1>2. Live' = {}
  BY DEF Exit, Live, Closed
<1>3. IsFiniteSet(Live') /\ Cardinality(Live') = 0
  BY <1>2, FS_EmptySet
<1>4. server'.mode = "Down"
      /\ server' \in [mode : {"Serving", "Down"}, once : BOOLEAN,
                      waiting : BOOLEAN, shutdown : BOOLEAN]
  BY DEF Exit
<1>5. UNCHANGED <<actors, terminated>> /\ active' = 0
  BY DEF Exit, session
<1> QED
  BY <1>1, <1>3, <1>4, <1>5, ConnectionsAssumption

\* One connection becomes k, live before and after, and the actors stay attached
\* who are not its own.
OneChange(c, k) ==
    /\ conns' = [conns EXCEPT ![c] = k]
    /\ conns[c].phase # "Closed" /\ k.phase # "Closed"
    /\ active' = active
    /\ server' \in [mode : {"Serving", "Down"}, once : BOOLEAN,
                    waiting : BOOLEAN, shutdown : BOOLEAN]
    /\ server'.mode = server.mode
    /\ terminated' \in BOOLEAN
    /\ \A a \in DOMAIN actors' : a \in Actors /\ actors'[a] \in Offered
    /\ \A a \in DOMAIN actors' :
          \/ /\ a \in DOMAIN actors /\ actors'[a] = actors[a]
             /\ conns[c] # [phase |-> "Ready", actor |-> a, role |-> actors[a]]
          \/ k = [phase |-> "Ready", actor |-> a, role |-> actors'[a]]

\* One thread's change keeps everyone's connection.
LEMMA OneKeeps ==
    ASSUME ServiceInv, NEW c \in Connections, NEW k \in Connection,
           OneChange(c, k)
    PROVE  ServiceInv'
<1> USE DEF ServiceInv, OneChange
<1>1. conns' \in [Connections -> Connection]
  OBVIOUS
<1>2. Live' = Live
  BY DEF Live
<1>3. \A d \in Connections \ {c} : conns'[d] = conns[d]
  OBVIOUS
<1>4. conns'[c] = k
  OBVIOUS
<1>5. ASSUME server'.mode # "Down", NEW a \in DOMAIN actors'
      PROVE  \E d \in Connections :
                 conns'[d] = [phase |-> "Ready", actor |-> a, role |-> actors'[a]]
  <2>1. CASE k = [phase |-> "Ready", actor |-> a, role |-> actors'[a]]
    BY <1>4, <2>1
  <2>2. CASE /\ a \in DOMAIN actors /\ actors'[a] = actors[a]
             /\ conns[c] # [phase |-> "Ready", actor |-> a, role |-> actors[a]]
    <3>1. PICK d \in Connections :
              conns[d] = [phase |-> "Ready", actor |-> a, role |-> actors[a]]
      BY <1>5, <2>2
    <3>2. d # c
      BY <2>2, <3>1
    <3> QED
      BY <1>3, <2>2, <3>1, <3>2
  <2> QED
    BY <2>1, <2>2
<1> QED
  BY <1>1, <1>2, <1>5

\* Every action keeps the connections and the actors in step.
LEMMA ServiceKeeps ==
    ASSUME ServiceInv, [Next]_vars
    PROVE  ServiceInv'
<1> DEFINE ServerType == [mode : {"Serving", "Down"}, once : BOOLEAN,
                          waiting : BOOLEAN, shutdown : BOOLEAN]
<1>0. /\ server \in ServerType
      /\ conns \in [Connections -> Connection]
      /\ DOMAIN actors \subseteq Actors
      /\ \A a \in DOMAIN actors : actors[a] \in Offered
      /\ terminated \in BOOLEAN
      /\ None \notin Actors
  BY ConnectionsAssumption DEF ServiceInv
<1>1. CASE UNCHANGED vars \/ TurnAway
  BY <1>0, <1>1, SameServiceKeeps DEF TurnAway, vars, session, SameService
<1>2. CASE AcceptFails \/ Finish
  BY <1>2, ExitKeeps DEF AcceptFails, Finish
<1>3. CASE PollJobs
  <2>1. CASE Exit
    BY <2>1, ExitKeeps
  <2>2. CASE UNCHANGED <<server, active, conns, session>>
    BY <1>0, <2>2, SameServiceKeeps DEF session, SameService
  <2> QED
    BY <1>3, <2>1, <2>2 DEF PollJobs
<1>4. CASE Restart
  <2>1. /\ server' \in ServerType /\ actors' = <<>> /\ terminated' = FALSE
        /\ UNCHANGED <<active, conns>>
    BY <1>0, <1>4 DEF Restart
  <2>2. DOMAIN actors' = {}
    BY <2>1
  <2> QED
    BY <2>1, <2>2 DEF ServiceInv, Live
<1>5. ASSUME NEW c \in Connections, Accept(c)
      PROVE  ServiceInv'
  <2>1. /\ conns' = [conns EXCEPT ![c] = Open] /\ conns[c] = Closed
        /\ server' = [server EXCEPT !.waiting = server.once]
        /\ active' = active + 1 /\ active < MaxConnections
        /\ UNCHANGED <<actors, terminated>>
        /\ server.mode = "Serving"
    BY <1>5 DEF Accept, session, Polling
  <2>2. /\ conns' \in [Connections -> Connection] /\ server' \in ServerType
        /\ server'.mode = server.mode
    BY <1>0, <2>1 DEF Open, Closed, Connection
  <2>3. Live' = Live \cup {c} /\ c \notin Live
    BY <1>0, <2>1 DEF Live, Open, Closed
  <2>4. /\ IsFiniteSet(Live') /\ active' = Cardinality(Live')
        /\ active' <= MaxConnections
    BY <2>1, <2>3, FS_AddElement, FS_CardinalityType, ConnectionsAssumption
    DEF ServiceInv
  <2>5. ASSUME NEW a \in DOMAIN actors
        PROVE  \E d \in Connections :
                  conns'[d] = [phase |-> "Ready", actor |-> a, role |-> actors[a]]
    <3>1. PICK d \in Connections :
              conns[d] = [phase |-> "Ready", actor |-> a, role |-> actors[a]]
      BY <2>1, <2>5 DEF ServiceInv
    <3>2. d # c
      BY <2>1, <3>1 DEF Closed
    <3> QED
      BY <1>0, <2>1, <3>1, <3>2
  <2> QED
    BY <1>0, <2>1, <2>2, <2>4, <2>5 DEF ServiceInv
<1>6. ASSUME NEW c \in Connections, Handshake(c)
      PROVE  ServiceInv'
  <2>1. CASE UNCHANGED <<actors, conns>>
    BY <1>0, <1>6, <2>1, SameServiceKeeps DEF Handshake, SameService
  <2>2. CASE ~UNCHANGED <<actors, conns>>
    <3>1. PICK a \in Actors, role \in Offered :
              /\ a \notin DOMAIN actors
              /\ actors' = [b \in DOMAIN actors \cup {a} |->
                               IF b = a THEN role ELSE actors[b]]
              /\ conns' = [conns EXCEPT ![c] =
                              [phase |-> "Ready", actor |-> a, role |-> role]]
      BY <1>6, <2>2 DEF Handshake
    <3> DEFINE k == [phase |-> "Ready", actor |-> a, role |-> role]
    <3>2. /\ conns[c] = Open /\ UNCHANGED <<server, active, terminated>>
      BY <1>6 DEF Handshake
    <3>3. k \in Connection /\ k.phase # "Closed" /\ conns[c].phase = "Open"
      BY <3>2 DEF Connection, Open, Closed
    <3>4. /\ DOMAIN actors' = DOMAIN actors \cup {a} /\ actors'[a] = role
          /\ \A b \in DOMAIN actors : b # a /\ actors'[b] = actors[b]
      BY <3>1
    <3>5. \A b : conns[c] # [phase |-> "Ready", actor |-> b, role |-> actors[b]]
      BY <3>3
    <3>6. OneChange(c, k)
      <4> HIDE DEF k
      <4>1. \A b \in DOMAIN actors' :
                b \in Actors /\ actors'[b] \in Offered
        BY <1>0, <3>4
      <4>2. k = [phase |-> "Ready", actor |-> a, role |-> actors'[a]]
        BY <3>4 DEF k
      <4>3. \A b \in DOMAIN actors' : b = a \/ b \in DOMAIN actors
        BY <3>4
      <4>4. conns' = [conns EXCEPT ![c] = k] /\ conns[c].phase # "Closed"
        BY <3>1, <3>3 DEF k
      <4> QED
        BY <1>0, <3>2, <3>3, <3>4, <3>5, <4>1, <4>2, <4>3, <4>4 DEF OneChange
    <3> QED
      BY <3>3, <3>6, OneKeeps
  <2> QED
    BY <2>1, <2>2
<1>7. ASSUME NEW c \in Connections, Leave(c) \/ Shutdown(c)
      PROVE  ServiceInv'
  <2> DEFINE k == [Closed EXCEPT !.phase = "Left"]
  <2>1. /\ conns[c].phase \in {"Open", "Ready"}
        /\ conns' = [conns EXCEPT ![c] = k]
        /\ actors' = Restrict(actors, DOMAIN actors \ {conns[c].actor})
        /\ active' = active
    BY <1>7 DEF Leave, Shutdown, Ready
  <2>2. /\ server' \in ServerType /\ server'.mode = server.mode
        /\ terminated' \in BOOLEAN
    BY <1>0, <1>7 DEF Leave, Shutdown
  <2>3. k \in Connection /\ k.phase # "Closed"
    BY DEF Connection, Closed
  <2>4. /\ DOMAIN actors' = DOMAIN actors \ {conns[c].actor}
        /\ \A a \in DOMAIN actors' : actors'[a] = actors[a]
    BY <2>1 DEF Restrict
  <2>5. \A a \in DOMAIN actors' : conns[c] # [phase |-> "Ready", actor |-> a,
                                              role |-> actors[a]]
    BY <2>4
  <2> HIDE DEF k
  <2> QED
    <3>1. OneChange(c, k)
      BY <1>0, <2>1, <2>2, <2>3, <2>4, <2>5 DEF OneChange
    <3> QED
      BY <2>3, <3>1, OneKeeps
<1>8. ASSUME NEW c \in Connections, Release(c)
      PROVE  ServiceInv'
  <2>1. /\ conns' = [conns EXCEPT ![c] = Closed] /\ conns[c].phase = "Left"
        /\ active' = active - 1
        /\ UNCHANGED <<server, actors, terminated>>
    BY <1>8 DEF Release, session
  <2>2. conns' \in [Connections -> Connection]
    BY <1>0, <2>1 DEF Closed, Connection
  <2>3. Live' = Live \ {c} /\ c \in Live
    BY <1>0, <2>1 DEF Live, Closed
  <2>4. /\ IsFiniteSet(Live') /\ active' = Cardinality(Live')
        /\ active' <= MaxConnections
    BY <2>1, <2>3, FS_RemoveElement, FS_CardinalityType, ConnectionsAssumption
    DEF ServiceInv
  <2>5. ASSUME NEW a \in DOMAIN actors, server.mode # "Down"
        PROVE  \E d \in Connections :
                  conns'[d] = [phase |-> "Ready", actor |-> a, role |-> actors[a]]
    <3>1. PICK d \in Connections :
              conns[d] = [phase |-> "Ready", actor |-> a, role |-> actors[a]]
      BY <2>1, <2>5 DEF ServiceInv
    <3>2. d # c
      BY <2>1, <3>1
    <3> QED
      BY <1>0, <2>1, <3>1, <3>2
  <2> QED
    BY <1>0, <2>1, <2>2, <2>4, <2>5 DEF ServiceInv
<1>9. ASSUME NEW c \in Connections, Detach(c)
      PROVE  ServiceInv'
  <2>1. PICK a \in Actors : actors' = Restrict(actors, DOMAIN actors \ {a})
    BY <1>9 DEF Detach
  <2>2. /\ DOMAIN actors' \subseteq DOMAIN actors
        /\ \A b \in DOMAIN actors' : actors'[b] = actors[b]
    BY <2>1 DEF Restrict
  <2>3. UNCHANGED <<server, active, conns, terminated>>
    BY <1>9 DEF Detach
  <2> QED
    BY <2>2, <2>3 DEF ServiceInv, Live
<1>10. ASSUME NEW c \in Connections,
              Change(c) \/ Branch(c) \/ RequestApproval(c)
              \/ ResolveApproval(c) \/ Work(c)
       PROVE  ServiceInv'
  <2>1. UNCHANGED <<server, active, conns, session>>
    BY <1>10 DEF Change, Branch, RequestApproval, ResolveApproval, Work, Same
  <2> QED
    BY <1>0, <2>1, SameServiceKeeps DEF session, SameService
<1> QED
  BY <1>1, <1>2, <1>3, <1>4, <1>5, <1>6, <1>7, <1>8, <1>9, <1>10 DEF Next

-----------------------------------------------------------------------------
(* The lines of the journal. *)

\* Every record builds on an earlier one.
Based(l) ==
    /\ l \in Seq(LogRecord)
    /\ \A o \in 1 .. Len(l) : l[o].base \in 0 .. o - 1

\* f gives for each offset up to n the records its snapshot is built from.
Lines(l, n, f) ==
    f = [o \in 0 .. n |-> IF o = 0 THEN {} ELSE f[l[o].base] \cup {o}]

\* There are such lines.
LEMMA LinesExist ==
    ASSUME NEW l, Based(l)
    PROVE  \E f : Lines(l, Len(l), f)
<1> DEFINE S == {n \in Nat : n <= Len(l) => \E f : Lines(l, n, f)}
<1>1. 0 \in S
  <2> DEFINE f == [o \in 0 .. 0 |-> {}]
  <2>1. f = [o \in 0 .. 0 |-> IF o = 0 THEN {} ELSE f[l[o].base] \cup {o}]
    OBVIOUS
  <2> QED
    BY <2>1 DEF Lines
<1>2. ASSUME NEW n \in S
      PROVE  n + 1 \in S
  <2> SUFFICES ASSUME n + 1 <= Len(l)
               PROVE  \E g : Lines(l, n + 1, g)
    OBVIOUS
  <2>0. n \in Nat /\ Len(l) \in Nat /\ n <= Len(l)
    BY DEF Based
  <2>1. PICK f : Lines(l, n, f)
    BY <2>0
  <2> DEFINE b == l[n + 1].base
             g == [o \in 0 .. n + 1 |->
                      IF o = n + 1 THEN f[b] \cup {n + 1} ELSE f[o]]
             h == [o \in 0 .. n + 1 |->
                      IF o = 0 THEN {} ELSE g[l[o].base] \cup {o}]
  <2>2. \A o \in 1 .. n + 1 : l[o].base \in 0 .. n /\ l[o].base # n + 1
    <3> TAKE o \in 1 .. n + 1
    <3>1. l[o].base \in 0 .. o - 1
      BY <2>0 DEF Based
    <3> QED
      BY <2>0, <3>1
  <2>3. \A o \in 0 .. n : f[o] = IF o = 0 THEN {} ELSE f[l[o].base] \cup {o}
    BY <2>1 DEF Lines
  <2>4. \A o \in 0 .. n : g[o] = f[o]
    BY <2>0
  <2>5. \A o \in 0 .. n + 1 : g[o] = h[o]
    <3> TAKE o \in 0 .. n + 1
    <3>1. CASE o = n + 1
      <4>1. b \in 0 .. n /\ g[b] = f[b] /\ o # 0 /\ l[o].base = b
        BY <2>0, <2>2, <2>4, <3>1
      <4>2. g[o] = f[b] \cup {n + 1}
        BY <3>1, <2>0
      <4>3. h[o] = g[l[o].base] \cup {o}
        BY <4>1
      <4> QED
        BY <4>1, <4>2, <4>3, <3>1
    <3>2. CASE o # n + 1
      <4>1. o \in 0 .. n /\ g[o] = f[o]
        BY <2>0, <2>4, <3>2
      <4>2. o # 0 => l[o].base \in 0 .. n /\ g[l[o].base] = f[l[o].base]
        BY <2>0, <2>2, <2>4, <4>1
      <4>3. h[o] = IF o = 0 THEN {} ELSE g[l[o].base] \cup {o}
        OBVIOUS
      <4> HIDE DEF g, h
      <4> QED
        BY <2>3, <4>1, <4>2, <4>3
    <3> QED
      BY <3>1, <3>2
  <2>6. g = h
    BY <2>5
  <2> HIDE DEF g
  <2> QED
    BY <2>6 DEF Lines
<1>3. S = Nat
  <2> HIDE DEF S
  <2>1. S \in SUBSET Nat
    BY DEF S
  <2> QED
    BY <1>1, <1>2, <2>1, NatInduct
<1> QED
  BY <1>3 DEF Based

\* The lines of a journal.
LinesOf(l) == CHOOSE f : Lines(l, Len(l), f)

\* The recursion of Journal::materialize.
LEMMA LinesAre ==
    ASSUME NEW l, Based(l)
    PROVE  /\ Len(l) \in Nat
           /\ LinesOf(l)[0] = {}
           /\ \A o \in 1 .. Len(l) :
                 LinesOf(l)[o] = LinesOf(l)[l[o].base] \cup {o}
<1> DEFINE A == LinesOf(l)
           n == Len(l)
<1>1. A = [o \in 0 .. n |-> IF o = 0 THEN {} ELSE A[l[o].base] \cup {o}]
  BY LinesExist DEF Lines, LinesOf
<1>2. n \in Nat
  BY DEF Based
<1> HIDE DEF A, n
<1>3. \A o \in 0 .. n : A[o] = IF o = 0 THEN {} ELSE A[l[o].base] \cup {o}
  BY <1>1, Zenon
<1>4. 0 \in 0 .. n /\ \A o \in 1 .. n : o \in 0 .. n /\ o # 0
  BY <1>2
<1>5. A[0] = {} /\ \A o \in 1 .. n : A[o] = A[l[o].base] \cup {o}
  BY <1>3, <1>4, Zenon
<1> QED
  BY <1>2, <1>5 DEF A, n

\* The lines of this journal, now and after a step.
LEMMA AncestryIs ==
    /\ Ancestry = LinesOf(log) /\ Ancestry' = LinesOf(log')
    /\ Newest = Len(log) /\ Newest' = Len(log')
BY DEF Ancestry, LinesOf, Lines, Newest

\* A line ends at its offset.
LEMMA LinesBounded ==
    ASSUME NEW l, Based(l)
    PROVE  \A o \in 0 .. Len(l) : LinesOf(l)[o] \subseteq 1 .. o
<1> DEFINE A == LinesOf(l)
           S == {n \in Nat : \A o \in 0 .. n : o <= Len(l) => A[o] \subseteq 1 .. o}
<1>1. /\ Len(l) \in Nat /\ A[0] = {}
      /\ \A o \in 1 .. Len(l) : A[o] = A[l[o].base] \cup {o}
      /\ \A o \in 1 .. Len(l) : l[o].base \in 0 .. o - 1
  BY LinesAre DEF Based
<1> HIDE DEF A
<1>2. 0 \in S
  BY <1>1
<1>3. ASSUME NEW n \in S
      PROVE  n + 1 \in S
  <2>1. n \in Nat /\ \A o \in 0 .. n : o <= Len(l) => A[o] \subseteq 1 .. o
    OBVIOUS
  <2>2. n + 1 <= Len(l) => A[n + 1] \subseteq 1 .. n + 1
    <3> SUFFICES ASSUME n + 1 <= Len(l)
                 PROVE  A[n + 1] \subseteq 1 .. n + 1
      OBVIOUS
    <3> DEFINE b == l[n + 1].base
    <3>1. /\ b \in 0 .. n /\ b <= Len(l)
          /\ A[n + 1] = A[b] \cup {n + 1}
      <4>1. n + 1 \in 1 .. Len(l) /\ (n + 1) - 1 = n /\ n <= Len(l)
        BY <1>1, <2>1
      <4>2. b \in 0 .. (n + 1) - 1 /\ A[n + 1] = A[b] \cup {n + 1}
        BY <1>1, <4>1
      <4> QED
        BY <1>1, <2>1, <4>1, <4>2
    <3> HIDE DEF b
    <3>2. A[b] \subseteq 1 .. b
      BY <2>1, <3>1
    <3> QED
      BY <2>1, <3>1, <3>2
  <2>3. \A o \in 0 .. n + 1 : o \in 0 .. n \/ o = n + 1
    BY <2>1
  <2> QED
    BY <2>1, <2>2, <2>3
<1>4. S = Nat
  <2>1. S \in SUBSET Nat
    OBVIOUS
  <2> HIDE DEF S
  <2> QED
    BY <1>2, <1>3, <2>1, NatInduct
<1> QED
  BY <1>1, <1>4 DEF A

\* A record that is appended starts a line of its own, and changes no other.
LEMMA LinesAppended ==
    ASSUME NEW l, Based(l), NEW e \in LogRecord, e.base \in 0 .. Len(l)
    PROVE  /\ Based(Append(l, e))
           /\ Len(Append(l, e)) = Len(l) + 1
           /\ \A o \in 1 .. Len(l) : Append(l, e)[o] = l[o]
           /\ Append(l, e)[Len(l) + 1] = e
           /\ \A o \in 0 .. Len(l) : LinesOf(Append(l, e))[o] = LinesOf(l)[o]
           /\ LinesOf(Append(l, e))[Len(l) + 1] =
                  LinesOf(l)[e.base] \cup {Len(l) + 1}
<1> DEFINE m == Append(l, e)
           A == LinesOf(l)
           B == LinesOf(m)
           S == {n \in Nat : \A o \in 0 .. n : o <= Len(l) => B[o] = A[o]}
<1>1. /\ l \in Seq(LogRecord) /\ Len(l) \in Nat
      /\ m \in Seq(LogRecord) /\ Len(m) = Len(l) + 1
      /\ \A o \in 1 .. Len(l) : m[o] = l[o]
      /\ m[Len(l) + 1] = e
  BY AppendProperties DEF Based
<1> HIDE DEF m
<1>2. Based(m)
  <2>1. ASSUME NEW o \in 1 .. Len(m)
        PROVE  m[o].base \in 0 .. o - 1
    <3>1. CASE o = Len(l) + 1
      <4>1. o - 1 = Len(l) /\ m[o] = e
        BY <1>1, <3>1
      <4> QED
        BY <4>1
    <3>2. CASE o \in 1 .. Len(l)
      BY <1>1, <3>2 DEF Based
    <3> QED
      BY <1>1, <3>1, <3>2
  <2> QED
    BY <1>1, <2>1 DEF Based
<1>3. /\ A[0] = {} /\ B[0] = {}
      /\ \A o \in 1 .. Len(l) : A[o] = A[l[o].base] \cup {o}
      /\ \A o \in 1 .. Len(m) : B[o] = B[m[o].base] \cup {o}
      /\ \A o \in 1 .. Len(l) : l[o].base \in 0 .. o - 1
  BY <1>2, LinesAre DEF Based
<1> HIDE DEF A, B
<1>4. 0 \in S
  <2>1. B[0] = A[0] /\ \A o \in 0 .. 0 : o = 0
    BY <1>3
  <2> QED
    BY <2>1
<1>5. ASSUME NEW n \in S
      PROVE  n + 1 \in S
  <2>1. n \in Nat /\ \A o \in 0 .. n : o <= Len(l) => B[o] = A[o]
    OBVIOUS
  <2>2. n + 1 <= Len(l) => B[n + 1] = A[n + 1]
    <3> SUFFICES ASSUME n + 1 <= Len(l)
                 PROVE  B[n + 1] = A[n + 1]
      OBVIOUS
    <3> DEFINE b == l[n + 1].base
    <3>1. n + 1 \in 1 .. Len(l) /\ n + 1 \in 1 .. Len(m) /\ (n + 1) - 1 = n
          /\ n <= Len(l)
      BY <1>1, <2>1
    <3>2. m[n + 1].base = b /\ b \in 0 .. n /\ A[n + 1] = A[b] \cup {n + 1}
      <4>1. b \in 0 .. (n + 1) - 1 /\ A[n + 1] = A[b] \cup {n + 1}
        BY <1>3, <3>1
      <4> QED
        BY <1>1, <3>1, <4>1
    <3>3. B[n + 1] = B[m[n + 1].base] \cup {n + 1}
      BY <1>3, <3>1
    <3> HIDE DEF b
    <3>4. b <= Len(l)
      BY <1>1, <2>1, <3>1, <3>2
    <3>5. B[b] = A[b]
      BY <2>1, <3>2, <3>4
    <3> QED
      BY <3>2, <3>3, <3>5
  <2>3. \A o \in 0 .. n + 1 : o \in 0 .. n \/ o = n + 1
    BY <2>1
  <2> QED
    BY <2>1, <2>2, <2>3
<1>6. S = Nat
  <2>1. S \in SUBSET Nat
    OBVIOUS
  <2> HIDE DEF S
  <2> QED
    BY <1>4, <1>5, <2>1, NatInduct
<1>7. \A o \in 0 .. Len(l) : B[o] = A[o]
  BY <1>1, <1>6
<1>8. B[Len(l) + 1] = A[e.base] \cup {Len(l) + 1}
  <2>1. Len(l) + 1 \in 1 .. Len(m)
    BY <1>1
  <2>2. B[Len(l) + 1] = B[m[Len(l) + 1].base] \cup {Len(l) + 1}
    BY <1>3, <2>1
  <2> QED
    BY <1>1, <1>7, <2>2
<1> QED
  BY <1>1, <1>2, <1>7, <1>8 DEF m, A, B

-----------------------------------------------------------------------------
(* Approvals on a line. *)

\* The newest record of L about id is p, which leaves an approval.
Ends(l, L, id, p) ==
    /\ p \in L /\ l[p].of = id
    /\ \A q \in L : l[q].of = id => q <= p
    /\ l[p].now \in Approval

\* What the record e does to the approvals that the line L of the journal l
\* leaves: a request is the first of its id and open; a decision follows what is
\* pending, a use what is the host's and approved.
Fits(l, L, e) ==
    /\ e.what = "request" =>
         /\ \A p \in L : l[p].of # e.of
         /\ e.now.status = "pending" /\ ~e.now.approved
    /\ e.what = "resolve" =>
         /\ e.now.status = "resolved"
         /\ \E p \in L : /\ Ends(l, L, e.of, p)
                         /\ l[p].now.status = "pending"
                         /\ l[p].now.host = e.now.host
    /\ e.what = "consume" =>
         /\ e.now.status = "consumed"
         /\ \E p \in L : /\ Ends(l, L, e.of, p)
                         /\ l[p].now.status # "consumed"
                         /\ l[p].now.host /\ l[p].now.approved

\* The line before a record of it.
Before(L, o) == {p \in L : p < o}

\* Every record of the line fits what is before it.
Orderly(l, L) == \A o \in L : Fits(l, Before(L, o), l[o])

\* What the o-th record is about: an approval has an id of a client's, or one that
\* an offset has given it.
Named(e, o) ==
    IF e.what \in {"note", "actor", "gone"}
    THEN e.of \in Actors \cup {None} /\ e.now = None
    ELSE e.of \in Ids \cup 1 .. o

\* Every line is orderly.
JournalInv ==
    /\ Based(log)
    /\ Len(log) <= MaxOffset
    /\ \A o \in 1 .. Len(log) : Named(log[o], o)
    /\ \A o \in 0 .. Len(log) : Orderly(log, LinesOf(log)[o])

\* What fits a line depends on its own records.
LEMMA FitsSame ==
    ASSUME NEW l, NEW m, NEW L, NEW e, \A p \in L : m[p] = l[p], Fits(l, L, e)
    PROVE  Fits(m, L, e)
<1>1. \A id, p : Ends(l, L, id, p) => Ends(m, L, id, p)
  BY DEF Ends
<1>2. ASSUME e.what = "request"
      PROVE  /\ \A p \in L : m[p].of # e.of
             /\ e.now.status = "pending" /\ ~e.now.approved
  BY <1>2 DEF Fits
<1>3. ASSUME e.what = "resolve"
      PROVE  /\ e.now.status = "resolved"
             /\ \E p \in L : /\ Ends(m, L, e.of, p)
                             /\ m[p].now.status = "pending"
                             /\ m[p].now.host = e.now.host
  BY <1>1, <1>3 DEF Fits
<1>4. ASSUME e.what = "consume"
      PROVE  /\ e.now.status = "consumed"
             /\ \E p \in L : /\ Ends(m, L, e.of, p)
                             /\ m[p].now.status # "consumed"
                             /\ m[p].now.host /\ m[p].now.approved
  BY <1>1, <1>4 DEF Fits
<1> QED
  BY <1>2, <1>3, <1>4 DEF Fits

\* So does that it is orderly.
LEMMA OrderlySame ==
    ASSUME NEW l, NEW m, NEW L, \A p \in L : m[p] = l[p], Orderly(l, L)
    PROVE  Orderly(m, L)
<1> SUFFICES ASSUME NEW o \in L
             PROVE  Fits(m, Before(L, o), m[o])
  BY DEF Orderly
<1>1. m[o] = l[o] /\ \A p \in Before(L, o) : m[p] = l[p]
  BY DEF Before
<1>2. Fits(l, Before(L, o), l[o])
  BY DEF Orderly
<1> QED
  BY <1>1, <1>2, FitsSame

\* The record n + 1 of the journal m, which goes on from l, fits the line L.
Grows(l, m, n, L) ==
    /\ L \subseteq 1 .. n
    /\ \A o \in 1 .. n : m[o] = l[o]
    /\ Orderly(l, L)
    /\ Fits(l, L, m[n + 1])

\* A line stays orderly when a record that fits is put at its end.
LEMMA OrderlyGrows ==
    ASSUME NEW l, NEW m, NEW n \in Nat, NEW L, Grows(l, m, n, L)
    PROVE  Orderly(m, L \cup {n + 1})
<1>1. /\ \A p \in L : p \in Nat /\ p < n + 1 /\ m[p] = l[p]
      /\ Orderly(l, L) /\ Fits(l, L, m[n + 1])
  BY DEF Grows
<1> SUFFICES ASSUME NEW o \in L \cup {n + 1}
             PROVE  Fits(m, Before(L \cup {n + 1}, o), m[o])
  BY DEF Orderly
<1>2. CASE o = n + 1
  <2>1. Before(L \cup {n + 1}, o) = L
    <3>1. ~(n + 1 < n + 1) /\ \A p \in L : p < n + 1
      BY <1>1
    <3> QED
      BY <1>2, <3>1, Zenon DEF Before
  <2>2. \A p \in L : m[p] = l[p]
    BY <1>1
  <2> QED
    BY <1>1, <1>2, <2>1, <2>2, FitsSame
<1>3. CASE o \in L
  <2>1. Before(L \cup {n + 1}, o) = Before(L, o)
    BY <1>1, <1>3 DEF Before
  <2>2. m[o] = l[o] /\ \A p \in Before(L, o) : m[p] = l[p]
    BY <1>1, <1>3 DEF Before
  <2>3. Fits(l, Before(L, o), l[o])
    BY <1>1, <1>3 DEF Orderly
  <2> QED
    BY <2>1, <2>2, <2>3, FitsSame
<1> QED
  BY <1>2, <1>3

\* So every line stays orderly when a record is appended that fits its line.
LEMMA AppendKeeps ==
    ASSUME JournalInv, NEW e \in LogRecord, e.base \in 0 .. Len(log),
           Len(log) < MaxOffset, log' = Append(log, e),
           Fits(log, LinesOf(log)[e.base], e),
           Named(e, Len(log) + 1)
    PROVE  JournalInv'
<1> DEFINE n == Len(log)
           A == LinesOf(log)
           B == LinesOf(log')
<1>1. /\ Based(log) /\ Based(log') /\ Len(log') = n + 1
      /\ \A o \in 1 .. n : log'[o] = log[o]
      /\ log'[n + 1] = e
      /\ \A o \in 0 .. n : B[o] = A[o]
      /\ B[n + 1] = A[e.base] \cup {n + 1}
      /\ n \in Nat
  BY LinesAppended, LinesAre DEF JournalInv
<1>2. \A o \in 0 .. n : A[o] \subseteq 1 .. n
  <2>1. \A o \in 0 .. n : A[o] \subseteq 1 .. o
    BY <1>1, LinesBounded
  <2> HIDE DEF A
  <2> QED
    BY <1>1, <2>1
<1> HIDE DEF A, B, n
<1>3. \A o \in 0 .. n : Orderly(log, A[o])
  BY DEF JournalInv, A, n
<1>4. ASSUME NEW o \in 0 .. n
      PROVE  Orderly(log', B[o])
  <2>1. \A p \in A[o] : log'[p] = log[p]
    BY <1>1, <1>2
  <2>2. Orderly(log, A[o]) /\ B[o] = A[o]
    BY <1>1, <1>3
  <2> QED
    BY <2>1, <2>2, OrderlySame
<1>5. Orderly(log', B[n + 1])
  <2>1. /\ Orderly(log, A[e.base]) /\ A[e.base] \in SUBSET (1 .. n)
        /\ Fits(log, A[e.base], log'[n + 1])
    BY <1>1, <1>2, <1>3 DEF A, n
  <2>2. Orderly(log', A[e.base] \cup {n + 1})
    <3>1. Grows(log, log', n, A[e.base])
      BY <1>1, <2>1 DEF Grows
    <3>2. n \in Nat
      BY <1>1
    <3> QED
      BY <3>1, <3>2, OrderlyGrows
  <2> QED
    BY <1>1, <2>2
<1>6. \A o \in 1 .. n + 1 : Named(log'[o], o)
  <2>1. \A o \in 1 .. n + 1 : o \in 1 .. n \/ o = n + 1
    BY <1>1
  <2>2. \A o \in 1 .. n : Named(log[o], o)
    BY DEF JournalInv, n
  <2>3. Named(e, n + 1)
    BY DEF n
  <2> QED
    BY <1>1, <2>1, <2>2, <2>3
<1>7. \A o \in 0 .. n + 1 : o \in 0 .. n \/ o = n + 1
  BY <1>1
<1>8. n + 1 <= MaxOffset
  BY <1>1, ConnectionsAssumption DEF n
<1> QED
  BY <1>1, <1>4, <1>5, <1>6, <1>7, <1>8 DEF JournalInv, B

-----------------------------------------------------------------------------
(* What the steps enter. *)

\* A record that fits its line is appended.
Appends ==
    \E e \in LogRecord :
        /\ e.base \in 0 .. Len(log)
        /\ Len(log) < MaxOffset
        /\ log' = Append(log, e)
        /\ Fits(log, LinesOf(log)[e.base], e)
        /\ Named(e, Len(log) + 1)

\* What On and its kin say of the newest line.
LEMMA NewestLine ==
    ASSUME JournalInv
    PROVE  /\ Newest = Len(log) /\ Newest \in Nat
           /\ Line = LinesOf(log)[Newest]
           /\ \A o \in Line : /\ o \in 1 .. Newest /\ log[o] \in LogRecord
                              /\ Named(log[o], o)
<1>1. Newest = Len(log) /\ Newest \in Nat /\ Line = LinesOf(log)[Newest]
  BY AncestryIs, LinesAre DEF Line, JournalInv
<1>2. Newest \in 0 .. Len(log)
  BY <1>1
<1>3. Line \subseteq 1 .. Newest
  BY <1>1, <1>2, LinesBounded DEF JournalInv
<1>4. \A o \in 1 .. Newest : log[o] \in LogRecord /\ Named(log[o], o)
  BY <1>1 DEF JournalInv, Based
<1> QED
  BY <1>1, <1>3, <1>4

\* An entry on the newest snapshot.
LEMMA EntryAppends ==
    ASSUME JournalInv, NEW what \in Kinds,
           NEW of \in Ids \cup Nat \cup Actors \cup {None},
           NEW now \in Approval \cup {None},
           Enter(Entry(what, of, now)),
           Fits(log, Line, Entry(what, of, now)),
           Named(Entry(what, of, now), Newest + 1)
    PROVE  Appends
<1> DEFINE e == Entry(what, of, now)
<1>1. Newest = Len(log) /\ Newest \in Nat /\ Line = LinesOf(log)[Newest]
  BY NewestLine
<1>2. e = [base |-> Newest, what |-> what, of |-> of, now |-> now]
  BY DEF Entry
<1>3. /\ log' = Append(log, e) /\ Newest < MaxOffset /\ Fits(log, Line, e)
      /\ Named(e, Newest + 1)
  BY DEF Enter, Room
<1> HIDE DEF e
<1>4. e \in LogRecord /\ e.base = Newest /\ e.base \in 0 .. Len(log)
  BY <1>1, <1>2 DEF LogRecord
<1> QED
  BY <1>1, <1>3, <1>4 DEF Appends

\* What is not about approvals fits every line.
LEMMA PlainAppends ==
    ASSUME JournalInv, NEW what \in {"note", "actor", "gone"},
           NEW of \in Actors \cup {None}, Enter(Entry(what, of, None))
    PROVE  Appends
<1> DEFINE e == Entry(what, of, None)
<1>1. e.what = what /\ e.of = of /\ e.now = None
  BY DEF Entry
<1> HIDE DEF e
<1>2. Fits(log, Line, e) /\ Named(e, Newest + 1)
  BY <1>1 DEF Fits, Named
<1>3. what \in Kinds
  BY DEF Kinds
<1> QED
  BY <1>2, <1>3, EntryAppends DEF e

\* A note behind any offset.
LEMMA NoteAppends ==
    ASSUME JournalInv, NEW o \in 0 .. Newest,
           Enter([Entry("note", None, None) EXCEPT !.base = o])
    PROVE  Appends
<1> DEFINE e == [Entry("note", None, None) EXCEPT !.base = o]
<1>1. Newest = Len(log) /\ Newest \in Nat
  BY NewestLine
<1>2. e = [base |-> o, what |-> "note", of |-> None, now |-> None]
  BY DEF Entry
<1>3. log' = Append(log, e) /\ Newest < MaxOffset
  BY DEF Enter, Room
<1> HIDE DEF e
<1>4. e \in LogRecord /\ e.base = o /\ e.what = "note"
      /\ e.of = None /\ e.now = None
  BY <1>1, <1>2 DEF LogRecord, Kinds
<1>5. Fits(log, LinesOf(log)[e.base], e) /\ Named(e, Len(log) + 1)
  BY <1>4 DEF Fits, Named
<1> QED
  BY <1>1, <1>3, <1>4, <1>5 DEF Appends

\* The approvals of the newest snapshot, and the records that leave them.
LEMMA StandingIs ==
    ASSUME JournalInv, NEW o \in Standing
    PROVE  /\ o \in Line /\ o \in 1 .. Newest
           /\ log[o].now \in Approval
           /\ log[o].of \in Ids \cup 1 .. o
           /\ Ends(log, Line, log[o].of, o)
<1>1. /\ o \in Line /\ log[o].now # None
      /\ \A p \in About(log[o].of) : p <= o
  BY DEF Standing
<1>2. o \in 1 .. Newest /\ log[o] \in LogRecord /\ Named(log[o], o)
  BY <1>1, NewestLine
<1>3. log[o].now \in Approval /\ log[o].of \in Ids \cup 1 .. o
  BY <1>1, <1>2 DEF LogRecord, Named
<1>4. \A p \in Line : log[p].of = log[o].of => p <= o
  BY <1>1 DEF About
<1>5. Ends(log, Line, log[o].of, o)
  BY <1>1, <1>3, <1>4 DEF Ends
<1> QED
  BY <1>1, <1>2, <1>3, <1>5

\* An approval that is decided or used up is about what it was about.
LEMMA NextAppends ==
    ASSUME JournalInv, NEW o \in Standing,
           NEW what \in {"resolve", "consume"}, NEW now \in Approval,
           Enter(Entry(what, log[o].of, now)),
           Fits(log, Line, Entry(what, log[o].of, now))
    PROVE  Appends
<1> DEFINE of == log[o].of
           e == Entry(what, of, now)
<1>1. of \in Ids \cup 1 .. o /\ o \in 1 .. Newest /\ Newest \in Nat
  BY StandingIs, NewestLine
<1>2. /\ of \in Ids \cup 1 .. Newest + 1
      /\ of \in Ids \cup Nat \cup Actors \cup {None}
  BY <1>1
<1> HIDE DEF of
<1>3. e.what = what /\ e.of = of
  BY DEF Entry
<1>4. Named(e, Newest + 1)
  BY <1>2, <1>3 DEF Named
<1>5. what \in Kinds /\ now \in Approval \cup {None}
  BY DEF Kinds
<1>6. Enter(e) /\ Fits(log, Line, e)
  BY DEF of
<1> QED
  BY <1>2, <1>4, <1>5, <1>6, EntryAppends

\* A request under an id that no record of the journal has.
LEMMA AskAppends ==
    ASSUME JournalInv, NEW of \in Ids \cup {Newest + 1}, NEW host \in BOOLEAN,
           About(of) = {}, Enter(Entry("request", of, Asked(host)))
    PROVE  Appends
<1> DEFINE e == Entry("request", of, Asked(host))
<1>1. Newest \in Nat
  BY NewestLine
<1>2. /\ e.what = "request" /\ e.of = of
      /\ e.now.status = "pending" /\ ~e.now.approved
  BY DEF Entry, Asked
<1>3. Asked(host) \in Approval
  BY DEF Asked, Approval
<1> HIDE DEF e
<1>4. Fits(log, Line, e)
  BY <1>2 DEF Fits, About
<1>5. Named(e, Newest + 1)
  BY <1>1, <1>2 DEF Named
<1>6. of \in Ids \cup Nat \cup Actors \cup {None}
  BY <1>1
<1>7. "request" \in Kinds /\ Asked(host) \in Approval \cup {None}
  BY <1>3 DEF Kinds
<1> QED
  BY <1>4, <1>5, <1>6, <1>7, EntryAppends DEF e

\* authorize_host_read.
LEMMA ReadAppends ==
    ASSUME JournalInv, Read
    PROVE  Appends \/ log' = log
<1>1. ASSUME NEW o \in Prior, log[o].now.approved,
             Enter(Entry("consume", log[o].of, [log[o].now EXCEPT !.status = "consumed"]))
      PROVE  Appends
  <2> DEFINE now == [log[o].now EXCEPT !.status = "consumed"]
             e == Entry("consume", log[o].of, now)
  <2>1. o \in Standing /\ log[o].now.host /\ log[o].now.status # "consumed"
    BY DEF Prior
  <2>2. /\ o \in Line /\ log[o].now \in Approval
        /\ Ends(log, Line, log[o].of, o)
    BY <2>1, StandingIs
  <2>3. now \in Approval /\ now.status = "consumed"
    BY <2>2 DEF Approval
  <2>4. e.what = "consume" /\ e.of = log[o].of /\ e.now = now
    BY DEF Entry
  <2> HIDE DEF now, e
  <2>5. Fits(log, Line, e)
    BY <1>1, <2>1, <2>2, <2>3, <2>4 DEF Fits
  <2> QED
    BY <1>1, <2>1, <2>3, <2>5, NextAppends DEF now, e
<1>2. CASE Enter(Entry("request", Newest + 1, Asked(TRUE)))
  <2>1. About(Newest + 1) = {}
    <3> SUFFICES ASSUME NEW p \in Line, log[p].of = Newest + 1
                 PROVE  FALSE
      BY DEF About
    <3>1. /\ Newest \in Nat /\ p \in 1 .. Newest /\ Named(log[p], p)
      BY NewestLine
    <3>2. Newest + 1 \notin Ids \cup Actors \cup {None}
      BY <3>1, ConnectionsAssumption
    <3> QED
      BY <3>1, <3>2 DEF Named
  <2> QED
    BY <1>2, <2>1, AskAppends
<1> QED
  BY <1>1, <1>2 DEF Read, Refused, journal

\* A client's patch.
LEMMA PatchAppends ==
    ASSUME JournalInv, Patch
    PROVE  Appends
<1>1. ASSUME NEW id \in Ids \cup {log[o].of : o \in Standing},
             NEW now \in Patches \cup {None}, Enter(Entry("patch", id, now))
      PROVE  Appends
  <2> DEFINE e == Entry("patch", id, now)
  <2>1. e.what = "patch" /\ e.of = id
    BY DEF Entry
  <2>2. Newest \in Nat
    BY NewestLine
  <2>3. id \in Ids \cup 1 .. Newest + 1
    <3>1. ASSUME NEW o \in Standing, id = log[o].of
          PROVE  id \in Ids \cup 1 .. Newest + 1
      <4>1. id \in Ids \cup 1 .. o /\ o \in 1 .. Newest
        BY <3>1, StandingIs
      <4> QED
        BY <2>2, <4>1
    <3> QED
      BY <3>1
  <2> HIDE DEF e
  <2>4. Fits(log, Line, e) /\ Named(e, Newest + 1)
    BY <2>1, <2>3 DEF Fits, Named
  <2>5. now \in Approval \cup {None}
    BY ConnectionsAssumption
  <2>6. id \in Ids \cup Nat \cup Actors \cup {None} /\ "patch" \in Kinds
    BY <2>2, <2>3 DEF Kinds
  <2> QED
    BY <1>1, <2>4, <2>5, <2>6, EntryAppends DEF e
<1>2. ASSUME NEW a \in Actors, NEW what \in {"actor", "gone"},
             Enter(Entry(what, a, None))
      PROVE  Appends
  BY <1>2, PlainAppends
<1> QED
  BY <1>1, <1>2 DEF Patch

\* Every step enters a record that fits its line, or none.
LEMMA StepAppends ==
    ASSUME JournalInv, [Next]_vars
    PROVE  Appends \/ log' = log
<1>1. ASSUME Enter(Note)
      PROVE  Appends
  BY <1>1, PlainAppends DEF Note
<1>2. Refused => log' = log
  BY DEF Refused
<1>3. CASE UNCHANGED vars \/ TurnAway \/ AcceptFails \/ Restart
  BY <1>3 DEF TurnAway, AcceptFails, Restart, vars, journal
<1>4. CASE PollJobs \/ Finish
  BY <1>1, <1>2, <1>4 DEF PollJobs, Finish, journal
<1>5. ASSUME NEW c \in Connections, Handshake(c)
      PROVE  Appends \/ log' = log
  <2>1. PICK a \in Actors : Attach(a) \/ Refused
    BY <1>5 DEF Handshake
  <2>2. CASE Enter(Entry("actor", a, None))
    BY <2>2, PlainAppends
  <2> QED
    BY <1>2, <2>1, <2>2 DEF Attach, journal
<1>6. ASSUME NEW c \in Connections,
             Accept(c) \/ Leave(c) \/ Release(c) \/ Detach(c) \/ Shutdown(c)
      PROVE  log' = log
  BY <1>6 DEF Accept, Leave, Release, Detach, Shutdown, journal
<1>7. ASSUME NEW c \in Connections, Change(c)
      PROVE  Appends \/ log' = log
  BY <1>1, <1>2, <1>7, PatchAppends DEF Change
<1>8. ASSUME NEW c \in Connections, Branch(c)
      PROVE  Appends \/ log' = log
  BY <1>2, <1>8, NoteAppends DEF Branch, Note
<1>9. ASSUME NEW c \in Connections, RequestApproval(c)
      PROVE  Appends \/ log' = log
  <2>1. PICK id \in Ids, remote \in BOOLEAN :
            /\ About(id) = {}
            /\ \/ Enter(Entry("request", id,
                               Asked(remote /\ conns[c].actor = Owner)))
               \/ Refused
    BY <1>9 DEF RequestApproval
  <2>2. (remote /\ conns[c].actor = Owner) \in BOOLEAN
    OBVIOUS
  <2> QED
    BY <1>2, <2>1, <2>2, AskAppends
<1>10. ASSUME NEW c \in Connections, ResolveApproval(c)
       PROVE  Appends \/ log' = log
  <2>1. PICK o \in Standing, decision \in BOOLEAN :
            /\ Pending(log[o].now)
            /\ \/ Enter(Entry("resolve", log[o].of,
                            [log[o].now EXCEPT !.status = "resolved",
                                               !.approved = decision]))
               \/ Refused
    BY <1>10 DEF ResolveApproval
  <2> DEFINE now == [log[o].now EXCEPT !.status = "resolved",
                                       !.approved = decision]
             e == Entry("resolve", log[o].of, now)
  <2>2. /\ o \in Line /\ log[o].now \in Approval
        /\ Ends(log, Line, log[o].of, o)
    BY StandingIs
  <2>3. now \in Approval /\ now.status = "resolved" /\ now.host = log[o].now.host
    BY <2>2 DEF Approval
  <2>4. e.what = "resolve" /\ e.of = log[o].of /\ e.now = now
    BY DEF Entry
  <2>5. Enter(e) \/ Refused
    BY <2>1
  <2> HIDE DEF now, e
  <2>6. Fits(log, Line, e)
    BY <2>1, <2>2, <2>3, <2>4 DEF Fits, Pending
  <2>7. Enter(e) => Appends
    BY <2>3, <2>6, NextAppends DEF e
  <2> QED
    BY <1>2, <2>5, <2>7
<1>11. ASSUME NEW c \in Connections, Work(c)
       PROVE  Appends \/ log' = log
  BY <1>1, <1>2, <1>11, ReadAppends DEF Work
<1> QED
  BY <1>3, <1>4, <1>5, <1>6, <1>7, <1>8, <1>9, <1>10, <1>11 DEF Next

\* So every line stays orderly.
LEMMA JournalKeeps ==
    ASSUME JournalInv, [Next]_vars
    PROVE  JournalInv'
<1>1. CASE log' = log
  BY <1>1 DEF JournalInv, Based
<1>2. CASE Appends
  BY <1>2, AppendKeeps DEF Appends
<1> QED
  BY <1>1, <1>2, StepAppends

-----------------------------------------------------------------------------
(* The invariant, and what follows from it. *)

\* The types of what only bounds and repairs touch.
FaultsInv == poisoned \in BOOLEAN /\ faults \in 0 .. MaxFaults

\* The inductive invariant.
IInv == ServiceInv /\ JournalInv /\ FaultsInv

\* A service without connections and with an empty journal satisfies it.
LEMMA Initially ==
    ASSUME Init
    PROVE  IInv
<1> USE ConnectionsAssumption DEF Init
<1>1. Live = {}
  BY DEF Live, Closed
<1>2. IsFiniteSet(Live) /\ Cardinality(Live) = 0
  BY <1>1, FS_EmptySet
<1>3. conns \in [Connections -> Connection]
  BY DEF Closed, Connection
<1>4. DOMAIN actors = {}
  OBVIOUS
<1>5. ServiceInv
  <2>1. /\ server \in [mode : {"Serving", "Down"}, once : BOOLEAN,
                       waiting : BOOLEAN, shutdown : BOOLEAN]
    BY Zenon
  <2>2. active = 0 /\ 0 <= MaxConnections
    OBVIOUS
  <2>3. terminated \in BOOLEAN
    BY Zenon
  <2> HIDE DEF Init
  <2> QED
    BY <1>2, <1>3, <1>4, <2>1, <2>2, <2>3 DEF ServiceInv
<1>6. Len(log) = 0 /\ Based(log)
  BY DEF Based
<1>7. \A o \in 0 .. 0 : Orderly(log, LinesOf(log)[o])
  BY <1>6, LinesAre DEF Orderly
<1>8. JournalInv
  BY <1>6, <1>7 DEF JournalInv
<1>9. FaultsInv
  <2>1. poisoned \in BOOLEAN
    OBVIOUS
  <2>2. faults \in 0 .. MaxFaults
    OBVIOUS
  <2> QED
    BY <2>1, <2>2 DEF FaultsInv
<1> QED
  BY <1>5, <1>8, <1>9 DEF IInv

\* Every step keeps it.
LEMMA Inductive ==
    ASSUME IInv, [Next]_vars
    PROVE  IInv'
<1>1. ServiceInv' /\ JournalInv'
  BY ServiceKeeps, JournalKeeps DEF IInv
<1>2. /\ poisoned \in BOOLEAN /\ faults \in 0 .. MaxFaults /\ MaxFaults \in Nat
  BY ConnectionsAssumption DEF IInv, FaultsInv
<1>3. \A e : Enter(e) => UNCHANGED <<poisoned, faults>>
  BY DEF Enter
<1>4. FaultsInv'
  <2>1. CASE Refused
    <3>1. poisoned' \in BOOLEAN
      BY <1>2, <2>1 DEF Refused
    <3>2. faults' \in 0 .. MaxFaults
      BY <1>2, <2>1 DEF Refused
    <3> QED
      BY <3>1, <3>2 DEF FaultsInv
  <2>2. CASE UNCHANGED <<poisoned, faults>>
    BY <1>2, <2>2 DEF FaultsInv
  <2>3. CASE AcceptFails \/ Restart
    <3>1. poisoned' \in BOOLEAN
      BY <1>2, <2>3 DEF AcceptFails, Restart
    <3>2. faults' \in 0 .. MaxFaults
      BY <1>2, <2>3 DEF AcceptFails, Restart
    <3> QED
      BY <3>1, <3>2 DEF FaultsInv
  <2>4. CASE UNCHANGED vars
    BY <2>2, <2>4 DEF vars, journal
  <2>5. CASE TurnAway \/ PollJobs \/ Finish
    BY <1>3, <2>1, <2>2, <2>5
    DEF TurnAway, PollJobs, Finish, vars, journal
  <2>6. ASSUME NEW c \in Connections,
               \/ Accept(c) \/ Leave(c) \/ Release(c) \/ Detach(c)
               \/ Shutdown(c) \/ Change(c) \/ Branch(c) \/ RequestApproval(c)
               \/ ResolveApproval(c)
        PROVE  FaultsInv'
    BY <1>3, <2>1, <2>2, <2>6
    DEF Accept, Leave, Release, Detach, Shutdown, Change, Patch, Branch,
        RequestApproval, ResolveApproval, journal
  <2>7. ASSUME NEW c \in Connections, Handshake(c) \/ Work(c)
        PROVE  FaultsInv'
    BY <1>3, <2>1, <2>2, <2>7 DEF Handshake, Work, Attach, Read, journal
  <2> QED
    BY <2>3, <2>4, <2>5, <2>6, <2>7 DEF Next
<1> QED
  BY <1>1, <1>4 DEF IInv

\* Spec holds no state outside the inductive invariant.
LEMMA Invariant == Spec => []IInv
BY Initially, Inductive, PTL DEF Spec

\* Whoever is attached has a live connection that was granted the role, and
\* active_connections counts the connections, whatever ends in between.
THEOREM NobodyHaunts == Spec => []NoGhost
<1>1. ASSUME IInv
      PROVE  NoGhost
  <2>1. Range(actors) \subseteq Offered
    BY <1>1 DEF IInv, ServiceInv, Range
  <2>2. /\ Newest <= MaxOffset
        /\ \A o \in 1 .. Newest : log[o].base \in 0 .. o - 1
    BY <1>1 DEF IInv, JournalInv, Based, Newest
  <2>3. \A c \in Connections :
            /\ conns[c].phase \in {"Closed", "Open", "Ready", "Left"}
            /\ conns[c].actor \in Actors \cup {None}
            /\ conns[c].role \in Offered \cup {None}
    BY <1>1 DEF IInv, ServiceInv, Connection
  <2>4. TypeOK
    BY <1>1, <2>1, <2>2, <2>3 DEF IInv, ServiceInv, FaultsInv, TypeOK
  <2> QED
    BY <1>1, <2>4 DEF IInv, ServiceInv, NoGhost
<1> QED
  BY <1>1, Invariant, PTL

\* The records about o's approval since a client's patch wrote it are one or two: a
\* request or a patch, and behind it a decision.
LEMMA Since ==
    ASSUME JournalInv, NEW o \in Line, NEW p \in Line,
           Ends(log, Before(Line, o), log[o].of, p), log[o].of \notin Actors \cup {None}
    PROVE  /\ log[p].what \in {"request", "resolve", "consume", "patch"}
           /\ log[p].now.status = "pending" => log[p].what \in {"request", "patch"}
           /\ log[p].what = "request" =>
                \A q \in Before(Line, o) : log[q].of = log[o].of => q = p
<1>1. /\ p \in Nat /\ p < o /\ log[p].of = log[o].of /\ o \in Nat
      /\ log[p] \in LogRecord /\ Named(log[p], p)
      /\ \A q \in Line : q \in Nat
      /\ \A q \in Before(Line, o) : log[q].of = log[o].of => q <= p
  BY NewestLine DEF Ends, Before
<1>2. Orderly(log, Line)
  <2>1. Newest \in 0 .. Len(log) /\ Line = LinesOf(log)[Newest]
    BY NewestLine
  <2> QED
    BY <2>1 DEF JournalInv
<1>3. Fits(log, Before(Line, p), log[p])
  BY <1>2 DEF Orderly
<1>4. log[p].what \in {"request", "resolve", "consume", "patch"}
  BY <1>1 DEF Named, LogRecord, Kinds
<1>5. log[p].now.status = "pending" => log[p].what \in {"request", "patch"}
  BY <1>3, <1>4 DEF Fits
<1>6. ASSUME log[p].what = "request", NEW q \in Before(Line, o), log[q].of = log[o].of
      PROVE  q = p
  <2>1. \A r \in Before(Line, p) : log[r].of # log[o].of
    BY <1>1, <1>3, <1>6 DEF Fits
  <2>2. q <= p /\ q \in Line /\ q \in Nat
    BY <1>1, <1>6 DEF Before
  <2> QED
    BY <1>1, <1>6, <2>1, <2>2 DEF Before
<1> QED
  BY <1>4, <1>5, <1>6

\* On a branch an approval is resolved once and used once, behind a request of
\* the host and a decision for it, or behind what a client's patch made of it,
\* through every fork, rewind and restart.
THEOREM UsedOnce == Spec => []OneShot
<1>1. ASSUME IInv
      PROVE  OneShot
  <2>1. JournalInv /\ Orderly(log, Line)
    <3>1. Newest \in 0 .. Len(log) /\ Line = LinesOf(log)[Newest]
      BY <1>1, NewestLine DEF IInv
    <3> QED
      BY <1>1, <3>1 DEF IInv, JournalInv
  <2> SUFFICES ASSUME NEW o \in Line, log[o].what \in {"resolve", "consume"}
               PROVE  LET before == {p \in About(log[o].of) : p < o}
                          since  == {p \in before : \A q \in before :
                                       log[q].what = "patch" => q <= p}
                      IN  /\ \A p \in since : log[p].what # log[o].what
                          /\ log[o].what = "consume" =>
                               \E q, r \in since :
                                 /\ q <= r
                                 /\ log[q].what \in {"request", "patch"}
                                 /\ log[q].now.host
                                 /\ log[r].what \in {"resolve", "patch"}
                                 /\ log[r].now.approved
    BY DEF OneShot, On
  <2> DEFINE id == log[o].of
             before == {p \in About(id) : p < o}
             since  == {p \in before : \A q \in before : log[q].what = "patch" => q <= p}
             Once   == /\ \A p \in since : log[p].what # log[o].what
                       /\ log[o].what = "consume" =>
                            \E q, r \in since :
                              /\ q <= r
                              /\ log[q].what \in {"request", "patch"}
                              /\ log[q].now.host
                              /\ log[r].what \in {"resolve", "patch"}
                              /\ log[r].now.approved
  <2> SUFFICES Once
    OBVIOUS
  <2>2. before = {p \in Before(Line, o) : log[p].of = id}
    BY DEF About, Before
  <2>3. /\ \A p \in Line : p \in Nat
        /\ id \notin Actors \cup {None}
    <3>1. /\ \A p \in Line : p \in Nat
          /\ Named(log[o], o) /\ o \in Nat
      BY <2>1, NewestLine
    <3>2. id \in Ids \cup Nat
      BY <3>1 DEF Named
    <3> QED
      BY <3>1, <3>2, ConnectionsAssumption
  <2>4. Fits(log, Before(Line, o), log[o])
    BY <2>1 DEF Orderly
  <2>5. PICK p \in Before(Line, o) :
            /\ Ends(log, Before(Line, o), id, p)
            /\ log[o].what = "resolve" => log[p].now.status = "pending"
            /\ log[o].what = "consume" =>
                 /\ log[p].now.status # "consumed"
                 /\ log[p].now.host /\ log[p].now.approved
    BY <2>4 DEF Fits
  <2>6. p \in Line /\ p \in Nat /\ o \in Nat /\ p < o
    BY <2>3, <2>5 DEF Before
  <2>7. /\ log[p].what \in {"request", "resolve", "consume", "patch"}
        /\ log[p].now.status = "pending" => log[p].what \in {"request", "patch"}
        /\ log[p].what = "request" =>
             \A q \in Before(Line, o) : log[q].of = id => q = p
    BY <2>1, <2>3, <2>5, <2>6, Since
  <2>8. p \in before /\ \A q \in before : q <= p /\ q \in Line /\ q \in Nat
    BY <2>2, <2>3, <2>5 DEF Ends, Before
  <2> HIDE DEF before
  <2>9. p \in since
    BY <2>8
  <2>10. CASE log[p].what \in {"request", "patch"}
    <3>1. \A q \in since : q = p
      <4> SUFFICES ASSUME NEW q \in since
                   PROVE  q = p
        OBVIOUS
      <4>1. q \in before /\ (log[p].what = "patch" => p <= q)
        BY <2>8
      <4> HIDE DEF since
      <4>2. CASE log[p].what = "patch"
        BY <2>6, <2>8, <4>1, <4>2
      <4>3. CASE log[p].what = "request"
        BY <2>2, <2>7, <4>1, <4>3
      <4> QED
        BY <2>10, <4>2, <4>3
    <3>2. log[p].what # log[o].what
      BY <2>10
    <3>3. log[o].what = "consume" => log[p].what = "patch" /\ log[p].now.host
                                     /\ log[p].now.approved
      <4>1. log[p].what = "request" => ~log[p].now.approved
        BY <2>1, <2>6 DEF Orderly, Fits
      <4> QED
        BY <2>5, <2>10, <4>1
    <3> HIDE DEF since
    <3> QED
      BY <2>6, <2>9, <3>1, <3>2, <3>3
  <2>11. CASE log[p].what = "resolve"
    <3>1. PICK s \in Before(Line, p) :
              /\ Ends(log, Before(Line, p), id, s)
              /\ log[s].now.status = "pending" /\ log[s].now.host = log[p].now.host
      <4>1. Fits(log, Before(Line, p), log[p]) /\ log[p].of = id
        BY <2>1, <2>5, <2>6 DEF Orderly, Ends
      <4> QED
        BY <2>11, <4>1 DEF Fits
    <3>2. s \in Line /\ s \in Nat /\ s < p
      BY <2>3, <3>1 DEF Before
    <3>3. log[p].of = id
      BY <2>5 DEF Ends
    <3>4. log[s].what \in {"request", "patch"}
          /\ (log[s].what = "request" =>
                \A q \in Before(Line, p) : log[q].of = id => q = s)
      BY <2>1, <2>3, <2>6, <3>1, <3>2, <3>3, Since
    <3>5. s \in before
      <4>1. s < o /\ log[s].of = id
        BY <2>6, <3>1, <3>2 DEF Ends
      <4>2. s \in Before(Line, o)
        BY <3>2, <4>1 DEF Before
      <4> QED
        BY <2>2, <4>1, <4>2
    <3>6. \A q \in before : q = p \/ q <= s
      <4> SUFFICES ASSUME NEW q \in before, q # p
                   PROVE  q <= s
        OBVIOUS
      <4>0. q <= p /\ q \in Line /\ q \in Nat /\ log[q].of = id
        BY <2>2, <2>8
      <4>1. q \in Line /\ log[q].of = id /\ q < p
        BY <2>6, <4>0
      <4>2. q \in Before(Line, p)
        BY <4>1 DEF Before
      <4> QED
        BY <3>1, <4>1, <4>2 DEF Ends
    <3>7. \A q \in since : q = p \/ q = s
      <4> SUFFICES ASSUME NEW q \in since, q # p
                   PROVE  q = s
        OBVIOUS
      <4>1. q \in before /\ (log[s].what = "patch" => s <= q)
        BY <3>5
      <4>2. q \in Nat /\ q \in Line /\ log[q].of = id /\ q <= s
        BY <2>2, <2>8, <3>6, <4>1 DEF Before
      <4> HIDE DEF since
      <4>3. CASE log[s].what = "patch"
        BY <3>2, <4>1, <4>2, <4>3
      <4>4. CASE log[s].what = "request"
        <5>1. q \in Before(Line, p)
          BY <3>2, <4>2, <2>6 DEF Before
        <5> QED
          BY <3>4, <4>2, <4>4, <5>1
      <4> QED
        BY <3>4, <4>3, <4>4
    <3>8. s \in since
      <4>1. \A q \in before : log[q].what = "patch" => q <= s
        BY <2>11, <3>6
      <4> QED
        BY <3>5, <4>1
    <3>9. log[o].what = "consume"
      BY <2>5, <2>7, <2>11
    <3> HIDE DEF since
    <3>10. \A q \in since : log[q].what # "consume"
      BY <2>11, <3>4, <3>7
    <3>11. log[s].now.host /\ log[p].now.approved
      BY <2>5, <3>1, <3>9
    <3> QED
      BY <2>9, <2>11, <3>2, <2>6, <3>4, <3>8, <3>9, <3>10, <3>11
  <2>12. log[p].what # "consume"
    <3>1. log[p].what = "consume" => log[p].now.status = "consumed"
      BY <2>1, <2>6 DEF Orderly, Fits
    <3>2. log[p].now.status # "consumed"
      BY <2>5
    <3> QED
      BY <3>1, <3>2
  <2> QED
    BY <2>7, <2>10, <2>11, <2>12
<1> QED
  BY <1>1, Invariant, PTL

=============================================================================
