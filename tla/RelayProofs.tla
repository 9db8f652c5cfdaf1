---------------------------- MODULE RelayProofs ----------------------------
(***************************************************************************)
(* Proofs about the way through a relay: Relay, for any number of          *)
(* connections of either role, and RelayEngine, for buffers of every size. *)
(*                                                                         *)
(* The server's match-making leaves no pair waiting, no stream without its *)
(* one owner, and no task waiting where nobody finds it.  The two ways in  *)
(* which a task can be found exclude each other: it is in the room, or it  *)
(* has been sent a stream.  An entry may outlive its task, but then the    *)
(* task has ended and has no stream.  With it, the server is shown step by *)
(* step to implement Rendezvous.                                           *)
(*                                                                         *)
(* Of the engines: their types, that what they claim has a reason at the   *)
(* other end, and that a gridlock lasts until the connection ends.         *)
(***************************************************************************)
EXTENDS Relay, RelayEngine, FiniteSetTheorems, SequenceTheorems, TLAPS

\* Tasks that may hold a stream beside their own.
Holding == {"announce", "await", "pair", "pipe"}

\* The entries of the room are of their role; their tasks wait, or have ended,
\* and have not been sent a stream.
RoomInv ==
    \A role \in Roles : room[role] # None =>
        /\ Role(room[role]) = role
        /\ srv[room[role]] \in {"announce", "await", "closed"}
        /\ got[room[role]] = None

\* A stream that was sent is of the other role and given, and sent once.
GotInv ==
    /\ \A w \in Conns : got[w] # None =>
          srv[w] \in Holding /\ srv[got[w]] = "given" /\ Role(got[w]) # Role(w)
    /\ \A v, w \in Conns : got[v] # None /\ got[v] = got[w] => v = w

\* Every stream that was given away was sent to a task; no pair without a stream.
GivenInv ==
    /\ \A c \in Conns : srv[c] = "given" => \E w \in Conns : got[w] = c
    /\ \A c \in Conns : srv[c] \in {"pair", "pipe"} => got[c] # None

IInv ==
    /\ TypeOK /\ NeverBothWait
    /\ RoomInv /\ GotInv /\ GivenInv
    /\ WaitersCanBeFound

USE ConnAssumption

LEMMA RoleFacts ==
    /\ \A c \in Conns : Role(c) \in Roles
    /\ \A role \in Roles : Other(role) \in Roles /\ Other(role) # role
    /\ \A r, role \in Roles : r = role \/ r = Other(role)
    /\ None \notin Conns
  BY DEF Role, Roles, Other, Conns

LEMMA InitInv == Init => IInv
  BY DEF Init, IInv, TypeOK, NeverBothWait, RoomInv, GotInv, GivenInv, WaitersCanBeFound, Listens, Roles
-----------------------------------------------------------------------------
LEMMA WaitInv ==
    ASSUME IInv, NEW c \in Conns, srv[c] = "hello", Wait(c), UNCHANGED <<told, cli>>
    PROVE  IInv'
<1>1. /\ room' = [room EXCEPT ![Role(c)] = c] /\ \A role \in Roles : room[role] = None
      /\ srv' = [srv EXCEPT ![c] = "announce"] /\ got' = got
  BY DEF Wait
<1>2. got[c] = None /\ \A w \in Conns : got[w] # c
  BY RoleFacts DEF IInv, GotInv, Holding
<1>3. TypeOK'
  BY <1>1, RoleFacts DEF IInv, TypeOK
<1>4. /\ room'[Role(c)] = c /\ \A role \in Roles : role # Role(c) => room'[role] = None
      /\ srv'[c] = "announce" /\ \A d \in Conns : d # c => srv'[d] = srv[d]
  BY <1>1, RoleFacts DEF IInv, TypeOK
<1>5. NeverBothWait'
  BY <1>4, RoleFacts DEF NeverBothWait
<1>6. RoomInv'
  BY <1>1, <1>2, <1>4 DEF RoomInv
<1>7. GotInv'
  BY <1>1, <1>2, <1>4 DEF IInv, TypeOK, GotInv, Holding
<1>8. GivenInv'
  BY <1>1, <1>4 DEF IInv, GivenInv
<1>9. WaitersCanBeFound'
  <2>1. ASSUME NEW d \in Conns, Listens(d)', d # c PROVE got'[d] # None
    BY <1>1, <1>4, <2>1, RoleFacts DEF IInv, WaitersCanBeFound, Listens
  <2>. QED
    BY <1>4, <2>1 DEF WaitersCanBeFound
<1>. QED
  BY <1>3, <1>5, <1>6, <1>7, <1>8, <1>9 DEF IInv

LEMMA HandOffInv ==
    ASSUME IInv, NEW c \in Conns, srv[c] = "hello", HandOff(c), UNCHANGED <<told, cli>>
    PROVE  IInv'
<1>1. PICK w \in {room[Other(Role(c))]} \ {None} :
          /\ srv' = [srv EXCEPT ![c] = IF Listens(w) THEN "given" ELSE "closed"]
          /\ got' = IF Listens(w) THEN [got EXCEPT ![w] = c] ELSE got
  BY DEF HandOff
<1>2. room' = [room EXCEPT ![Other(Role(c))] = None] /\ room[Role(c)] = None
  BY DEF HandOff
<1>3. \A role \in Roles : room'[role] = None
  BY <1>2, RoleFacts DEF IInv, TypeOK
<1>4. /\ w \in Conns /\ w = room[Other(Role(c))]
      /\ got[w] = None /\ srv[w] \in {"announce", "await", "closed"} /\ Role(w) # Role(c)
  BY <1>1, RoleFacts DEF IInv, TypeOK, RoomInv
<1>5. w # c /\ got[c] = None /\ \A d \in Conns : got[d] # c
  BY <1>4, RoleFacts DEF IInv, GotInv, Holding
<1>6. TypeOK'
  BY <1>1, <1>2, <1>4, RoleFacts DEF IInv, TypeOK, HandOff
<1>7. NeverBothWait' /\ RoomInv'
  BY <1>3, RoleFacts DEF NeverBothWait, RoomInv, Roles
<1>8. CASE Listens(w)
  <2>1. /\ srv'[c] = "given" /\ \A d \in Conns : d # c => srv'[d] = srv[d]
        /\ got'[w] = c /\ \A d \in Conns : d # w => got'[d] = got[d]
    BY <1>1, <1>4, <1>8 DEF IInv, TypeOK
  <2>2. GotInv'
    BY <1>4, <1>5, <1>8, <2>1 DEF IInv, TypeOK, GotInv, Holding, Listens
  <2>3. GivenInv'
    BY <1>4, <1>5, <2>1, RoleFacts DEF IInv, GivenInv
  <2>4. WaitersCanBeFound'
    <3>1. ASSUME NEW d \in Conns, Listens(d)' PROVE got'[d] # None
      <4>1. d # c /\ Listens(d)
        BY <2>1, <3>1 DEF Listens
      <4>2. CASE d = w
        BY <2>1, <4>2, RoleFacts
      <4>3. CASE d # w
        <5>1. room[Role(d)] # d
          BY <1>2, <1>4, <4>3, RoleFacts
        <5>. QED
          BY <2>1, <4>1, <4>3, <5>1 DEF IInv, WaitersCanBeFound
      <4>. QED
        BY <4>2, <4>3
    <3>. QED
      BY <3>1 DEF WaitersCanBeFound
  <2>. QED
    BY <1>6, <1>7, <2>2, <2>3, <2>4 DEF IInv
<1>9. CASE ~Listens(w)
  <2>1. /\ srv'[c] = "closed" /\ \A d \in Conns : d # c => srv'[d] = srv[d]
        /\ got' = got
    BY <1>1, <1>4, <1>9 DEF IInv, TypeOK
  <2>2. GotInv'
    BY <1>5, <2>1 DEF IInv, TypeOK, GotInv, Holding
  <2>3. GivenInv'
    BY <2>1 DEF IInv, GivenInv
  <2>4. WaitersCanBeFound'
    <3>1. ASSUME NEW d \in Conns, Listens(d)' PROVE got'[d] # None
      <4>1. d # c /\ d # w /\ Listens(d)
        BY <1>9, <1>5, <2>1, <3>1 DEF Listens
      <4>2. room[Role(d)] # d
        BY <1>2, <1>4, <4>1, RoleFacts
      <4>. QED
        BY <2>1, <4>1, <4>2 DEF IInv, WaitersCanBeFound
    <3>. QED
      BY <3>1 DEF WaitersCanBeFound
  <2>. QED
    BY <1>6, <1>7, <2>2, <2>3, <2>4 DEF IInv
<1>. QED
  BY <1>8, <1>9

\* A task that ends closes the stream it was sent; its entry may stay.
LEMMA EndInv ==
    ASSUME IInv, NEW c \in Conns, srv[c] \in Holding, End(c),
           srv[c] = "announce" \/ got[c] # None
    PROVE  IInv'
<1>1. /\ srv' = [d \in Conns |-> IF d \in {c, got[c]} THEN "closed" ELSE srv[d]]
      /\ got' = [got EXCEPT ![c] = None]
      /\ UNCHANGED <<room, told, cli>>
  BY DEF End
<1>2. /\ \A d \in Conns : srv'[d] = IF d \in {c, got[c]} THEN "closed" ELSE srv[d]
      /\ got'[c] = None /\ \A d \in Conns : d # c => got'[d] = got[d]
  BY <1>1 DEF IInv, TypeOK
<1>3. /\ \A d \in Conns : got[d] # c
      /\ \A d \in Conns : d # c /\ got[d] # None => got[d] # got[c] /\ d # got[c]
  BY RoleFacts DEF IInv, GotInv, Holding
<1>4. TypeOK'
  BY <1>1 DEF IInv, TypeOK
<1>5. NeverBothWait' /\ RoomInv'
  BY <1>1, <1>2, RoleFacts DEF IInv, TypeOK, NeverBothWait, RoomInv, GotInv
<1>6. GotInv'
  BY <1>2, <1>3, RoleFacts DEF IInv, TypeOK, GotInv, Holding
<1>7. GivenInv'
  BY <1>2, <1>3, RoleFacts DEF IInv, TypeOK, GivenInv, GotInv, Holding
<1>8. WaitersCanBeFound'
  BY <1>1, <1>2 DEF IInv, TypeOK, WaitersCanBeFound, Listens
<1>. QED
  BY <1>4, <1>5, <1>6, <1>7, <1>8 DEF IInv

\* A task of c that goes on in the same place, or from hello to its end.
LEMMA MovesInv ==
    ASSUME IInv, NEW c \in Conns, NEW s, UNCHANGED <<room, got>>,
           srv' = [srv EXCEPT ![c] = s], TypeOK',
           \/ srv[c] = "announce" /\ s = "await"
           \/ srv[c] = "await" /\ got[c] # None /\ s = "pair"
           \/ srv[c] = "pair" /\ s = "pipe"
           \/ srv[c] \in {"hello", "refuse"} /\ s \in {"refuse", "closed"}
           \/ srv[c] = "closed" /\ s = "hello" /\ \A r \in Roles : room[r] # c
    PROVE  IInv'
<1>1. srv'[c] = s /\ \A d \in Conns : d # c => srv'[d] = srv[d]
  BY DEF IInv, TypeOK
<1>2. NeverBothWait'
  BY DEF IInv, NeverBothWait
<1>3. RoomInv'
  BY <1>1, RoleFacts DEF IInv, TypeOK, RoomInv
<1>4. GotInv'
  BY <1>1, RoleFacts DEF IInv, TypeOK, GotInv, Holding
<1>5. GivenInv'
  BY <1>1 DEF IInv, TypeOK, GivenInv
<1>6. WaitersCanBeFound'
  BY <1>1 DEF IInv, TypeOK, WaitersCanBeFound, Listens
<1>. QED
  BY <1>2, <1>3, <1>4, <1>5, <1>6 DEF IInv

LEMMA ServeInv ==
    ASSUME IInv, NEW c \in Conns, Serve(c)
    PROVE  IInv'
<1>1. CASE Join(c)
  <2>1. CASE Duplicate(c)
    <3>1. TypeOK'
      BY <1>1, <2>1 DEF Join, Duplicate, IInv, TypeOK
    <3>. QED
      BY <1>1, <2>1, <3>1, MovesInv DEF Join, Duplicate
  <2>. QED
    BY <1>1, <2>1, WaitInv, HandOffInv DEF Join
<1>2. CASE Refuse(c)
  <2>1. TypeOK'
    BY <1>2 DEF Refuse, IInv, TypeOK
  <2>. QED
    BY <1>2, <2>1, MovesInv DEF Refuse
<1>3. CASE Announce(c)
  <2>1. TypeOK'
    BY <1>3 DEF Announce, IInv, TypeOK
  <2>. QED
    BY <1>3, <2>1, MovesInv DEF Announce
<1>4. CASE Receive(c)
  <2>1. TypeOK'
    BY <1>4 DEF Receive, IInv, TypeOK
  <2>. QED
    BY <1>4, <2>1, MovesInv DEF Receive
<1>5. CASE Pair(c)
  <2>1. got[c] \in Conns
    BY <1>5 DEF Pair, IInv, TypeOK, GivenInv
  <2>2. TypeOK'
    BY <1>5, <2>1 DEF Pair, IInv, TypeOK
  <2>. QED
    BY <1>5, <2>2, MovesInv DEF Pair
<1>6. CASE AnnounceFails(c)
  BY <1>6, EndInv DEF AnnounceFails, Holding
<1>7. CASE PairFails(c) \/ PipeEnds(c)
  BY <1>7, EndInv DEF PairFails, PipeEnds, Holding, IInv, GivenInv
<1>. QED
  BY <1>1, <1>2, <1>3, <1>4, <1>5, <1>6, <1>7 DEF Serve

\* What clients do to their own ends disturbs no task.
LEMMA ClientInv ==
    ASSUME IInv, UNCHANGED <<room, srv, got>>, TypeOK'
    PROVE  IInv'
  BY DEF IInv, NeverBothWait, RoomInv, GotInv, GivenInv, WaitersCanBeFound, Listens

LEMMA DialInv ==
    ASSUME IInv, NEW role \in Roles, Dial(role)
    PROVE  IInv'
<1>1. PICK c \in ConnsOf(role) :
          /\ srv[c] = "closed" /\ \A r \in Roles : room[r] # c
          /\ cli' = [cli EXCEPT ![c] = "dialing"]
          /\ srv' = [srv EXCEPT ![c] = "hello"]
          /\ told' = told \ {c}
  BY DEF Dial
<1>2. UNCHANGED <<room, got>> /\ c \in Conns
  BY DEF Dial, ConnsOf
<1>3. TypeOK'
  BY <1>1, <1>2 DEF IInv, TypeOK
<1>. QED
  BY <1>1, <1>2, <1>3, MovesInv

LEMMA Inductive ==
    ASSUME IInv, [Next]_vars
    PROVE  IInv'
<1>1. ASSUME NEW c \in Conns, Joined(c) \/ Fails(c) \/ HangUp(c)
      PROVE  IInv'
  <2>1. TypeOK'
    BY <1>1 DEF Joined, Fails, HangUp, IInv, TypeOK
  <2>. QED
    BY <1>1, <2>1, ClientInv DEF Joined, Fails, HangUp
<1>2. CASE RelayRestart
  BY <1>2 DEF RelayRestart, IInv, TypeOK, NeverBothWait, RoomInv, GotInv, GivenInv,
             WaitersCanBeFound, Listens, Roles
<1>3. CASE UNCHANGED vars
  <2>1. TypeOK'
    BY <1>3 DEF vars, IInv, TypeOK
  <2>. QED
    BY <1>3, <2>1, ClientInv DEF vars
<1>. QED
  BY <1>1, <1>2, <1>3, ServeInv, DialInv DEF Next, Regular, HangUpOf
-----------------------------------------------------------------------------
LEMMA Invariant == Spec => []IInv
<1>1. Init => IInv
  BY InitInv
<1>2. IInv /\ [Next]_vars => IInv'
  BY Inductive
<1>. QED
  BY <1>1, <1>2, PTL DEF Spec

(***************************************************************************)
(* The tasks keep their types, for any number of connections.              *)
(***************************************************************************)
THEOREM TypeCorrect == Spec => []TypeOK
<1>1. IInv => TypeOK
  BY DEF IInv
<1>. QED
  BY <1>1, Invariant, PTL

(***************************************************************************)
(* Agent and gateway never both wait in the room, whatever hang-ups and    *)
(* restarts come between (main.rs:115-138).                                *)
(***************************************************************************)
THEOREM NoPairWaits == Spec => []NeverBothWait
<1>1. IInv => NeverBothWait
  BY DEF IInv
<1>. QED
  BY <1>1, Invariant, PTL

(***************************************************************************)
(* Every stream that was given away has one owner, for any number of       *)
(* connections (main.rs:120, 131 and 162).                                 *)
(***************************************************************************)
THEOREM OneOwner == Spec => []StreamsHaveOneOwner
<1>1. ASSUME IInv, NEW c \in Conns
      PROVE  srv[c] = "given" <=>
                Cardinality({d \in Conns : got[d] = c /\ Role(d) # Role(c)
                                           /\ srv[d] \in {"announce", "await", "pair", "pipe"}}) = 1
  <2> DEFINE owners == {d \in Conns : got[d] = c /\ Role(d) # Role(c)
                                      /\ srv[d] \in {"announce", "await", "pair", "pipe"}}
  <2>1. CASE srv[c] = "given"
    <3>1. PICK w \in Conns : got[w] = c
      BY <1>1, <2>1 DEF IInv, GivenInv
    <3>2. owners = {w}
      BY <1>1, <3>1, RoleFacts DEF IInv, GotInv, Holding
    <3>. QED
      BY <2>1, <3>2, FS_Singleton
  <2>2. CASE srv[c] # "given"
    <3>1. owners = {}
      BY <1>1, <2>2, RoleFacts DEF IInv, GotInv
    <3>. QED
      BY <2>2, <3>1, FS_EmptySet
  <2>. QED
    BY <2>1, <2>2
<1>2. IInv => StreamsHaveOneOwner
  BY <1>1 DEF StreamsHaveOneOwner
<1>. QED
  BY <1>2, Invariant, PTL

(***************************************************************************)
(* No task waits where nobody can find it (main.rs:133-135 and 162).       *)
(***************************************************************************)
THEOREM NobodyLost == Spec => []WaitersCanBeFound
<1>1. IInv => WaitersCanBeFound
  BY DEF IInv
<1>. QED
  BY <1>1, Invariant, PTL
-----------------------------------------------------------------------------
(***************************************************************************)
(* Relay implements Rendezvous.  A pair is what a stream in `got' and the  *)
(* task that it was sent to make; since no stream is sent twice, and no    *)
(* task is sent one when its own has been given away, every connection is  *)
(* in one pair at most.                                                    *)
(***************************************************************************)
Proper(streams) ==
    /\ streams \in [Conns -> Conns \cup {None}]
    /\ \A w \in Conns : streams[w] # None =>
          /\ streams[streams[w]] = None
          /\ \A v \in Conns : streams[v] = streams[w] => v = w

Mates == MatesIn(got)
Present == {c \in Conns : srv[c] # "closed"}

LEMMA MatesFacts ==
    ASSUME NEW streams, Proper(streams)
    PROVE  /\ MatesIn(streams) \in [Conns -> Conns \cup {None}]
           /\ \A c, d \in Conns :
                 MatesIn(streams)[c] = d <=> streams[c] = d \/ streams[d] = c
<1> DEFINE M(c) == IF streams[c] # None THEN streams[c]
                   ELSE IF \E w \in Conns : streams[w] = c
                        THEN CHOOSE w \in Conns : streams[w] = c
                        ELSE None
<1>1. MatesIn(streams) = [c \in Conns |-> M(c)]
  BY DEF MatesIn
<1>2. ASSUME NEW c \in Conns
      PROVE  M(c) \in Conns \cup {None} /\ \A d \in Conns : M(c) = d <=> streams[c] = d \/ streams[d] = c
  <2>1. CASE streams[c] # None
    <3>1. \A d \in Conns : streams[d] # c
      BY <2>1, RoleFacts DEF Proper
    <3> QED
      BY <2>1, <3>1 DEF Proper
  <2>2. CASE streams[c] = None
    <3>1. CASE \E w \in Conns : streams[w] = c
      <4>1. PICK w \in Conns : streams[w] = c
        BY <3>1
      <4>2. \A v \in Conns : streams[v] = c => v = w
        BY <4>1, RoleFacts DEF Proper
      <4>3. (CHOOSE v \in Conns : streams[v] = c) = w
        BY <4>1, <4>2
      <4> QED
        BY <2>2, <3>1, <4>1, <4>2, <4>3, RoleFacts
    <3>2. CASE ~ \E w \in Conns : streams[w] = c
      BY <2>2, <3>2, RoleFacts
    <3> QED
      BY <3>1, <3>2
  <2> QED
    BY <2>1, <2>2
<1> HIDE DEF M
<1>3. \A c \in Conns : MatesIn(streams)[c] = M(c)
  BY <1>1
<1> QED
  BY <1>1, <1>2, <1>3

LEMMA ProperFacts ==
    /\ IInv => Proper(got)
    /\ IInv' => Proper(got')
<1>1. IInv => Proper(got)
  BY RoleFacts DEF IInv, TypeOK, GotInv, Holding, Proper
<1>2. IInv' => Proper(got')
  BY RoleFacts DEF IInv, TypeOK, GotInv, Holding, Proper
<1> QED
  BY <1>1, <1>2

LEMMA MatesNow ==
    ASSUME Proper(got)
    PROVE  /\ Mates \in [Conns -> Conns \cup {None}]
           /\ \A d, e \in Conns : Mates[d] = e <=> got[d] = e \/ got[e] = d
  BY MatesFacts DEF Mates

LEMMA MatesNext ==
    ASSUME Proper(got')
    PROVE  /\ Mates' \in [Conns -> Conns \cup {None}]
           /\ \A d, e \in Conns : Mates'[d] = e <=> got'[d] = e \/ got'[e] = d
<1>1. Mates' = MatesIn(got')
  BY DEF Mates
<1> QED
  BY <1>1, MatesFacts

\* A connection has no mate when it has been sent none and was not given away.
LEMMA Alone ==
    ASSUME IInv, NEW c \in Conns, got[c] = None, srv[c] # "given"
    PROVE  Mates[c] = None
<1>1. \A d \in Conns : got[d] # c
  BY RoleFacts DEF IInv, GotInv
<1> QED
  BY <1>1, ProperFacts, MatesFacts, RoleFacts DEF Mates

LEMMA MeetingTypes ==
    /\ AgentConns \cup GatewayConns = Conns
    /\ \A c, d \in Conns : Role(c) # Role(d) =>
          \/ c \in AgentConns /\ d \in GatewayConns
          \/ d \in AgentConns /\ c \in GatewayConns
  BY DEF Conns, Role

LEMMA MeetingInit == Init => Meeting!Init
<1> SUFFICES ASSUME Init PROVE Meeting!Init
  OBVIOUS
<1>1. /\ IInv /\ \A c \in Conns : srv[c] = "closed" /\ got[c] = None
  BY InitInv DEF Init
<1>2. Mates \in [Conns -> Conns \cup {None}] /\ \A c \in Conns : Mates[c] = None
  BY <1>1, Alone, ProperFacts, MatesFacts DEF Mates
<1>3. Mates = [c \in Conns |-> None]
  BY <1>2
<1>4. {c \in Conns : srv[c] # "closed"} = {} /\ Piped = {}
  BY <1>1 DEF Piped
<1> QED
  BY <1>3, <1>4, MeetingTypes DEF Meeting!Init, Mates

\* A task that goes on without its stream, or anybody's, being closed.
LEMMA MeetingQuiet ==
    ASSUME got' = got, {d \in Conns : srv'[d] # "closed"} = Present,
           \A d \in Conns : srv'[d] = "pipe" <=> srv[d] = "pipe"
    PROVE  UNCHANGED Meeting!vars
<1>1. Mates' = Mates /\ Present' = Present
  BY DEF Mates, MatesIn, Present
<1>2. Piped' = Piped
  BY DEF Piped
<1> QED
  BY <1>1, <1>2 DEF Meeting!vars, Mates, Present

LEMMA MeetingEnters ==
    ASSUME IInv, NEW c \in Conns, srv[c] = "closed", got' = got, srv' = [srv EXCEPT ![c] = "hello"]
    PROVE  Meeting!Enter(c)
<1>1. Mates' = Mates
  BY DEF Mates, MatesIn
<1>2. c \notin Present /\ Present' = Present \cup {c}
  BY DEF IInv, TypeOK, Present
<1>3. Piped' = Piped
  BY DEF IInv, TypeOK, Piped
<1> QED
  BY <1>1, <1>2, <1>3 DEF Meeting!Enter, Mates, Present

\* One task closes its stream, and has and is in no pair.
LEMMA MeetingLeaves ==
    ASSUME IInv, NEW c \in Conns, srv[c] \notin {"closed", "given", "pipe"}, got[c] = None,
           got' = got, srv' = [srv EXCEPT ![c] = "closed"]
    PROVE  Meeting!Leave(c)
<1>1. Mates' = Mates /\ Mates[c] = None
  BY Alone DEF Mates, MatesIn
<1>2. c \in Present /\ Present' = Present \ {c}
  BY DEF IInv, TypeOK, Present
<1>3. Piped' = Piped
  BY DEF IInv, TypeOK, Piped
<1> QED
  BY <1>1, <1>2, <1>3 DEF Meeting!Leave, Mates, Present

LEMMA MeetingMatches ==
    ASSUME IInv, IInv', NEW c \in Conns, NEW w \in Conns,
           srv[c] = "hello", srv[w] \in {"announce", "await"}, got[w] = None, Role(c) # Role(w),
           srv' = [srv EXCEPT ![c] = "given"], got' = [got EXCEPT ![w] = c]
    PROVE  \E a \in AgentConns, g \in GatewayConns : Meeting!Match(a, g)
<1>1. c # w /\ got[c] = None
  BY DEF IInv, GotInv, Holding
<1>2. Mates[c] = None /\ Mates[w] = None
  BY <1>1, Alone
<1>3. Mates' = [Mates EXCEPT ![c] = w, ![w] = c]
  <2>1. /\ Mates \in [Conns -> Conns \cup {None}] /\ Mates' \in [Conns -> Conns \cup {None}]
        /\ \A d, e \in Conns : Mates[d] = e <=> got[d] = e \/ got[e] = d
        /\ \A d, e \in Conns : Mates'[d] = e <=> got'[d] = e \/ got'[e] = d
    BY ProperFacts, MatesNow, MatesNext
  <2>2. got'[w] = c /\ \A d \in Conns : d # w => got'[d] = got[d]
    BY DEF IInv, TypeOK
  <2>3. Mates'[w] = c /\ Mates'[c] = w
    BY <2>1, <2>2
  <2>4. ASSUME NEW d \in Conns, d # c, d # w PROVE Mates'[d] = Mates[d]
    <3>1. \A e \in Conns : Mates'[d] = e <=> Mates[d] = e
      BY <1>1, <1>2, <2>1, <2>2, <2>4, RoleFacts
    <3> QED
      BY <2>1, <2>4, <3>1
  <2> QED
    BY <2>1, <2>3, <2>4
<1>4. Present' = Present
  BY DEF IInv, TypeOK, Present
<1>5. Piped' = Piped
  BY <1>1 DEF IInv, TypeOK, Piped
<1>6. c \in Present /\ w \in Present
  BY DEF Present
<1>7. CASE c \in AgentConns /\ w \in GatewayConns
  <2>1. Meeting!Match(c, w)
    BY <1>2, <1>3, <1>4, <1>5, <1>6 DEF Meeting!Match, Mates, Present
  <2> QED
    BY <1>7, <2>1
<1>8. CASE w \in AgentConns /\ c \in GatewayConns
  <2>1. Mates' = [Mates EXCEPT ![w] = c, ![c] = w]
    BY <1>1, <1>3
  <2>2. Meeting!Match(w, c)
    BY <1>2, <2>1, <1>4, <1>5, <1>6 DEF Meeting!Match, Mates, Present
  <2> QED
    BY <1>8, <2>2
<1> QED
  BY <1>7, <1>8, MeetingTypes

LEMMA MeetingFlows ==
    ASSUME IInv, NEW c \in Conns, srv[c] = "pair", got' = got, srv' = [srv EXCEPT ![c] = "pipe"]
    PROVE  \E a \in AgentConns, g \in GatewayConns : Meeting!Flow(a, g)
<1>1. PICK w \in Conns : w = got[c] /\ srv[w] = "given" /\ Role(w) # Role(c)
  BY DEF IInv, TypeOK, GivenInv, GotInv
<1>2. Mates' = Mates /\ Mates[c] = w /\ Mates[w] = c
  <2>1. Mates' = Mates
    BY DEF Mates, MatesIn
  <2> QED
    BY <1>1, <2>1, ProperFacts, MatesNow
<1>3. Present' = Present
  BY DEF IInv, TypeOK, Present
<1>4. Piped' = Piped \cup {c, w}
  BY <1>1 DEF IInv, TypeOK, Piped
<1>5. Piped' = Piped \cup {w, c}
  BY <1>4
<1>6. CASE c \in AgentConns /\ w \in GatewayConns
  <2>1. Meeting!Flow(c, w)
    BY <1>2, <1>3, <1>4 DEF Meeting!Flow, Mates, Present
  <2> QED
    BY <1>6, <2>1
<1>7. CASE w \in AgentConns /\ c \in GatewayConns
  <2>1. Meeting!Flow(w, c)
    BY <1>2, <1>3, <1>5 DEF Meeting!Flow, Mates, Present
  <2> QED
    BY <1>7, <2>1
<1> QED
  BY <1>1, <1>6, <1>7, MeetingTypes

LEMMA MeetingParts ==
    ASSUME IInv, IInv', NEW c \in Conns, srv[c] \in Holding, got[c] # None, End(c)
    PROVE  \E a \in AgentConns, g \in GatewayConns : Meeting!Part(a, g)
<1>1. PICK w \in Conns : w = got[c] /\ srv[w] = "given" /\ Role(w) # Role(c) /\ w # c
  BY DEF IInv, TypeOK, GotInv
<1>2. /\ \A d \in Conns : srv'[d] = IF d \in {c, w} THEN "closed" ELSE srv[d]
      /\ got'[c] = None /\ \A d \in Conns : d # c => got'[d] = got[d]
  BY <1>1 DEF IInv, TypeOK, End
<1>3. /\ \A d \in Conns : got[d] # c /\ (d # c => got[d] # w)
      /\ got[w] = None
  BY <1>1, RoleFacts DEF IInv, GotInv, Holding
<1>4. Mates' = [Mates EXCEPT ![c] = None, ![w] = None] /\ Mates[c] = w /\ Mates[w] = c
  <2>1. /\ Mates \in [Conns -> Conns \cup {None}] /\ Mates' \in [Conns -> Conns \cup {None}]
        /\ \A d, e \in Conns : Mates[d] = e <=> got[d] = e \/ got[e] = d
        /\ \A d, e \in Conns : Mates'[d] = e <=> got'[d] = e \/ got'[e] = d
    BY ProperFacts, MatesNow, MatesNext
  <2>2. \A e \in Conns : Mates'[c] # e /\ Mates'[w] # e
    BY <1>1, <1>2, <1>3, <2>1, RoleFacts
  <2>3. Mates'[c] = None /\ Mates'[w] = None
    BY <2>1, <2>2
  <2>4. ASSUME NEW d \in Conns, d # c, d # w PROVE Mates'[d] = Mates[d]
    <3>1. \A e \in Conns : Mates'[d] = e <=> Mates[d] = e
      BY <1>1, <1>2, <1>3, <2>1, <2>4, RoleFacts
    <3> QED
      BY <2>1, <2>4, <3>1
  <2>5. Mates[c] = w /\ Mates[w] = c
    BY <1>1, <2>1
  <2> QED
    BY <2>1, <2>3, <2>4, <2>5
<1>5. Present' = Present \ {c, w}
  BY <1>2 DEF Present
<1>6. Piped' = Piped \ {c, w}
  <2>1. ASSUME NEW d \in Conns PROVE d \in Piped' <=> d \in Piped /\ d \notin {c, w}
    <3>1. d \in Piped' <=> \E v \in Conns : srv'[v] = "pipe" /\ d \in {v, got'[v]}
      BY DEF Piped
    <3>2. d \in Piped <=> \E v \in Conns : srv[v] = "pipe" /\ d \in {v, got[v]}
      BY DEF Piped
    <3> QED
      BY <1>1, <1>2, <1>3, <3>1, <3>2
  <2>2. Piped \subseteq Conns /\ Piped' \subseteq Conns
    BY DEF Piped
  <2> QED
    BY <2>1, <2>2
<1>7. CASE c \in AgentConns /\ w \in GatewayConns
  <2>1. Meeting!Part(c, w)
    BY <1>4, <1>5, <1>6 DEF Meeting!Part, Mates, Present
  <2> QED
    BY <1>7, <2>1
<1>8. CASE w \in AgentConns /\ c \in GatewayConns
  <2>1. /\ Mates' = [Mates EXCEPT ![w] = None, ![c] = None]
        /\ Present' = Present \ {w, c} /\ Piped' = Piped \ {w, c}
    BY <1>1, <1>4, <1>5, <1>6
  <2>2. Meeting!Part(w, c)
    BY <1>4, <2>1 DEF Meeting!Part, Mates, Present
  <2> QED
    BY <1>8, <2>2
<1> QED
  BY <1>1, <1>7, <1>8, MeetingTypes

LEMMA MeetingSteps == IInv /\ IInv' /\ [Next]_vars => [Meeting!Next]_(Meeting!vars)
<1> SUFFICES ASSUME IInv, IInv', [Next]_vars PROVE Meeting!Next \/ UNCHANGED Meeting!vars
  OBVIOUS
<1>1. ASSUME NEW c \in Conns, Meeting!Enter(c) \/ Meeting!Leave(c) PROVE Meeting!Next
  BY <1>1, MeetingTypes DEF Meeting!Next
<1>2. ASSUME \E a \in AgentConns, g \in GatewayConns :
                Meeting!Match(a, g) \/ Meeting!Flow(a, g) \/ Meeting!Part(a, g)
      PROVE  Meeting!Next
  BY <1>2 DEF Meeting!Next
\* Tasks that neither close a stream nor pipe; clients at their own end.
<1>3. ASSUME NEW c \in Conns, Duplicate(c) \/ Wait(c), srv[c] = "hello"
      PROVE  UNCHANGED Meeting!vars
  BY <1>3, MeetingQuiet DEF Duplicate, Wait, IInv, TypeOK, Present
<1>4. ASSUME NEW c \in Conns, Announce(c) \/ Receive(c) PROVE UNCHANGED Meeting!vars
  BY <1>4, MeetingQuiet DEF Announce, Receive, IInv, TypeOK, Present
<1>5. ASSUME UNCHANGED <<srv, got>> PROVE UNCHANGED Meeting!vars
  BY <1>5, MeetingQuiet DEF Present
<1>6. ASSUME NEW c \in Conns, HandOff(c), srv[c] = "hello" PROVE Meeting!Next
  <2>1. PICK w \in {room[Other(Role(c))]} \ {None} :
            /\ srv' = [srv EXCEPT ![c] = IF Listens(w) THEN "given" ELSE "closed"]
            /\ got' = IF Listens(w) THEN [got EXCEPT ![w] = c] ELSE got
    BY <1>6 DEF HandOff
  <2>2. w \in Conns /\ got[w] = None /\ Role(w) # Role(c)
    BY <2>1, RoleFacts DEF IInv, TypeOK, RoomInv
  <2>3. CASE Listens(w)
    <3>1. srv' = [srv EXCEPT ![c] = "given"] /\ got' = [got EXCEPT ![w] = c]
      BY <2>1, <2>3
    <3> QED
      BY <1>2, <1>6, <2>2, <2>3, <3>1, MeetingMatches DEF Listens
  <2>4. CASE ~Listens(w)
    <3>1. srv' = [srv EXCEPT ![c] = "closed"] /\ got' = got
      BY <2>1, <2>4
    <3>2. got[c] = None
      BY <1>6 DEF IInv, GotInv, Holding
    <3> QED
      BY <1>1, <1>6, <3>1, <3>2, MeetingLeaves
  <2> QED
    BY <2>3, <2>4
<1>7. ASSUME NEW c \in Conns, Refuse(c) PROVE Meeting!Next
  <2>1. got[c] = None
    BY <1>7 DEF Refuse, IInv, GotInv, Holding
  <2> QED
    BY <1>1, <1>7, <2>1, MeetingLeaves DEF Refuse
<1>8. ASSUME NEW c \in Conns, Pair(c) PROVE Meeting!Next
  <2>1. \E a \in AgentConns, g \in GatewayConns : Meeting!Flow(a, g)
    BY <1>8, MeetingFlows DEF Pair
  <2> QED
    BY <1>2, <2>1
<1>9. ASSUME NEW c \in Conns, AnnounceFails(c) \/ PairFails(c) \/ PipeEnds(c) PROVE Meeting!Next
  <2>1. srv[c] \in Holding /\ End(c) /\ (srv[c] = "announce" \/ got[c] # None)
    BY <1>9 DEF AnnounceFails, PairFails, PipeEnds, Holding, IInv, GivenInv
  <2>2. CASE got[c] # None
    <3>1. \E a \in AgentConns, g \in GatewayConns : Meeting!Part(a, g)
      BY <2>1, <2>2, MeetingParts
    <3> QED
      BY <1>2, <3>1
  <2>3. CASE got[c] = None
    <3>1. srv' = [srv EXCEPT ![c] = "closed"]
      <4>1. \A d \in Conns : d \in {c, got[c]} <=> d = c
        BY <2>3, RoleFacts
      <4>2. srv' = [d \in Conns |-> IF d = c THEN "closed" ELSE srv[d]]
        BY <2>1, <4>1 DEF End
      <4> QED
        BY <4>2 DEF IInv, TypeOK
    <3>2. got' = got
      BY <2>1, <2>3 DEF End, IInv, TypeOK
    <3> QED
      BY <1>1, <2>1, <2>3, <3>1, <3>2, MeetingLeaves DEF Holding
  <2> QED
    BY <2>2, <2>3
<1>10. ASSUME NEW role \in Roles, Dial(role) PROVE Meeting!Next
  <2>1. PICK c \in ConnsOf(role) : srv[c] = "closed" /\ srv' = [srv EXCEPT ![c] = "hello"]
    BY <1>10 DEF Dial
  <2>2. c \in Conns /\ got' = got
    BY <1>10 DEF Dial, ConnsOf
  <2> QED
    BY <1>1, <2>1, <2>2, MeetingEnters
<1>11. ASSUME RelayRestart PROVE Meeting!Next
  <2>1. \A c \in Conns : srv'[c] = "closed" /\ got'[c] = None
    BY <1>11 DEF RelayRestart
  <2>2. Mates' = [c \in Conns |-> None]
    <3>1. Mates' \in [Conns -> Conns \cup {None}] /\ \A c, d \in Conns : Mates'[c] # d
      BY <2>1, ProperFacts, MatesNext, RoleFacts
    <3> QED
      BY <3>1
  <2>3. Present' = {} /\ Piped' = {}
    BY <2>1 DEF Present, Piped
  <2>4. Meeting!Restart
    BY <2>2, <2>3, MeetingTypes DEF Meeting!Restart, Mates, Present
  <2> QED
    BY <2>4 DEF Meeting!Next
<1>12. ASSUME NEW c \in Conns, Serve(c) PROVE Meeting!Next \/ UNCHANGED Meeting!vars
  BY <1>3, <1>4, <1>6, <1>7, <1>8, <1>9, <1>12 DEF Serve, Join
<1>13. ASSUME NEW c \in Conns, Joined(c) \/ Fails(c) \/ HangUp(c) PROVE UNCHANGED Meeting!vars
  BY <1>5, <1>13 DEF Joined, Fails, HangUp
<1>14. ASSUME UNCHANGED vars PROVE UNCHANGED Meeting!vars
  BY <1>5, <1>14 DEF vars
<1> QED
  BY <1>10, <1>11, <1>12, <1>13, <1>14 DEF Next, Regular, HangUpOf

(***************************************************************************)
(* The server keeps what a relay promises, for any number of connections:  *)
(* rooms, tasks and streams that are sent between them amount to bringing  *)
(* two clients of different roles together and keeping them together until *)
(* both are closed (main.rs:86-183).                                       *)
(***************************************************************************)
THEOREM KeepsPairsTogether == Spec => ImplementsRendezvous
<1>1. Init => Meeting!Init
  BY MeetingInit
<1>2. IInv /\ IInv' /\ [Next]_vars => [Meeting!Next]_(Meeting!vars)
  BY MeetingSteps
<1> QED
  BY <1>1, <1>2, Invariant, PTL DEF Spec, ImplementsRendezvous, Meeting!Spec
-----------------------------------------------------------------------------
(***************************************************************************)
(* The engines at the two ends of the pipe.                                *)
(***************************************************************************)
HIDE ConnAssumption

\* A buffer that has room may take a frame.
LEMMA PutType ==
    ASSUME EngineTypeOK, NEW e \in Ends, NEW frame \in Frames, Put(e, frame)
    PROVE  /\ wire' \in [Ends -> Seq(Frames)]
           /\ \A d \in Ends : Len(wire'[d]) <= Capacity
<1>1. wire[e] \in Seq(Frames) /\ Len(wire[e]) \in Nat
  BY DEF EngineTypeOK
<1>2. Append(wire[e], frame) \in Seq(Frames) /\ Len(Append(wire[e], frame)) = Len(wire[e]) + 1
  BY <1>1, AppendProperties
<1>3. wire' = [wire EXCEPT ![e] = Append(wire[e], frame)] /\ Len(wire[e]) < Capacity
  BY DEF Put
<1> QED
  BY <1>1, <1>2, <1>3, CapacityAssumption DEF EngineTypeOK

\* Reading makes room.
LEMMA ReadType ==
    ASSUME EngineTypeOK, NEW e \in Ends, wire[e] # <<>>, wire' = [wire EXCEPT ![e] = Tail(@)]
    PROVE  /\ wire' \in [Ends -> Seq(Frames)]
           /\ \A d \in Ends : Len(wire'[d]) <= Capacity
           /\ Head(wire[e]) \in Frames
<1>1. wire[e] \in Seq(Frames) /\ Len(wire[e]) \in Nat /\ Len(wire[e]) <= Capacity
  BY DEF EngineTypeOK
<1>2. /\ Tail(wire[e]) \in Seq(Frames) /\ Len(Tail(wire[e])) = Len(wire[e]) - 1
      /\ Head(wire[e]) \in Frames
  BY <1>1, HeadTailProperties
<1> QED
  BY <1>1, <1>2, CapacityAssumption DEF EngineTypeOK

LEMMA PeerFacts == \A e \in Ends : Peer(e) \in Ends /\ Peer(Peer(e)) = e /\ Peer(e) # e
  BY DEF Ends, Peer

LEMMA EngineInitType == EngineInit => EngineTypeOK
<1> SUFFICES ASSUME EngineInit PROVE EngineTypeOK
  OBVIOUS
<1>1. \A e \in Ends : wire[e] = <<>> /\ Len(wire[e]) = 0
  BY DEF EngineInit
<1> QED
  BY <1>1, CapacityAssumption DEF EngineInit, EngineTypeOK

LEMMA EngineTypeStep == EngineTypeOK /\ [EngineNext]_engineVars => EngineTypeOK'
<1> SUFFICES ASSUME EngineTypeOK, [EngineNext]_engineVars PROVE EngineTypeOK'
  OBVIOUS
<1> USE DEF EngineTypeOK
<1>1. ASSUME NEW e \in Ends, EthTake(e) \/ RxTake(e) \/ KaTake(e) PROVE EngineTypeOK'
  BY <1>1 DEF EthTake, RxTake, KaTake, Lock
<1>2. ASSUME NEW e \in Ends, EthWrite(e) PROVE EngineTypeOK'
  <2>1. CASE Put(e, "ethernet")
    BY <1>2, <2>1, PutType DEF EthWrite, Unlock, Frames
  <2>2. CASE Broken
    BY <1>2, <2>2 DEF EthWrite, Unlock, Broken
  <2> QED
    BY <1>2, <2>1, <2>2 DEF EthWrite
<1>3. ASSUME NEW e \in Ends, RxRead(e) PROVE EngineTypeOK'
  <2>1. /\ wire' \in [Ends -> Seq(Frames)]
        /\ \A d \in Ends : Len(wire'[d]) <= Capacity
        /\ Head(wire[Peer(e)]) \in Frames
    BY <1>3, PeerFacts, ReadType DEF RxRead
  <2>2. After(Head(wire[Peer(e)])) \subseteq {"read", "reply", "mark"}
    BY <2>1 DEF After, Frames
  <2>3. rx' \in [Ends -> {"read", "reply", "mark", "ended"}]
    BY <1>3, <2>2 DEF RxRead
  <2> QED
    BY <1>3, <2>1, <2>3 DEF RxRead
<1>4. ASSUME NEW e \in Ends, RxDrop(e) PROVE EngineTypeOK'
  BY <1>4, PeerFacts, ReadType DEF RxDrop
<1>5. ASSUME NEW e \in Ends, RxReply(e) PROVE EngineTypeOK'
  <2>1. CASE Put(e, "reply")
    BY <1>5, <2>1, PutType DEF RxReply, Unlock, Frames
  <2>2. CASE Broken
    BY <1>5, <2>2 DEF RxReply, Unlock, Broken
  <2> QED
    BY <1>5, <2>1, <2>2 DEF RxReply
<1>6. ASSUME NEW e \in Ends, RxMark(e) \/ RxEnd(e) PROVE EngineTypeOK'
  BY <1>6 DEF RxMark, RxEnd
<1>7. ASSUME NEW e \in Ends, KaProbe(e) PROVE EngineTypeOK'
  BY <1>7, PutType DEF KaProbe, Unlock, Frames
<1>8. ASSUME NEW e \in Ends, KaProbeFails(e) \/ KaExpire(e) PROVE EngineTypeOK'
  BY <1>8 DEF KaProbeFails, KaExpire, Unlock, Broken
<1>9. ASSUME NEW e \in Ends, PeerJoins(e) \/ Elapse(e) PROVE EngineTypeOK'
  <2>1. joined' \in [Ends -> BOOLEAN] /\ fresh' \in [Ends -> BOOLEAN]
    BY <1>9 DEF PeerJoins, Elapse
  <2>2. UNCHANGED <<open, wire, writer, conn, eth, rx, ka>>
    BY <1>9 DEF PeerJoins, Elapse
  <2> QED
    BY <2>1, <2>2
<1>10. ASSUME Close PROVE EngineTypeOK'
  <2>1. \A e \in Ends : wire'[e] = <<>> /\ Len(wire'[e]) = 0
    BY <1>10 DEF Close
  <2>2. wire' \in [Ends -> Seq(Frames)]
    BY <1>10 DEF Close
  <2>3. \A e \in Ends : Len(wire'[e]) <= Capacity
    BY <2>1, CapacityAssumption
  <2> QED
    BY <1>10, <2>2, <2>3 DEF Close
<1>11. ASSUME UNCHANGED engineVars PROVE EngineTypeOK'
  BY <1>11 DEF engineVars
<1> QED
  BY <1>1, <1>2, <1>3, <1>4, <1>5, <1>6, <1>7, <1>8, <1>9, <1>10, <1>11 DEF EngineNext, Rx, Ka

(***************************************************************************)
(* Type correctness (relay_engine.rs): in particular no end ever writes    *)
(* more than the buffers hold, whatever the three tasks do.                *)
(***************************************************************************)
THEOREM EngineTypeCorrect == EngineSpec => []EngineTypeOK
<1>1. EngineInit => EngineTypeOK
  BY EngineInitType
<1>2. EngineTypeOK /\ [EngineNext]_engineVars => EngineTypeOK'
  BY EngineTypeStep
<1> QED
  BY <1>1, <1>2, PTL DEF EngineSpec
-----------------------------------------------------------------------------
(***************************************************************************)
(* What an end claims it has from a frame that it has read and is still    *)
(* handling, and a frame is there only if its sender has joined.  A claim  *)
(* outlives the frame, but nobody who has joined leaves but with the pipe. *)
(***************************************************************************)
FrameInv ==
    \A e \in Ends :
        /\ ~joined[e] => wire[e] = <<>> /\ writer[e] = "free"
        /\ writer[e] = "rx" => rx[e] = "reply"
        /\ rx[e] \in {"reply", "mark"} => joined[Peer(e)]

EngineInv == EngineTypeOK /\ FrameInv /\ ClaimsHaveReason

LEMMA EngineStep == EngineInv /\ [EngineNext]_engineVars => EngineInv'
<1> SUFFICES ASSUME EngineInv, [EngineNext]_engineVars PROVE FrameInv' /\ ClaimsHaveReason'
  BY EngineTypeStep DEF EngineInv
<1> USE DEF EngineInv, FrameInv, ClaimsHaveReason
<1>1. ASSUME NEW e \in Ends, EthTake(e) \/ RxTake(e) \/ KaTake(e)
      PROVE  FrameInv' /\ ClaimsHaveReason'
  BY <1>1, PeerFacts DEF EngineTypeOK, EthTake, RxTake, KaTake, Lock
\* Who writes has joined, and writes only to its own end of the pipe.
<1>2. ASSUME NEW e \in Ends, EthWrite(e) \/ RxReply(e) \/ KaProbe(e) \/ KaProbeFails(e)
      PROVE  FrameInv' /\ ClaimsHaveReason'
  <2> USE <1>2 DEF EthWrite, RxReply, KaProbe, KaProbeFails, Unlock
  <2>1. joined[e] /\ joined' = joined /\ open' = open
    OBVIOUS
  <2>2. \A d \in Ends \ {e} : wire'[d] = wire[d] /\ writer'[d] = writer[d] /\ rx'[d] = rx[d]
    BY DEF EngineTypeOK, Put, Broken
  <2>3. writer'[e] = "free" /\ (rx'[e] = rx[e] \/ (rx[e] = "reply" /\ rx'[e] = "mark"))
    BY DEF EngineTypeOK
  <2>4. FrameInv'
    BY <2>1, <2>2, <2>3
  <2>5. ClaimsHaveReason'
    BY <2>1 DEF EngineTypeOK, Broken
  <2> QED
    BY <2>4, <2>5
<1>3. ASSUME NEW e \in Ends, RxRead(e) PROVE FrameInv' /\ ClaimsHaveReason'
  <2>1. joined[Peer(e)] /\ rx[e] = "read" /\ UNCHANGED <<open, joined, writer, conn, ka>>
    BY <1>3, PeerFacts DEF RxRead
  <2>2. \A d \in Ends : d # Peer(e) => wire'[d] = wire[d]
    BY <1>3 DEF RxRead, EngineTypeOK
  <2>3. \A d \in Ends : d # e => rx'[d] = rx[d]
    BY <1>3 DEF RxRead, EngineTypeOK
  <2> QED
    BY <2>1, <2>2, <2>3
<1>4. ASSUME NEW e \in Ends, RxDrop(e) PROVE FrameInv' /\ ClaimsHaveReason'
  <2>1. joined[Peer(e)] /\ UNCHANGED <<open, joined, writer, conn, rx, ka>>
    BY <1>4, PeerFacts DEF RxDrop
  <2>2. \A d \in Ends : d # Peer(e) => wire'[d] = wire[d]
    BY <1>4 DEF RxDrop, EngineTypeOK
  <2> QED
    BY <2>1, <2>2
<1>5. ASSUME NEW e \in Ends, RxMark(e) \/ RxEnd(e) PROVE FrameInv' /\ ClaimsHaveReason'
  BY <1>5 DEF RxMark, RxEnd, EngineTypeOK
<1>6. ASSUME NEW e \in Ends, KaExpire(e) PROVE FrameInv' /\ ClaimsHaveReason'
  BY <1>6 DEF KaExpire, EngineTypeOK
<1>7. ASSUME NEW e \in Ends, PeerJoins(e) \/ Elapse(e) PROVE FrameInv' /\ ClaimsHaveReason'
  <2>1. UNCHANGED <<open, wire, writer, conn, rx, ka>>
    BY <1>7 DEF PeerJoins, Elapse
  <2>2. \A d \in Ends : joined[d] => joined'[d]
    <3>1. CASE Elapse(e)
      BY <3>1 DEF Elapse
    <3>2. CASE PeerJoins(e)
      <4>1. joined'[e] /\ \A d \in Ends : d # e => joined'[d] = joined[d]
        BY <3>2 DEF PeerJoins, EngineTypeOK
      <4> QED
        BY <4>1
    <3> QED
      BY <1>7, <3>1, <3>2
  <2> QED
    BY <2>1, <2>2, PeerFacts
<1>8. ASSUME Close PROVE FrameInv' /\ ClaimsHaveReason'
  BY <1>8 DEF Close
<1>9. ASSUME UNCHANGED engineVars PROVE FrameInv' /\ ClaimsHaveReason'
  BY <1>9 DEF engineVars
<1> QED
  BY <1>1, <1>2, <1>3, <1>4, <1>5, <1>6, <1>7, <1>8, <1>9 DEF EngineNext, Rx, Ka

(***************************************************************************)
(* No end calls a peer connected, or lost, that has not joined, and none   *)
(* calls the connection failed while it is up, for buffers of every size   *)
(* (relay_engine.rs:241-253 and 336-356).                                  *)
(***************************************************************************)
THEOREM ClaimsAreTrue == EngineSpec => []ClaimsHaveReason
<1>1. EngineInit => EngineInv
  BY EngineInitType DEF EngineInit, EngineInv, FrameInv, ClaimsHaveReason
<1>2. EngineInv /\ [EngineNext]_engineVars => EngineInv'
  BY EngineStep
<1>3. EngineInv => ClaimsHaveReason
  BY DEF EngineInv
<1> QED
  BY <1>1, <1>2, <1>3, PTL DEF EngineSpec
-----------------------------------------------------------------------------
(***************************************************************************)
(* A gridlock stays: every task of both ends that could write waits for    *)
(* room, every one that could make room waits to write, and no other step  *)
(* touches what they wait for.                                             *)
(***************************************************************************)
LEMMA GridlockStep == Gridlock /\ open' /\ [EngineNext]_engineVars => Gridlock'
<1> SUFFICES ASSUME Gridlock, open', [EngineNext]_engineVars PROVE Gridlock'
  OBVIOUS
<1> USE DEF Gridlock
<1>1. \A e \in Ends : rx[e] = "reply" /\ writer[e] # "free" /\ ~(Len(wire[e]) < Capacity) /\ joined[e]
  BY CapacityAssumption
<1>2. ASSUME NEW e \in Ends, EthTake(e) \/ RxTake(e) \/ KaTake(e) PROVE FALSE
  BY <1>1, <1>2 DEF EthTake, RxTake, KaTake, Lock
<1>3. ASSUME NEW e \in Ends, EthWrite(e) \/ RxReply(e) \/ KaProbe(e) \/ KaProbeFails(e) PROVE FALSE
  BY <1>1, <1>3 DEF EthWrite, RxReply, KaProbe, KaProbeFails, Put, Broken
<1>4. ASSUME NEW e \in Ends, RxRead(e) \/ RxDrop(e) \/ RxMark(e) \/ RxEnd(e) PROVE FALSE
  BY <1>1, <1>4 DEF RxRead, RxDrop, RxMark, RxEnd
<1>5. ASSUME NEW e \in Ends, PeerJoins(e) PROVE FALSE
  BY <1>1, <1>5 DEF PeerJoins
<1>6. ASSUME NEW e \in Ends, KaExpire(e) \/ Elapse(e) PROVE Gridlock'
  BY <1>6 DEF KaExpire, Elapse
<1>7. ASSUME Close PROVE FALSE
  BY <1>7 DEF Close
<1>8. ASSUME UNCHANGED engineVars PROVE Gridlock'
  BY <1>8 DEF engineVars
<1> QED
  BY <1>2, <1>3, <1>4, <1>5, <1>6, <1>7, <1>8 DEF EngineNext, Rx, Ka

(***************************************************************************)
(* Once agent and gateway are gridlocked (relay_engine.rs:131-136, 241-242 *)
(* and 330-331) only the end of the connection ends it, for buffers of     *)
(* every size.                                                             *)
(***************************************************************************)
THEOREM GridlockStays == EngineSpec => GridlockIsFinal
<1>1. [EngineNext]_engineVars => [Gridlock /\ open' => Gridlock']_engineVars
  BY GridlockStep
<1> QED
  BY <1>1, PTL DEF EngineSpec, GridlockIsFinal
=============================================================================
