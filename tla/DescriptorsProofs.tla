-------------------------- MODULE DescriptorsProofs --------------------------
(***************************************************************************)
(* Proofs about descriptor numbers: each number in a record of the loop    *)
(* names what the record thinks, none is forgotten, select is asked about  *)
(* every connection, and a bit that is tested is about the connection it   *)
(* is tested for.                                                          *)
(***************************************************************************)
EXTENDS Descriptors, WellFoundedInduction, TLAPS

-----------------------------------------------------------------------------
\* The invariant.

States == {"free", "CONN_WAITING", "CONN_SENDING", "CONN_COMPLETE"}
Places == {"build", "select", "accept", "each", "settle"}

Types ==
  /\ open = [n \in Numbers |-> open[n]]
  /\ young \subseteq Numbers
  /\ state \in [Conns -> States]
  /\ sock_fd \in [Conns -> Numbers \cup {-1}]
  /\ file_fd \in [Conns -> Numbers \cup {-1}]
  /\ active_conns \in Seq(Conns) /\ new_conns \in Seq(Conns)
  /\ pc \in Places

Injective(s) == \A i, j \in DOMAIN s : s[i] = s[j] => i = j

\* The lists have one cell for each record that is in use.
Lists ==
  /\ Injective(active_conns) /\ Injective(new_conns)
  /\ Members(active_conns) \cap Members(new_conns) = {}
  /\ \A c \in Conns : c \in Listed <=> state[c] # "free"

\* The records and the table of open descriptors agree.
Owned ==
  /\ open[Listen] = <<"listen">>
  /\ \A c \in Conns : state[c] # "free" =>
       /\ sock_fd[c] \in Numbers /\ open[sock_fd[c]] = <<"sock", c>>
       /\ file_fd[c] # -1 => open[file_fd[c]] = <<"file", c>>
       /\ state[c] = "CONN_WAITING" => file_fd[c] = -1
  /\ \A n \in Numbers : open[n] # <<>> =>
       n <= Listen \/ \E c \in Conns : state[c] # "free" /\ n \in {sock_fd[c], file_fd[c]}

\* A record is complete only in hand, and what the round visits is older than
\* the numbers given out in it.
Round ==
  /\ pc = "settle" => active_conns # <<>>
  /\ \A c \in Conns : state[c] = "CONN_COMPLETE" => pc = "settle" /\ c = Cur
  /\ pc \in {"accept", "each", "settle"} =>
       \A c \in Members(active_conns) : sock_fd[c] \notin young

IInv == Types /\ Lists /\ Owned /\ Round /\ SetsComplete

-----------------------------------------------------------------------------
\* Least and greatest numbers of a set.

LEMMA Least ==
  ASSUME NEW S, S \subseteq Nat, S # {}
  PROVE  \E x \in S : \A y \in S : x <= y
  <1> DEFINE R == {p \in Nat \X Nat : p[1] < p[2]}
  <1>1. IsWellFoundedOn(R, Nat)  BY NatLessThanWellFounded DEF OpToRel
  <1> HIDE DEF R
  <1>2. PICK x \in S : \A y \in S : ~ (<<y, x>> \in R)  BY <1>1, WFMin
  <1>3. \A y \in S : ~ (y < x)  BY <1>2 DEF R
  <1> QED  BY <1>3

LEMMA MinFacts ==
  ASSUME NEW S, S \subseteq Nat, S # {}
  PROVE  Min(S) \in S
  BY Least DEF Min

LEMMA MaxFacts ==
  ASSUME NEW S, NEW n \in Nat, S \subseteq 0..n, S # {}
  PROVE  Max(S) \in S /\ \A y \in S : y <= Max(S)
  <1> DEFINE T == {n - y : y \in S}
  <1>1. PICK x \in T : \A y \in T : x <= y
    <2>1. T \subseteq Nat /\ T # {}  OBVIOUS
    <2> HIDE DEF T
    <2> QED  BY <2>1, Least
  <1>2. PICK m \in S : x = n - m  BY <1>1
  <1>3. \A y \in S : n - y \in T /\ y \in Int  OBVIOUS
  <1>4. \A y \in S : m >= y  BY <1>1, <1>2, <1>3
  <1>5. \E z \in S : \A y \in S : z >= y  BY <1>4
  <1>6. Max(S) \in S /\ \A y \in S : Max(S) >= y  BY <1>5 DEF Max
  <1> QED  BY <1>6, <1>3

-----------------------------------------------------------------------------
\* Names of open descriptors.

LEMMA Names ==
  \A c, d :
    /\ <<"sock", c>> # <<>> /\ <<"file", c>> # <<>> /\ <<"listen">> # <<>>
    /\ <<"sock", c>> # <<"listen">> /\ <<"file", c>> # <<"listen">>
    /\ <<"sock", c>> # <<"file", d>>
    /\ <<"sock", c>> = <<"sock", d>> => c = d
    /\ <<"file", c>> = <<"file", d>> => c = d
  OBVIOUS

LEMMA NumberFacts ==
  /\ Numbers \subseteq Nat /\ Listen \in Numbers /\ -1 \notin Numbers
  /\ NumFds \in Nat /\ NumFds >= 4
  BY DescriptorsAssumption DEF Numbers, Listen

LEMMA LowestFree ==
  ASSUME FreeNumbers # {}
  PROVE  Lowest \in Numbers /\ open[Lowest] = <<>>
  <1>1. FreeNumbers \subseteq Nat  BY NumberFacts DEF FreeNumbers
  <1> QED  BY <1>1, MinFacts DEF Lowest, FreeNumbers

-----------------------------------------------------------------------------
\* The lists.

LEMMA AppendFacts ==
  ASSUME NEW S, NEW s \in Seq(S), NEW e \in S
  PROVE  /\ Append(s, e) \in Seq(S)
         /\ Members(Append(s, e)) = Members(s) \cup {e}
         /\ Injective(s) /\ e \notin Members(s) => Injective(Append(s, e))
  <1>1. /\ DOMAIN Append(s, e) = 1..(Len(s) + 1)
        /\ DOMAIN s = 1..Len(s) /\ Len(s) \in Nat
        /\ \A i \in 1..Len(s) : Append(s, e)[i] = s[i]
        /\ Append(s, e)[Len(s) + 1] = e
    OBVIOUS
  <1>2. \A i \in 1..(Len(s) + 1) : i \in 1..Len(s) \/ i = Len(s) + 1  BY <1>1
  <1>3. Members(Append(s, e)) = Members(s) \cup {e}  BY <1>1, <1>2 DEF Members
  <1>4. ASSUME Injective(s), e \notin Members(s)  PROVE Injective(Append(s, e))
    BY <1>1, <1>2, <1>4 DEF Injective, Members
  <1> QED  BY <1>3, <1>4

LEMMA TailFacts ==
  ASSUME NEW S, NEW s \in Seq(S), s # <<>>
  PROVE  /\ Head(s) \in S /\ Tail(s) \in Seq(S)
         /\ Members(s) = {Head(s)} \cup Members(Tail(s))
         /\ Injective(s) => Injective(Tail(s)) /\ Head(s) \notin Members(Tail(s))
  <1>1. /\ Len(s) \in Nat \ {0} /\ DOMAIN s = 1..Len(s)
        /\ Head(s) = s[1] /\ s[1] \in S
        /\ DOMAIN Tail(s) = 1..(Len(s) - 1)
        /\ \A i \in 1..(Len(s) - 1) : Tail(s)[i] = s[i + 1]
    OBVIOUS
  <1>2. \A i \in 1..(Len(s) - 1) : i + 1 \in 1..Len(s) /\ i + 1 # 1  BY <1>1
  <1>3. \A i \in 1..Len(s) : i = 1 \/ (i - 1 \in 1..(Len(s) - 1) /\ (i - 1) + 1 = i)
    BY <1>1
  <1>4. Members(s) = {Head(s)} \cup Members(Tail(s))
    <2>1. \A x \in Members(Tail(s)) : x \in Members(s)  BY <1>1, <1>2 DEF Members
    <2>2. ASSUME NEW i \in DOMAIN s PROVE s[i] \in {Head(s)} \cup Members(Tail(s))
      <3>1. CASE i = 1  BY <1>1, <3>1
      <3>2. CASE i - 1 \in 1..(Len(s) - 1) /\ (i - 1) + 1 = i
        <4>1. Tail(s)[i - 1] = s[i]  BY <1>1, <3>2
        <4> QED  BY <1>1, <3>2, <4>1 DEF Members
      <3> QED  BY <1>1, <1>3, <3>1, <3>2
    <2>3. Head(s) \in Members(s)  BY <1>1 DEF Members
    <2> QED  BY <2>1, <2>2, <2>3 DEF Members
  <1>5. ASSUME Injective(s) PROVE Injective(Tail(s)) /\ Head(s) \notin Members(Tail(s))
    <2>1. Head(s) \notin Members(Tail(s))
      BY <1>1, <1>2, <1>5 DEF Injective, Members
    <2>2. ASSUME NEW i \in DOMAIN Tail(s), NEW j \in DOMAIN Tail(s), Tail(s)[i] = Tail(s)[j]
          PROVE  i = j
      <3>1. i + 1 = j + 1  BY <1>1, <1>2, <1>5, <2>2 DEF Injective
      <3> QED  BY <1>1, <3>1
    <2> QED  BY <2>1, <2>2 DEF Injective
  <1> QED  BY <1>1, <1>4, <1>5

LEMMA MembersType == Types => Members(active_conns) \cup Members(new_conns) \subseteq Conns
  BY DEF Types, Members

LEMMA CurFacts ==
  ASSUME Types, Lists, active_conns # <<>>
  PROVE  /\ Cur \in Conns /\ Cur \in Members(active_conns) /\ state[Cur] # "free"
         /\ Tail(active_conns) \in Seq(Conns) /\ Injective(Tail(active_conns))
         /\ Members(active_conns) = {Cur} \cup Members(Tail(active_conns))
         /\ Cur \notin Members(Tail(active_conns)) /\ Cur \notin Members(new_conns)
  BY TailFacts DEF Types, Lists, Cur, Listed

LEMMA KeepFacts ==
  ASSUME Types, Lists, active_conns # <<>>, Keep
  PROVE  /\ active_conns' \in Seq(Conns) /\ new_conns' \in Seq(Conns)
         /\ Injective(active_conns') /\ Injective(new_conns')
         /\ Members(active_conns') \cap Members(new_conns') = {}
         /\ Members(active_conns') \subseteq Members(active_conns)
         /\ Listed' = Listed
  <1>1. /\ Cur \in Conns /\ new_conns \in Seq(Conns) /\ Injective(new_conns)
        /\ Members(active_conns) \cap Members(new_conns) = {}
    BY CurFacts DEF Types, Lists
  <1>2. /\ new_conns' = Append(new_conns, Cur) /\ active_conns' = Tail(active_conns)
    BY DEF Keep
  <1>3. /\ new_conns' \in Seq(Conns) /\ Injective(new_conns')
        /\ Members(new_conns') = Members(new_conns) \cup {Cur}
    BY <1>1, <1>2, CurFacts, AppendFacts
  <1> QED  BY <1>1, <1>2, <1>3, CurFacts DEF Listed

-----------------------------------------------------------------------------
\* The steps.

\* What holds of the table and the records goes on as long as they do.
LEMMA OwnedSame == Owned /\ UNCHANGED <<open, connVars>> => Owned'
  BY DEF Owned, connVars

LEMMA ListsSame == Lists /\ UNCHANGED <<state, listVars>> => Lists'
  BY DEF Lists, Listed, listVars

LEMMA NotSelect == pc' # "select" => SetsComplete'
  BY DEF SetsComplete

LEMMA BuildOK == IInv /\ BuildSets => IInv'
  <1> SUFFICES ASSUME IInv, BuildSets PROVE IInv'  OBVIOUS
  <1>1. /\ pc = "build" /\ pc' = "select"
        /\ read_fset' = {Listen} \cup SocketsOf("CONN_WAITING")
        /\ write_fset' = SocketsOf("CONN_SENDING") /\ max_fd' = MaxFd
        /\ UNCHANGED <<open, young, connVars, listVars>>
    BY DEF BuildSets
  <1>2. Types' /\ Lists' /\ Owned' /\ Round'
    BY <1>1, OwnedSame, ListsSame
    DEF IInv, Types, Round, Places, connVars, listVars, Cur
  <1>3. \A c \in Members(active_conns) :
          /\ c \in Conns /\ state[c] \in {"CONN_WAITING", "CONN_SENDING"}
          /\ sock_fd[c] \in Numbers /\ open[sock_fd[c]] = <<"sock", c>>
    <2> SUFFICES ASSUME NEW c \in Members(active_conns)
                 PROVE  /\ c \in Conns /\ state[c] \in {"CONN_WAITING", "CONN_SENDING"}
                        /\ sock_fd[c] \in Numbers /\ open[sock_fd[c]] = <<"sock", c>>
      OBVIOUS
    <2>1. c \in Conns  BY MembersType DEF IInv
    <2>2. state[c] # "free"  BY <2>1 DEF IInv, Lists, Listed
    <2>3. state[c] # "CONN_COMPLETE"  BY <1>1, <2>1 DEF IInv, Round
    <2> QED  BY <2>1, <2>2, <2>3 DEF IInv, Types, States, Owned
  <1>4. SocketsOf("CONN_WAITING") \cup SocketsOf("CONN_SENDING") \subseteq Numbers
    BY <1>3 DEF SocketsOf
  <1>5. /\ MaxFd \in Numbers /\ Listen <= MaxFd
        /\ \A n \in SocketsOf("CONN_WAITING") \cup SocketsOf("CONN_SENDING") : n <= MaxFd
    <2> DEFINE S == {Listen} \cup SocketsOf("CONN_WAITING") \cup SocketsOf("CONN_SENDING")
    <2>1. S \subseteq 0..(NumFds - 1) /\ S # {} /\ NumFds - 1 \in Nat
      BY <1>4, NumberFacts DEF Numbers
    <2> HIDE DEF S
    <2>2. Max(S) \in S /\ \A y \in S : y <= Max(S)  BY <2>1, MaxFacts
    <2>3. MaxFd = Max(S)  BY DEF MaxFd, S
    <2> QED  BY <2>1, <2>2, <2>3 DEF S, Numbers
  <1>6. ASSUME NEW c \in Members(active_conns)
        PROVE  /\ state[c] = "CONN_WAITING" => sock_fd[c] \in SocketsOf("CONN_WAITING")
               /\ state[c] = "CONN_SENDING" => sock_fd[c] \in SocketsOf("CONN_SENDING")
    BY DEF SocketsOf
  <1>7. SocketsOf("CONN_WAITING") \cup SocketsOf("CONN_SENDING")
          = {sock_fd[c] : c \in Members(active_conns)}
    BY <1>3, <1>6 DEF SocketsOf
  <1>8. Listen \notin SocketsOf("CONN_SENDING")
    BY <1>3, Names DEF SocketsOf, IInv, Owned
  <1>9. SocketsOf("CONN_WAITING") \cap SocketsOf("CONN_SENDING") = {}
    <2> SUFFICES ASSUME NEW c \in Members(active_conns), NEW d \in Members(active_conns),
                        state[c] = "CONN_WAITING", state[d] = "CONN_SENDING",
                        sock_fd[c] = sock_fd[d]
                 PROVE  FALSE
      BY DEF SocketsOf
    <2>1. <<"sock", c>> = <<"sock", d>>  BY <1>3
    <2> QED  BY <2>1, Names
  <1>10. SetsComplete'
    <2>1. \A c \in Members(active_conns)' : IsSet(c)' /\ sock_fd'[c] <= max_fd'
      <3> SUFFICES ASSUME NEW c \in Members(active_conns)
                   PROVE  IsSet(c)' /\ sock_fd'[c] <= max_fd'
        BY <1>1 DEF listVars
      <3>1. /\ c \in Conns /\ state'[c] = state[c] /\ sock_fd'[c] = sock_fd[c]
            /\ state[c] \in {"CONN_WAITING", "CONN_SENDING"}
        BY <1>1, <1>3 DEF connVars
      <3> QED  BY <1>1, <1>5, <1>6, <3>1 DEF IsSet
    <2>2. (read_fset \cup write_fset)'
            = {Listen} \cup {sock_fd[c] : c \in Members(active_conns)}'
      BY <1>1, <1>7 DEF connVars, listVars
    <2>3. (read_fset \cap write_fset)' = {}  BY <1>1, <1>8, <1>9
    <2> QED  BY <2>1, <2>2, <2>3 DEF SetsComplete
  <1> QED  BY <1>2, <1>10 DEF IInv

\* select, and the answers of select and accept that lead nowhere.
LEMMA SelectOK == IInv /\ (Select \/ SelectInterrupted \/ AcceptAgain) => IInv'
  <1> SUFFICES ASSUME IInv, Select \/ SelectInterrupted \/ AcceptAgain PROVE IInv'
    OBVIOUS
  <1>1. UNCHANGED <<open, connVars, listVars>>
    BY DEF Select, SelectInterrupted, AcceptAgain
  <1>2. Lists' /\ Owned'  BY <1>1, OwnedSame, ListsSame DEF IInv, connVars
  <1>3. /\ pc \in {"select", "accept"} /\ pc' \in {"build", "accept", "each"}
        /\ young' = {} \/ (young' = young /\ pc = "accept") \/ (young' = young /\ pc' = "build")
    BY DEF Select, SelectInterrupted, AcceptAgain
  <1>4. Types'
    BY <1>1, <1>3 DEF IInv, Types, Places, connVars, listVars
  <1>5. Round'
    BY <1>1, <1>3 DEF IInv, Round, connVars, listVars
  <1> QED  BY <1>2, <1>3, <1>4, <1>5, NotSelect DEF IInv

LEMMA AcceptOK == IInv /\ Accept => IInv'
  <1> SUFFICES ASSUME IInv, Accept PROVE IInv'  OBVIOUS
  <1>1. PICK c \in Conns : NewConn(c) /\ NoFile(c) /\ JoinNext(c)  BY DEF Accept
  <1> DEFINE m == Lowest
  <1>2. m \in Numbers /\ open[m] = <<>>  BY LowestFree DEF Accept
  <1>3. /\ state[c] = "free" /\ pc = "accept" /\ pc' = "each"
        /\ open' = [open EXCEPT ![m] = <<"sock", c>>] /\ young' = young \cup {m}
        /\ state' = [state EXCEPT ![c] = "CONN_WAITING"]
        /\ sock_fd' = [sock_fd EXCEPT ![c] = m] /\ file_fd' = [file_fd EXCEPT ![c] = -1]
        /\ new_conns' = Append(new_conns, c) /\ active_conns' = active_conns
    BY <1>1 DEF Accept, NewConn, NoFile, JoinNext
  <1> HIDE DEF m
  <1>4. /\ open'[m] = <<"sock", c>> /\ \A n \in Numbers \ {m} : open'[n] = open[n]
        /\ open' = [n \in Numbers |-> open'[n]]
    BY <1>2, <1>3 DEF IInv, Types
  <1>5. /\ state'[c] = "CONN_WAITING" /\ sock_fd'[c] = m /\ file_fd'[c] = -1
        /\ \A d \in Conns \ {c} :
             state'[d] = state[d] /\ sock_fd'[d] = sock_fd[d] /\ file_fd'[d] = file_fd[d]
    BY <1>3 DEF IInv, Types
  <1>6. c \notin Listed /\ new_conns \in Seq(Conns) /\ Injective(new_conns)
    BY <1>3 DEF IInv, Lists, Types
  <1>7. /\ new_conns' \in Seq(Conns) /\ Members(new_conns') = Members(new_conns) \cup {c}
        /\ Injective(new_conns')
    BY <1>3, <1>6, AppendFacts DEF Listed
  <1>8. Types'
    BY <1>2, <1>3, <1>4, <1>7 DEF IInv, Types, States, Places
  <1>9. Lists'
    <2>1. Listed' = Listed \cup {c}  BY <1>3, <1>7 DEF Listed
    <2> QED  BY <1>3, <1>5, <1>6, <1>7, <2>1 DEF IInv, Lists, Listed
  <1>10. Owned'
    <2>1. open'[Listen] = <<"listen">>
      BY <1>2, <1>4, Names, NumberFacts DEF IInv, Owned
    <2>2. ASSUME NEW d \in Conns, state'[d] # "free"
          PROVE  /\ sock_fd'[d] \in Numbers /\ open'[sock_fd'[d]] = <<"sock", d>>
                 /\ file_fd'[d] # -1 => open'[file_fd'[d]] = <<"file", d>>
                 /\ state'[d] = "CONN_WAITING" => file_fd'[d] = -1
      <3>1. CASE d = c  BY <1>2, <1>4, <1>5, <3>1
      <3>2. CASE d # c
        <4>1. state[d] # "free" /\ state'[d] = state[d] /\ sock_fd'[d] = sock_fd[d]
              /\ file_fd'[d] = file_fd[d]
          BY <1>5, <2>2, <3>2
        <4>2. /\ sock_fd[d] \in Numbers /\ open[sock_fd[d]] = <<"sock", d>>
              /\ file_fd[d] # -1 => open[file_fd[d]] = <<"file", d>>
              /\ state[d] = "CONN_WAITING" => file_fd[d] = -1
              /\ file_fd[d] \in Numbers \cup {-1}
          BY <4>1 DEF IInv, Owned, Types
        <4>3. sock_fd[d] # m /\ (file_fd[d] # -1 => file_fd[d] # m)
          BY <1>2, <4>2, Names
        <4> QED  BY <1>4, <4>1, <4>2, <4>3
      <3> QED  BY <3>1, <3>2
    <2>3. ASSUME NEW n \in Numbers, open'[n] # <<>>, ~(n <= Listen)
          PROVE  \E d \in Conns : state'[d] # "free" /\ n \in {sock_fd'[d], file_fd'[d]}
      <3>1. CASE n = m  BY <1>5, <3>1
      <3>2. CASE n # m
        <4>1. PICK d \in Conns : state[d] # "free" /\ n \in {sock_fd[d], file_fd[d]}
          BY <1>4, <2>3, <3>2 DEF IInv, Owned
        <4>2. d # c  BY <1>3, <4>1
        <4> QED  BY <1>5, <4>1, <4>2
      <3> QED  BY <3>1, <3>2
    <2> QED  BY <2>1, <2>2, <2>3 DEF Owned
  <1>11. Round'
    <2>1. \A d \in Members(active_conns) : sock_fd'[d] # m /\ sock_fd'[d] = sock_fd[d]
      <3> SUFFICES ASSUME NEW d \in Members(active_conns)
                   PROVE  sock_fd'[d] # m /\ sock_fd'[d] = sock_fd[d]
        OBVIOUS
      <3>1. d \in Conns /\ d # c /\ state[d] # "free"
        BY <1>6, MembersType DEF IInv, Lists, Listed
      <3>2. open[sock_fd[d]] = <<"sock", d>>  BY <3>1 DEF IInv, Owned
      <3> QED  BY <1>2, <1>5, <3>1, <3>2, Names
    <2> QED  BY <1>3, <1>5, <2>1 DEF IInv, Round
  <1> QED  BY <1>3, <1>8, <1>9, <1>10, <1>11, NotSelect DEF IInv

LEMMA KeepOK == IInv /\ (NotReady \/ StillSending) => IInv'
  <1> SUFFICES ASSUME IInv, NotReady \/ StillSending PROVE IInv'  OBVIOUS
  <1>1. /\ active_conns # <<>> /\ Keep /\ UNCHANGED <<open, young, connVars, setVars>>
        /\ pc \in {"each", "settle"} /\ pc' = "each"
        /\ pc = "settle" => state[Cur] = "CONN_SENDING"
    BY DEF NotReady, StillSending, IInv, Round
  <1>2. /\ active_conns' \in Seq(Conns) /\ new_conns' \in Seq(Conns)
        /\ Injective(active_conns') /\ Injective(new_conns')
        /\ Members(active_conns') \cap Members(new_conns') = {}
        /\ Members(active_conns') \subseteq Members(active_conns)
        /\ Listed' = Listed
    BY <1>1, KeepFacts DEF IInv
  <1>3. Types'  BY <1>1, <1>2 DEF IInv, Types, Places, connVars
  <1>4. Lists'  BY <1>1, <1>2 DEF IInv, Lists, connVars
  <1>5. Owned'  BY <1>1, OwnedSame DEF IInv
  <1>6. Round'
    <2>1. \A c \in Conns : state[c] # "CONN_COMPLETE"  BY <1>1 DEF IInv, Round
    <2> QED  BY <1>1, <1>2, <2>1 DEF IInv, Round, connVars
  <1> QED  BY <1>1, <1>3, <1>4, <1>5, <1>6, NotSelect DEF IInv

\* A handler that opens no file: only the state of the record changes.
LEMMA HandOK ==
  ASSUME IInv, pc = "each", pc' = "settle", active_conns # <<>>,
         NEW s \in {"CONN_SENDING", "CONN_COMPLETE"}, state' = [state EXCEPT ![Cur] = s],
         UNCHANGED <<open, young, sock_fd, file_fd, listVars>>
  PROVE  IInv'
  <1>1. Cur \in Conns /\ state[Cur] # "free" /\ Cur' = Cur
    BY CurFacts DEF IInv, listVars, Cur
  <1>2. state'[Cur] = s /\ \A d \in Conns \ {Cur} : state'[d] = state[d]
    BY <1>1 DEF IInv, Types
  <1>3. Types'  BY <1>1 DEF IInv, Types, States, Places, listVars
  <1>4. Lists'  BY <1>1, <1>2 DEF IInv, Lists, Listed, listVars
  <1>5. Owned'
    <2>1. \A d \in Conns : /\ (state'[d] # "free") <=> (state[d] # "free")
                           /\ state'[d] = "CONN_WAITING" => state[d] = "CONN_WAITING"
      BY <1>1, <1>2
    <2> QED  BY <2>1 DEF IInv, Owned
  <1>6. Round'  BY <1>1, <1>2 DEF IInv, Round, listVars
  <1> QED  BY <1>3, <1>4, <1>5, <1>6, NotSelect DEF IInv

LEMMA OpenOK ==
  ASSUME IInv, pc = "each", pc' = "settle", active_conns # <<>>,
         state[Cur] = "CONN_WAITING", FreeNumbers # {},
         open' = [open EXCEPT ![Lowest] = <<"file", Cur>>], young' = young \cup {Lowest},
         file_fd' = [file_fd EXCEPT ![Cur] = Lowest],
         NEW s \in {"CONN_SENDING", "CONN_COMPLETE"}, state' = [state EXCEPT ![Cur] = s],
         UNCHANGED <<sock_fd, listVars>>
  PROVE  IInv'
  <1> DEFINE m == Lowest
             c == Cur
  <1>1. m \in Numbers /\ open[m] = <<>>  BY LowestFree
  <1>2. c \in Conns /\ c' = c  BY CurFacts DEF IInv, listVars, Cur
  <1>3. /\ open'[m] = <<"file", c>> /\ \A n \in Numbers \ {m} : open'[n] = open[n]
        /\ open' = [n \in Numbers |-> open'[n]]
    BY <1>1 DEF IInv, Types
  <1>4. /\ state'[c] = s /\ file_fd'[c] = m
        /\ \A d \in Conns \ {c} : state'[d] = state[d] /\ file_fd'[d] = file_fd[d]
    BY <1>2 DEF IInv, Types
  <1>5. file_fd[c] = -1  BY <1>2 DEF IInv, Owned
  <1>6. young' = young \cup {m} /\ state[c] = "CONN_WAITING"  OBVIOUS
  <1>7. Types'
    BY <1>1, <1>2, <1>3 DEF IInv, Types, States, Places, listVars
  <1> HIDE DEF m, c
  <1>8. Lists'  BY <1>2, <1>4, <1>6 DEF IInv, Lists, Listed, listVars
  <1>9. ASSUME NEW d \in Conns, state[d] # "free"
        PROVE  /\ sock_fd[d] \in Numbers /\ open[sock_fd[d]] = <<"sock", d>>
               /\ sock_fd[d] # m /\ (file_fd[d] # -1 => file_fd[d] # m)
    <2>1. /\ sock_fd[d] \in Numbers /\ open[sock_fd[d]] = <<"sock", d>>
          /\ file_fd[d] # -1 => open[file_fd[d]] = <<"file", d>>
      BY <1>9 DEF IInv, Owned
    <2>2. sock_fd[d] # m  BY <1>1, <2>1, Names
    <2>3. file_fd[d] # -1 => file_fd[d] # m  BY <1>1, <2>1, Names
    <2> QED  BY <2>1, <2>2, <2>3
  <1>10. Owned'
    <2>1. open'[Listen] = <<"listen">>
      BY <1>1, <1>3, Names, NumberFacts DEF IInv, Owned
    <2>2. ASSUME NEW d \in Conns, state'[d] # "free"
          PROVE  /\ sock_fd'[d] \in Numbers /\ open'[sock_fd'[d]] = <<"sock", d>>
                 /\ file_fd'[d] # -1 => open'[file_fd'[d]] = <<"file", d>>
                 /\ state'[d] = "CONN_WAITING" => file_fd'[d] = -1
      <3>1. state[d] # "free"  BY <1>4, <1>6, <2>2
      <3>2. sock_fd'[d] \in Numbers /\ open'[sock_fd'[d]] = <<"sock", d>>
        BY <1>3, <1>9, <3>1
      <3>3. CASE d = c  BY <1>3, <1>4, <3>2, <3>3
      <3>4. CASE d # c
        <4>1. /\ file_fd[d] # -1 => open[file_fd[d]] = <<"file", d>>
              /\ state[d] = "CONN_WAITING" => file_fd[d] = -1
              /\ file_fd[d] \in Numbers \cup {-1}
          BY <3>1 DEF IInv, Owned, Types
        <4>2. state'[d] = state[d] /\ file_fd'[d] = file_fd[d]  BY <1>4, <3>4
        <4>3. file_fd[d] # -1 => open'[file_fd[d]] = <<"file", d>>
          BY <1>3, <1>9, <3>1, <4>1
        <4> QED  BY <3>2, <4>1, <4>2, <4>3
      <3> QED  BY <3>3, <3>4
    <2>3. ASSUME NEW n \in Numbers, open'[n] # <<>>, ~(n <= Listen)
          PROVE  \E d \in Conns : state'[d] # "free" /\ n \in {sock_fd'[d], file_fd'[d]}
      <3>1. CASE n = m  BY <1>2, <1>4, <3>1
      <3>2. CASE n # m
        <4>1. PICK d \in Conns : state[d] # "free" /\ n \in {sock_fd[d], file_fd[d]}
          BY <1>3, <2>3, <3>2 DEF IInv, Owned
        <4>2. state'[d] # "free"  BY <1>4, <4>1
        <4>3. d = c => n = sock_fd[d]  BY <1>5, <4>1, NumberFacts
        <4> QED  BY <1>4, <4>1, <4>2, <4>3
      <3> QED  BY <3>1, <3>2
    <2> QED  BY <2>1, <2>2, <2>3 DEF Owned
  <1>11. Round'
    <2>1. \A d \in Members(active_conns) : sock_fd[d] # m
      BY <1>9, MembersType DEF IInv, Lists, Listed
    <2>2. \A d \in Conns : state'[d] = "CONN_COMPLETE" => d = Cur'
      <3>1. c = Cur'  BY <1>2 DEF c, Cur
      <3> QED  BY <1>4, <3>1 DEF IInv, Round
    <2> QED  BY <1>6, <2>1, <2>2 DEF IInv, Round, listVars
  <1> QED  BY <1>7, <1>8, <1>10, <1>11, NotSelect DEF IInv

LEMMA HandlerOK == IInv /\ (Request \/ Write) => IInv'
  <1> SUFFICES ASSUME IInv, Request \/ Write PROVE IInv'  OBVIOUS
  <1>1. CASE Write
    <2>1. PICK s \in {"CONN_SENDING", "CONN_COMPLETE"} : state' = [state EXCEPT ![Cur] = s]
      BY <1>1 DEF Write
    <2> QED  BY <1>1, <2>1, HandOK DEF Write
  <1>2. CASE Request
    <2>1. CASE /\ state' = [state EXCEPT ![Cur] = "CONN_COMPLETE"]
               /\ UNCHANGED <<open, young, file_fd>>
      BY <1>2, <2>1, HandOK DEF Request
    <2>2. CASE /\ FreeNumbers # {}
               /\ open' = [open EXCEPT ![Lowest] = <<"file", Cur>>]
               /\ young' = young \cup {Lowest}
               /\ file_fd' = [file_fd EXCEPT ![Cur] = Lowest]
               /\ \E s \in {"CONN_SENDING", "CONN_COMPLETE"} :
                    state' = [state EXCEPT ![Cur] = s]
      BY <1>2, <2>2, OpenOK DEF Request
    <2> QED  BY <1>2, <2>1, <2>2 DEF Request
  <1> QED  BY <1>1, <1>2

LEMMA CompleteOK == IInv /\ Complete => IInv'
  <1> SUFFICES ASSUME IInv, Complete PROVE IInv'  OBVIOUS
  <1> DEFINE c == Cur
             gone == {file_fd[c], sock_fd[c]}
  <1>1. active_conns # <<>>  BY DEF IInv, Round, Complete
  <1>2. /\ c \in Conns /\ state[c] # "free"
        /\ Tail(active_conns) \in Seq(Conns) /\ Injective(Tail(active_conns))
        /\ Members(active_conns) = {c} \cup Members(Tail(active_conns))
        /\ c \notin Members(Tail(active_conns)) /\ c \notin Members(new_conns)
    BY <1>1, CurFacts DEF IInv
  <1>3. /\ pc = "settle" /\ pc' = "each"
        /\ open' = [n \in Numbers |-> IF n \in gone THEN <<>> ELSE open[n]]
        /\ state' = [state EXCEPT ![c] = "free"]
        /\ sock_fd' = [sock_fd EXCEPT ![c] = -1] /\ file_fd' = [file_fd EXCEPT ![c] = -1]
        /\ active_conns' = Tail(active_conns)
        /\ UNCHANGED <<young, new_conns>>
    BY DEF Complete
  <1>4. /\ open[sock_fd[c]] = <<"sock", c>>
        /\ file_fd[c] # -1 => open[file_fd[c]] = <<"file", c>>
    BY <1>2 DEF IInv, Owned
  <1>5. \A d \in Conns : state[d] = "CONN_COMPLETE" => d = c
    BY DEF IInv, Round
  <1> HIDE DEF c
  <1>6. /\ state'[c] = "free"
        /\ \A d \in Conns \ {c} :
             state'[d] = state[d] /\ sock_fd'[d] = sock_fd[d] /\ file_fd'[d] = file_fd[d]
    BY <1>2, <1>3 DEF IInv, Types
  <1>7. \A n \in Numbers : open'[n] = IF n \in gone THEN <<>> ELSE open[n]
    BY <1>3
  <1>8. Types'
    BY <1>2, <1>3 DEF IInv, Types, States, Places
  <1>9. Lists'
    <2>1. Listed' = Listed \ {c}  BY <1>2, <1>3 DEF Listed
    <2> QED  BY <1>2, <1>3, <1>6, <2>1 DEF IInv, Lists
  <1>10. Owned'
    <2>1. Listen \notin gone /\ Listen \in Numbers
      BY <1>4, Names, NumberFacts DEF IInv, Owned, Listen
    <2>2. open'[Listen] = <<"listen">>  BY <1>7, <2>1 DEF IInv, Owned
    <2>3. ASSUME NEW d \in Conns, state'[d] # "free"
          PROVE  /\ sock_fd'[d] \in Numbers /\ open'[sock_fd'[d]] = <<"sock", d>>
                 /\ file_fd'[d] # -1 => open'[file_fd'[d]] = <<"file", d>>
                 /\ state'[d] = "CONN_WAITING" => file_fd'[d] = -1
      <3>1. d # c /\ state[d] # "free" /\ state'[d] = state[d]
            /\ sock_fd'[d] = sock_fd[d] /\ file_fd'[d] = file_fd[d]
        BY <1>6, <2>3
      <3>2. /\ sock_fd[d] \in Numbers /\ open[sock_fd[d]] = <<"sock", d>>
            /\ file_fd[d] # -1 => open[file_fd[d]] = <<"file", d>>
            /\ state[d] = "CONN_WAITING" => file_fd[d] = -1
            /\ file_fd[d] \in Numbers \cup {-1}
        BY <3>1 DEF IInv, Owned, Types
      <3>3. sock_fd[d] \notin gone
        <4>1. sock_fd[d] # sock_fd[c]  BY <1>4, <3>1, <3>2, Names
        <4>2. sock_fd[d] # file_fd[c]  BY <1>4, <3>2, Names, NumberFacts
        <4> QED  BY <4>1, <4>2
      <3>4. file_fd[d] # -1 => file_fd[d] \notin gone
        <4>1. file_fd[d] # -1 => file_fd[d] # sock_fd[c]  BY <1>4, <3>2, Names
        <4>2. file_fd[d] # -1 => file_fd[d] # file_fd[c]  BY <1>4, <3>1, <3>2, Names
        <4> QED  BY <4>1, <4>2
      <3> QED  BY <1>7, <3>1, <3>2, <3>3, <3>4
    <2>4. ASSUME NEW n \in Numbers, open'[n] # <<>>, ~(n <= Listen)
          PROVE  \E d \in Conns : state'[d] # "free" /\ n \in {sock_fd'[d], file_fd'[d]}
      <3>1. n \notin gone /\ open[n] # <<>>  BY <1>7, <2>4
      <3>2. PICK d \in Conns : state[d] # "free" /\ n \in {sock_fd[d], file_fd[d]}
        BY <2>4, <3>1 DEF IInv, Owned
      <3>3. d # c  BY <3>1, <3>2
      <3> QED  BY <1>6, <3>2, <3>3
    <2> QED  BY <2>2, <2>3, <2>4 DEF Owned
  <1>11. Round'
    <2>1. \A d \in Members(active_conns') : d \in Members(active_conns) /\ sock_fd'[d] = sock_fd[d]
      <3> SUFFICES ASSUME NEW d \in Members(Tail(active_conns))
                   PROVE  d \in Members(active_conns) /\ sock_fd'[d] = sock_fd[d]
        BY <1>3
      <3>1. d \in Conns /\ d # c  BY <1>2, MembersType DEF IInv
      <3> QED  BY <1>2, <1>6, <3>1
    <2>2. \A d \in Conns : state'[d] # "CONN_COMPLETE"  BY <1>5, <1>6
    <2> QED  BY <1>3, <2>1, <2>2 DEF IInv, Round
  <1> QED  BY <1>3, <1>8, <1>9, <1>10, <1>11, NotSelect DEF IInv

LEMMA EndRoundOK == IInv /\ EndRound => IInv'
  <1> SUFFICES ASSUME IInv, EndRound PROVE IInv'  OBVIOUS
  <1>1. /\ pc = "each" /\ pc' = "build" /\ active_conns = <<>>
        /\ active_conns' = new_conns /\ new_conns' = <<>>
        /\ UNCHANGED <<open, young, connVars>>
    BY DEF EndRound
  <1>2. DOMAIN active_conns = {} /\ DOMAIN new_conns' = {} /\ new_conns' \in Seq(Conns)
    BY <1>1
  <1>3. Members(active_conns) = {} /\ Members(new_conns') = {} /\ Injective(new_conns')
    BY <1>2 DEF Members, Injective
  <1>4. Types'  BY <1>1, <1>2 DEF IInv, Types, Places, connVars
  <1>5. Lists'
    <2>1. Listed' = Listed  BY <1>1, <1>3 DEF Listed
    <2> QED  BY <1>1, <1>3, <2>1 DEF IInv, Lists, connVars
  <1>6. Owned'  BY <1>1, OwnedSame DEF IInv
  <1>7. Round'  BY <1>1 DEF IInv, Round, connVars
  <1> QED  BY <1>1, <1>4, <1>5, <1>6, <1>7, NotSelect DEF IInv

-----------------------------------------------------------------------------
\* The theorems.

LEMMA InitOK == Init => IInv
  <1> SUFFICES ASSUME Init PROVE IInv  OBVIOUS
  <1>1. /\ DOMAIN active_conns = {} /\ active_conns \in Seq(Conns)
        /\ DOMAIN new_conns = {} /\ new_conns \in Seq(Conns)
    BY DEF Init
  <1>2. Members(active_conns) = {} /\ Members(new_conns) = {}
    BY <1>1 DEF Members
  <1>3. Types  BY <1>1 DEF Init, Types, States, Places
  <1>4. Lists  BY <1>1, <1>2 DEF Init, Lists, Injective, Listed
  <1>5. Owned
    <2>1. open[Listen] = <<"listen">>  BY NumberFacts DEF Init, Listen
    <2>2. \A n \in Numbers : open[n] # <<>> => n <= Listen
      BY NumberFacts DEF Init
    <2> QED  BY <2>1, <2>2 DEF Init, Owned
  <1>6. Round /\ SetsComplete  BY DEF Init, Round, SetsComplete
  <1> QED  BY <1>3, <1>4, <1>5, <1>6 DEF IInv

LEMMA NextOK == IInv /\ [Next]_vars => IInv'
  <1> SUFFICES ASSUME IInv, [Next]_vars PROVE IInv'  OBVIOUS
  <1>1. CASE UNCHANGED vars
    <2>1. Types' /\ Lists' /\ Owned'
      BY <1>1, OwnedSame, ListsSame DEF IInv, Types, vars, connVars, listVars
    <2>2. Round'  BY <1>1 DEF IInv, Round, vars, connVars, listVars, Cur
    <2>3. SetsComplete'
      BY <1>1 DEF IInv, SetsComplete, IsSet, vars, connVars, listVars, setVars
    <2> QED  BY <2>1, <2>2, <2>3 DEF IInv
  <1> QED
    BY <1>1, BuildOK, SelectOK, AcceptOK, KeepOK, HandlerOK, CompleteOK, EndRoundOK DEF Next

LEMMA Inductive == Spec => []IInv
  BY InitOK, NextOK, PTL DEF Spec

\* However the kernel reuses numbers, those in the records of the loop name the
\* socket and the file of that record, and every open number is in one record:
\* close in conn_loop never closes another connection's descriptor, and no
\* descriptor is lost.  For any number of connections and descriptors.
THEOREM NumbersCorrect == Spec => []NumbersOwned
  <1>1. IInv => NumbersOwned
    <2> SUFFICES ASSUME IInv PROVE NumbersOwned  OBVIOUS
    <2>1. Listed \subseteq Conns  BY MembersType DEF IInv, Listed
    <2>2. \A c \in Conns : c \in Listed <=> state[c] # "free"  BY DEF IInv, Lists
    <2> QED  BY <2>1, <2>2 DEF IInv, Owned, NumbersOwned
  <1> QED  BY <1>1, Inductive, PTL

\* The sets built for select hold every connection, in the set the loop tests
\* later, no other number than these and the listening socket, and none above
\* max_fd (server.c:129-148).  For any number of connections and descriptors.
THEOREM SetsCorrect == Spec => []SetsComplete
  <1>1. IInv => SetsComplete  BY DEF IInv
  <1> QED  BY <1>1, Inductive, PTL

\* A number that was given out since select returned is not the socket of a
\* connection whose bit is tested: FD_ISSET is never asked about another socket
\* than the one select has answered for.
THEOREM BitsCorrect == Spec => []BitsFresh
  <1>1. IInv => BitsFresh
    <2> SUFFICES ASSUME IInv, pc = "each", active_conns # <<>> PROVE sock_fd[Cur] \notin young
      BY DEF BitsFresh
    <2>1. Cur \in Members(active_conns)  BY CurFacts DEF IInv
    <2> QED  BY <2>1 DEF IInv, Round
  <1> QED  BY <1>1, Inductive, PTL
=============================================================================
