---------------------------- MODULE PollLoopProofs ----------------------------
(***************************************************************************)
(* Proofs about PollLoop for every value of its constants.  The invariant  *)
(* has three layers: the table of slots and what the thread is doing, for  *)
(* every kind of connection; the table without refused connections, where  *)
(* each slot is one client's; and which slots can be stale.                *)
(***************************************************************************)
EXTENDS PollLoop, Induction

ConnRecord == [open : BOOLEAN, data : BOOLEAN, hup : BOOLEAN]
Slot == [fd : Sockets \cup {Stdin, Listening}, pollin : BOOLEAN]

(* The table of slots as one value, as shiftOut takes it.                  *)
tbl == [fds |-> fds, nfds |-> nfds]

(* Slots 0 and 1 are the listening socket and the terminal, the others     *)
(* in use are connections.                                                 *)
GoodTable(t) ==
    /\ t.nfds \in 2..FdsSize
    /\ t.fds \in [0..FdsSize - 1 -> Slot]
    /\ t.fds[0].fd = Listening
    /\ t.fds[1].fd = Stdin
    /\ \A j \in 2..t.nfds - 1 : t.fds[j].fd \in Sockets

(* Every member of C has a slot.                                           *)
Covers(t, C) == \A s \in C : \E j \in 2..t.nfds - 1 : t.fds[j].fd = s

(* A newcomer in its dialogue has the last slot and a place, and no free   *)
(* descriptor is lower; the loop is at the listening socket.               *)
InDialogue ==
    /\ i = 0
    /\ nfds > 2
    /\ newcomer \in clients \ anonymous
    /\ Cardinality(clients) <= MaxClients
    /\ \A g \in Sockets \ clients : newcomer <= g

IInv ==
    /\ TypeOK
    /\ GoodTable(tbl)
    /\ IsFiniteSet(clients)
    /\ Covers(tbl, clients)
    /\ noLeak
    /\ pc = "walk" /\ i = 0 /\ fds[0].pollin => backlog > 0
    /\ pc = "dialogue" => InDialogue

------------------------------------------------------------------------------
(* The least element of a set of descriptors or indices.                   *)

LEMMA FirstOK ==
    ASSUME NEW S \in SUBSET Nat, S # {}
    PROVE  first(S) \in S /\ \A k \in S : first(S) <= k
BY LeastExists DEF first

------------------------------------------------------------------------------
(* Taking a slot out keeps the table good and everybody else's slot.       *)

LEMMA ShiftOutOK ==
    ASSUME NEW t, GoodTable(t), t = [fds |-> t.fds, nfds |-> t.nfds],
           NEW s \in Sockets
    PROVE  /\ GoodTable(shiftOut(t, s))
           /\ shiftOut(t, s) = [fds |-> shiftOut(t, s).fds, nfds |-> shiftOut(t, s).nfds]
           /\ \A C : Covers(t, C) => Covers(shiftOut(t, s), C \ {s})
<1> DEFINE S == {j \in 0..t.nfds - 1 : t.fds[j].fd = s}
           u == shiftOut(t, s)
           a == first(S)
<1>1. s # Listening /\ s # Stdin
  BY SocketsAssumption DEF Listening, Stdin
<1>2. CASE S = {}
  <2>1. u = t
    BY <1>2 DEF shiftOut
  <2> QED BY <2>1 DEF Covers
<1>3. CASE S # {}
  <2>1. S \in SUBSET Nat
    BY DEF GoodTable
  <2>2. a \in S
    BY <1>3, <2>1, FirstOK
  <2>3. a \in 2..t.nfds - 1
    BY <1>1, <2>2 DEF GoodTable
  <2>4. u = [ fds  |-> [j \in DOMAIN t.fds |->
                           IF j \in a..t.nfds - 2 THEN t.fds[j + 1] ELSE t.fds[j]],
              nfds |-> t.nfds - 1 ]
    BY <1>3 DEF shiftOut
  <2>5. /\ t.nfds \in Nat /\ a \in Nat /\ 2 <= a /\ a < t.nfds /\ t.nfds <= FdsSize
        /\ t.fds[a].fd = s
    BY <2>2, <2>3, FdsSizeAssumption DEF GoodTable
  <2> HIDE DEF S, u, a
  <2>6. /\ u.nfds = t.nfds - 1
        /\ u.nfds \in 2..FdsSize
        /\ DOMAIN u.fds = 0..FdsSize - 1
        /\ \A j \in a..t.nfds - 2 : u.fds[j] = t.fds[j + 1]
        /\ \A j \in 0..FdsSize - 1 : j < a \/ t.nfds - 2 < j => u.fds[j] = t.fds[j]
    <3>1. DOMAIN t.fds = 0..FdsSize - 1
      BY DEF GoodTable
    <3>2. DOMAIN u.fds = 0..FdsSize - 1 /\ u.nfds = t.nfds - 1
      BY <2>4, <3>1
    <3>3. \A j \in 0..FdsSize - 1 :
             u.fds[j] = IF j \in a..t.nfds - 2 THEN t.fds[j + 1] ELSE t.fds[j]
      BY <2>4, <3>1
    <3>4. \A j \in a..t.nfds - 2 : j \in 0..FdsSize - 1
      BY <2>5, FdsSizeAssumption
    <3>5. \A j \in 0..FdsSize - 1 : j < a \/ t.nfds - 2 < j => j \notin a..t.nfds - 2
      BY <2>5, FdsSizeAssumption
    <3>6. u.nfds \in 2..FdsSize
      BY <2>5, <3>2, FdsSizeAssumption
    <3> QED BY <3>2, <3>3, <3>4, <3>5, <3>6
  <2>7. GoodTable(u)
    <3>1. ASSUME NEW j \in 0..FdsSize - 1
          PROVE  u.fds[j] \in Slot
      <4>1. CASE j \in a..t.nfds - 2
        <5>1. u.fds[j] = t.fds[j + 1] /\ j + 1 \in 0..FdsSize - 1
          BY <2>6, <2>5, <4>1, FdsSizeAssumption
        <5> QED BY <5>1 DEF GoodTable
      <4>2. CASE j < a \/ t.nfds - 2 < j
        BY <2>6, <4>2 DEF GoodTable
      <4> QED BY <2>5, <4>1, <4>2, FdsSizeAssumption
    <3>2. u.fds = [j \in 0..FdsSize - 1 |-> u.fds[j]]
      BY <2>4, <2>6 DEF GoodTable
    <3>3. u.fds \in [0..FdsSize - 1 -> Slot]
      BY <3>1, <3>2
    <3>4. u.fds[0] = t.fds[0] /\ u.fds[1] = t.fds[1]
      <4>1. 0 \in 0..FdsSize - 1 /\ 1 \in 0..FdsSize - 1 /\ 0 < a /\ 1 < a
        BY <2>5, FdsSizeAssumption
      <4> QED BY <2>6, <4>1
    <3>5. ASSUME NEW j \in 2..u.nfds - 1
          PROVE  u.fds[j].fd \in Sockets
      <4>1. \E k \in 2..t.nfds - 1 : u.fds[j] = t.fds[k]
        <5>1. CASE j < a
          <6>1. j \in 0..FdsSize - 1 /\ j \in 2..t.nfds - 1
            BY <2>5, <2>6, <3>5, FdsSizeAssumption
          <6> QED BY <2>6, <5>1, <6>1
        <5>2. CASE ~ (j < a)
          <6>1. j \in a..t.nfds - 2 /\ j + 1 \in 2..t.nfds - 1
            BY <2>5, <2>6, <3>5, <5>2
          <6> QED BY <2>6, <6>1
        <5> QED BY <5>1, <5>2
      <4> QED BY <4>1 DEF GoodTable
    <3> QED BY <2>6, <3>3, <3>4, <3>5 DEF GoodTable
  <2>8. ASSUME NEW C, Covers(t, C), NEW x \in C \ {s}
        PROVE  \E j \in 2..u.nfds - 1 : u.fds[j].fd = x
    <3>1. PICK j \in 2..t.nfds - 1 : t.fds[j].fd = x
      BY <2>8 DEF Covers
    <3>2. j # a /\ j \in Nat
      BY <2>5, <2>8, <3>1
    <3>3. CASE j < a
      <4>1. j \in 2..u.nfds - 1 /\ u.fds[j] = t.fds[j]
        BY <2>6, <2>5, <3>2, <3>3, FdsSizeAssumption
      <4> QED BY <3>1, <4>1
    <3>4. CASE j > a
      <4>1. j - 1 \in 2..u.nfds - 1 /\ j - 1 \in 0..FdsSize - 1
        BY <2>6, <2>5, <3>1, <3>4, FdsSizeAssumption
      <4>2. u.fds[j - 1] = t.fds[j]
        BY <2>6, <2>5, <3>1, <3>4, <4>1
      <4> QED BY <3>1, <4>1, <4>2
    <3> QED BY <2>5, <3>2, <3>3, <3>4
  <2>9. u = [fds |-> u.fds, nfds |-> u.nfds]
    BY <2>4
  <2> QED BY <2>7, <2>8, <2>9 DEF Covers, u
<1> QED BY <1>2, <1>3

LEMMA SwapOutOK ==
    ASSUME GoodTable(tbl), NEW s \in Sockets, swapOut(s)
    PROVE  GoodTable(tbl') /\ \A C : Covers(tbl, C) => Covers(tbl', C \ {s})
<1> DEFINE a == first(slotsOf(s))
<1>1. s # Listening /\ s # Stdin
  BY SocketsAssumption DEF Listening, Stdin
<1>2. CASE slotsOf(s) = {}
  BY <1>2 DEF swapOut, tbl, table, Covers
<1>3. CASE slotsOf(s) # {}
  <2>1. slotsOf(s) \in SUBSET Nat
    BY DEF GoodTable, tbl, slotsOf
  <2>2. a \in slotsOf(s)
    BY <1>3, <2>1, FirstOK
  <2>3. a \in 2..nfds - 1 /\ fds[a].fd = s
    BY <1>1, <2>2 DEF GoodTable, tbl, slotsOf
  <2>4. fds' = [fds EXCEPT ![a] = fds[nfds - 1]] /\ nfds' = nfds - 1
    BY <1>3 DEF swapOut
  <2>5. /\ DOMAIN fds = 0..FdsSize - 1
        /\ fds'[a] = fds[nfds - 1]
        /\ \A j \in 0..FdsSize - 1 : j # a => fds'[j] = fds[j]
    BY <2>3, <2>4, FdsSizeAssumption DEF GoodTable, tbl
  <2>6. GoodTable(tbl')
    BY <2>3, <2>4, <2>5, FdsSizeAssumption DEF GoodTable, tbl
  <2>7. ASSUME NEW C, Covers(tbl, C), NEW x \in C \ {s}
        PROVE  \E j \in 2..nfds' - 1 : fds'[j].fd = x
    <3>1. PICK j \in 2..nfds - 1 : fds[j].fd = x
      BY <2>7 DEF Covers, tbl
    <3>2. j # a
      BY <2>3, <2>7, <3>1
    <3>3. CASE j = nfds - 1
      BY <2>3, <2>4, <2>5, <3>1, <3>2, <3>3 DEF GoodTable, tbl
    <3>4. CASE j # nfds - 1
      BY <2>3, <2>4, <2>5, <3>1, <3>2, <3>4, FdsSizeAssumption DEF GoodTable, tbl
    <3> QED BY <3>3, <3>4
  <2> QED BY <2>6, <2>7 DEF Covers, tbl
<1> QED BY <1>2, <1>3

------------------------------------------------------------------------------
(* The steps that leave the table, the clients and the thread's place      *)
(* alone: those of the peers, the terminal and the signals.                *)

LEMMA TableUnchanged ==
    ASSUME IInv, UNCHANGED <<fds, nfds, clients>>
    PROVE  GoodTable(tbl') /\ IsFiniteSet(clients') /\ Covers(tbl', clients')
BY DEF IInv, tbl

LEMMA DialogueUnchanged ==
    ASSUME InDialogue, UNCHANGED <<fds, nfds, i, clients, anonymous>>
    PROVE  InDialogue'
BY DEF InDialogue, newcomer

(* Peers change what can be read from a connection, never whether it is    *)
(* open, and a waiting connection stays there.                             *)
LEMMA PeersOK ==
    ASSUME IInv, ~ ended, UNCHANGED <<tables, i, pc, stage, shutdown>>,
           conn' \in [Sockets -> ConnRecord],
           \A fd \in Sockets : conn'[fd].open = conn[fd].open,
           backlog' \in 0..MaxBacklog, backlog' >= backlog,
           line' \in Lines \cup {NoLine}
    PROVE  IInv'
<1> USE DEF IInv, tables
<1>1. TypeOK'
  BY DEF TypeOK, ConnRecord
<1>2. GoodTable(tbl') /\ IsFiniteSet(clients') /\ Covers(tbl', clients')
  BY TableUnchanged
<1>3. noLeak'
  BY DEF noLeak, ended
<1>4. (pc = "walk" /\ i = 0 /\ fds[0].pollin => backlog > 0)'
  BY BoundsAssumption DEF TypeOK
<1>5. (pc = "dialogue" => InDialogue)'
  BY DialogueUnchanged
<1> QED BY <1>1, <1>2, <1>3, <1>4, <1>5

LEMMA EnvironmentOK ==
    ASSUME IInv, ~ ended, Environment
    PROVE  IInv'
<1> USE DEF IInv
<1>1. /\ conn \in [Sockets -> ConnRecord]
      /\ backlog \in 0..MaxBacklog
      /\ line \in Lines \cup {NoLine}
  BY DEF TypeOK, ConnRecord
<1>2. CASE connect
  BY <1>1, <1>2, PeersOK, BoundsAssumption DEF connect
<1>3. ASSUME NEW fd \in Sockets, send(fd)
      PROVE  IInv'
  <2>1. conn' = [conn EXCEPT ![fd] = [conn[fd] EXCEPT !.data = TRUE]]
    BY <1>3 DEF send
  <2>2. conn[fd] \in ConnRecord
    BY <1>1
  <2>3. /\ [conn[fd] EXCEPT !.data = TRUE] \in ConnRecord
        /\ [conn[fd] EXCEPT !.data = TRUE].open = conn[fd].open
    BY <2>2 DEF ConnRecord
  <2>4. /\ conn' \in [Sockets -> ConnRecord]
        /\ \A g \in Sockets : conn'[g].open = conn[g].open
    BY <1>1, <2>1, <2>3
  <2> QED BY <1>1, <1>3, <2>4, PeersOK, BoundsAssumption DEF send
<1>4. ASSUME NEW fd \in Sockets, hangUp(fd)
      PROVE  IInv'
  <2>1. conn' = [conn EXCEPT ![fd] = [conn[fd] EXCEPT !.hup = TRUE]]
    BY <1>4 DEF hangUp
  <2>2. conn[fd] \in ConnRecord
    BY <1>1
  <2>3. /\ [conn[fd] EXCEPT !.hup = TRUE] \in ConnRecord
        /\ [conn[fd] EXCEPT !.hup = TRUE].open = conn[fd].open
    BY <2>2 DEF ConnRecord
  <2>4. /\ conn' \in [Sockets -> ConnRecord]
        /\ \A g \in Sockets : conn'[g].open = conn[g].open
    BY <1>1, <2>1, <2>3
  <2> QED BY <1>1, <1>4, <2>4, PeersOK, BoundsAssumption DEF hangUp
<1>5. ASSUME NEW l \in Lines, type(l)
      PROVE  IInv'
  BY <1>1, <1>5, PeersOK, BoundsAssumption DEF type
<1>6. CASE SignalHandler \/ TstpSignalHandler
  <2>1. UNCHANGED <<fds, nfds, i, clients, anonymous, stage, conn, backlog, line>>
    BY <1>6 DEF SignalHandler, TstpSignalHandler, tables
  <2>2. pc' = pc \/ pc' = "stopping"
    BY <1>6 DEF SignalHandler, TstpSignalHandler, interrupt
  <2>3. shutdown' \in BOOLEAN
    BY <1>6 DEF SignalHandler, TstpSignalHandler, TypeOK
  <2>4. TypeOK'
    BY <2>1, <2>2, <2>3 DEF TypeOK
  <2>5. noLeak'
    BY <2>1, <2>2 DEF noLeak, ended
  <2>6. (pc = "walk" /\ i = 0 /\ fds[0].pollin => backlog > 0)'
    BY <2>1, <2>2
  <2>7. (pc = "dialogue" => InDialogue)'
    BY <2>1, <2>2, DialogueUnchanged
  <2> QED BY <2>1, <2>4, <2>5, <2>6, <2>7, TableUnchanged
<1> QED BY <1>2, <1>3, <1>4, <1>5, <1>6 DEF Environment

------------------------------------------------------------------------------
(* The steps of the loop that take no client in or out.                    *)

(* fds[i].fd tells what i is.                                              *)
LEMMA AtOK ==
    ASSUME IInv, atSlot
    PROVE  /\ i \in 0..FdsSize - 1
           /\ i < nfds
           /\ fds[i] \in Slot
           /\ fds[i].fd = Listening => i = 0
           /\ fds[i].fd \in Sockets => i \in 2..nfds - 1
           /\ {fd \in Sockets : conn[fd].open} = clients
           /\ pc = "walk"
<1> USE DEF IInv
<1>1. i \in 0..FdsSize - 1 /\ i < nfds /\ i \in Nat /\ nfds \in Nat
  BY FdsSizeAssumption DEF atSlot, TypeOK
<1>2. i = 0 \/ i = 1 \/ i \in 2..nfds - 1
  BY <1>1
<1>3. fds[0].fd = Listening /\ fds[1].fd = Stdin
  BY DEF GoodTable, tbl
<1>4. \A j \in 2..nfds - 1 : fds[j].fd \in Sockets
  BY DEF GoodTable, tbl
<1>5. Listening \notin Sockets /\ Stdin \notin Sockets /\ Listening # Stdin
  BY SocketsAssumption DEF Listening, Stdin
<1>6. fds[i] \in Slot
  BY <1>1 DEF TypeOK, Slot
<1> QED BY <1>1, <1>2, <1>3, <1>4, <1>5, <1>6 DEF noLeak, ended, atSlot

LEMMA ReadyOK ==
    ASSUME conn \in [Sockets -> ConnRecord], backlog \in Nat
    PROVE  /\ ready(Listening) = (backlog > 0)
           /\ ready(Stdin) = (line # NoLine)
           /\ \A fd \in Sockets : ready(fd) = readable(fd)
           /\ \A fd \in Sockets \cup {Stdin, Listening} : ready(fd) \in BOOLEAN
<1>1. Listening \notin Sockets /\ Stdin \notin Sockets /\ Listening # Stdin
  BY SocketsAssumption DEF Listening, Stdin
<1>2. ASSUME NEW fd \in Sockets
      PROVE  ready(fd) = readable(fd) /\ ready(fd) \in BOOLEAN
  <2>1. conn[fd] \in ConnRecord
    OBVIOUS
  <2>2. readable(fd) \in BOOLEAN
    BY <2>1 DEF readable, ConnRecord
  <2>3. fd # Listening /\ fd # Stdin
    BY <1>1
  <2>4. ready(fd) = readable(fd)
    BY <2>3 DEF ready
  <2> QED BY <2>2, <2>4, Zenon
<1>3. ready(Listening) = (backlog > 0) /\ ready(Listening) \in BOOLEAN
  <2>1. ready(Listening) = (backlog > 0)
    BY <1>1 DEF ready
  <2>2. (backlog > 0) \in BOOLEAN
    OBVIOUS
  <2> QED BY <2>1, <2>2, Zenon
<1>4. ready(Stdin) = (line # NoLine) /\ ready(Stdin) \in BOOLEAN
  <2>1. ready(Stdin) = (line # NoLine)
    BY <1>1 DEF ready
  <2>2. (line # NoLine) \in BOOLEAN
    OBVIOUS
  <2> QED BY <2>1, <2>2, Zenon
<1>5. \A fd \in Sockets \cup {Stdin, Listening} : ready(fd) \in BOOLEAN
  <2> SUFFICES ASSUME NEW fd \in Sockets \cup {Stdin, Listening}
               PROVE  ready(fd) \in BOOLEAN
    OBVIOUS
  <2>1. CASE fd \in Sockets
    BY <1>2, <2>1
  <2>2. CASE fd \in {Stdin, Listening}
    BY <1>3, <1>4, <2>2
  <2> QED BY <2>1, <2>2
<1> QED BY <1>2, <1>3, <1>4, <1>5, Zenon

(* poll only sets revents.                                                 *)
LEMMA PollTable ==
    ASSUME IInv, poll
    PROVE  /\ fds' \in [0..FdsSize - 1 -> Slot]
           /\ \A j \in 0..FdsSize - 1 : fds'[j].fd = fds[j].fd
           /\ \A j \in 0..nfds - 1 : fds'[j].pollin = ready(fds[j].fd)
<1>1. nfds \in 2..FdsSize /\ fds \in [0..FdsSize - 1 -> Slot]
  BY DEF IInv, GoodTable, tbl
<1>2. conn \in [Sockets -> ConnRecord] /\ backlog \in Nat
  BY BoundsAssumption DEF IInv, TypeOK, ConnRecord
<1>3. \A fd \in Sockets \cup {Stdin, Listening} : ready(fd) \in BOOLEAN
  BY <1>2, ReadyOK
<1>4. ASSUME NEW j \in 0..FdsSize - 1
      PROVE  /\ fds'[j] \in Slot
             /\ fds'[j].fd = fds[j].fd
             /\ j < nfds => fds'[j].pollin = ready(fds[j].fd)
  <2>1. fds[j] \in Slot /\ ready(fds[j].fd) \in BOOLEAN
    BY <1>1, <1>3 DEF Slot
  <2>2. fds'[j] = IF j < nfds THEN [fds[j] EXCEPT !.pollin = ready(fds[j].fd)] ELSE fds[j]
    BY <1>1 DEF poll
  <2> QED BY <2>1, <2>2 DEF Slot
<1>5. fds' \in [0..FdsSize - 1 -> Slot]
  <2>1. fds' = [j \in 0..FdsSize - 1 |-> fds'[j]]
    BY <1>1 DEF poll
  <2> QED BY <1>4, <2>1
<1>6. \A j \in 0..nfds - 1 : j \in 0..FdsSize - 1 /\ j < nfds
  BY <1>1, FdsSizeAssumption
<1> QED BY <1>4, <1>5, <1>6

LEMMA PollOK ==
    ASSUME IInv, poll
    PROVE  IInv'
<1> USE DEF IInv
<1>1. nfds \in 2..FdsSize /\ fds \in [0..FdsSize - 1 -> Slot]
  BY DEF GoodTable, tbl
<1>2. fds' \in [0..FdsSize - 1 -> Slot] /\ \A j \in 0..FdsSize - 1 : fds'[j].fd = fds[j].fd
  BY PollTable
<1>3. fds'[0].pollin = (backlog > 0)
  <2>1. fds'[0].pollin = ready(Listening)
    BY <1>1, PollTable DEF GoodTable, tbl
  <2>2. conn \in [Sockets -> ConnRecord] /\ backlog \in Nat
    BY BoundsAssumption DEF TypeOK, ConnRecord
  <2> QED BY <2>1, <2>2, ReadyOK
<1>4. UNCHANGED <<nfds, clients, anonymous, i, stage, shutdown, conn, backlog, line>>
      /\ pc' = "walk" /\ pc = "poll"
  BY DEF poll
<1>5. TypeOK'
  BY <1>2, <1>4 DEF TypeOK, Slot
<1>6. GoodTable(tbl')
  BY <1>1, <1>2, <1>4, FdsSizeAssumption DEF GoodTable, tbl
<1>7. Covers(tbl', clients')
  BY <1>1, <1>2, <1>4, FdsSizeAssumption DEF Covers, tbl
<1>8. noLeak'
  BY <1>4 DEF noLeak, ended
<1> QED BY <1>3, <1>4, <1>5, <1>6, <1>7, <1>8

LEMMA QuietStepOK ==
    ASSUME IInv, skip \/ readStdin \/ endOfRound
    PROVE  IInv'
<1> USE DEF IInv
<1>1. UNCHANGED <<fds, nfds, clients, anonymous, stage, conn, backlog>>
  BY DEF skip, readStdin, endOfRound, tables
<1>2. /\ pc = "walk"
      /\ pc' = "walk" => i' # 0
      /\ pc' \in {"walk", "poll", "stopping"}
      /\ i' \in 0..FdsSize
      /\ shutdown' \in BOOLEAN
      /\ line' \in Lines \cup {NoLine}
  <2>1. nfds \in 2..FdsSize /\ i \in Nat /\ line \in Lines \cup {NoLine} /\ shutdown \in BOOLEAN
    BY DEF TypeOK
  <2>2. CASE skip
    BY <2>1, <2>2, FdsSizeAssumption DEF skip, atSlot
  <2>3. CASE readStdin
    BY <2>1, <2>3, FdsSizeAssumption DEF readStdin, atSlot
  <2>4. CASE endOfRound
    BY <2>1, <2>4, FdsSizeAssumption DEF endOfRound
  <2> QED BY <2>2, <2>3, <2>4
<1>3. TypeOK'
  BY <1>1, <1>2 DEF TypeOK
<1>4. noLeak'
  BY <1>1, <1>2 DEF noLeak, ended
<1> QED BY <1>1, <1>2, <1>3, <1>4, TableUnchanged

------------------------------------------------------------------------------
(* The steps with which the process is gone.                               *)

LEMMA EndOK ==
    ASSUME IInv, ended', UNCHANGED <<tables, i, stage>>,
           conn' \in [Sockets -> ConnRecord], backlog' \in 0..MaxBacklog,
           shutdown' = shutdown, line' = line
    PROVE  IInv'
<1> USE DEF IInv, tables
<1>1. pc' \in {"stopped", "aborted", "undefined"}
  BY DEF ended
<1>2. TypeOK'
  BY <1>1 DEF TypeOK, ConnRecord
<1>3. noLeak'
  BY DEF noLeak
<1> QED BY <1>1, <1>2, <1>3, TableUnchanged

LEMMA ClosedOK == Closed \in ConnRecord
BY DEF Closed, ConnRecord

LEMMA AbortOK ==
    ASSUME IInv, abort
    PROVE  /\ ended'
           /\ UNCHANGED <<tables, i, stage>>
           /\ conn' \in [Sockets -> ConnRecord]
BY ClosedOK DEF abort, ended

LEMMA StopServerOK ==
    ASSUME IInv, stopServer
    PROVE  IInv'
<1>1. conn \in [Sockets -> ConnRecord] /\ backlog \in 0..MaxBacklog
  BY DEF IInv, TypeOK, ConnRecord
<1>2. conn' \in [Sockets -> ConnRecord]
  BY <1>1, ClosedOK DEF stopServer
<1> QED BY <1>1, <1>2, EndOK DEF stopServer, ended

LEMMA BrokenPipeOK ==
    ASSUME IInv, brokenPipe
    PROVE  IInv'
<1>1. backlog \in 0..MaxBacklog
  BY DEF IInv, TypeOK
<1> QED BY <1>1, AbortOK, EndOK DEF brokenPipe

------------------------------------------------------------------------------
(* Accepting.                                                              *)

LEMMA NewSlotOK ==
    ASSUME IInv, nfds < FdsSize, NEW fd \in Sockets,
           fds' = [fds EXCEPT ![nfds].fd = fd], nfds' = nfds + 1
    PROVE  /\ GoodTable(tbl')
           /\ \A C : Covers(tbl, C) => Covers(tbl', C \cup {fd})
           /\ fds'[nfds].fd = fd /\ newcomer' = fd
           /\ \A j \in 0..nfds - 1 : fds'[j] = fds[j]
<1>1. /\ nfds \in 2..FdsSize - 1
      /\ fds \in [0..FdsSize - 1 -> Slot]
      /\ \A j \in 2..nfds - 1 : fds[j].fd \in Sockets
      /\ fds[0].fd = Listening /\ fds[1].fd = Stdin
  BY FdsSizeAssumption DEF IInv, GoodTable, tbl
<1>2. fds' = [fds EXCEPT ![nfds] = [fds[nfds] EXCEPT !.fd = fd]]
  OBVIOUS
<1>3. nfds \in 0..FdsSize - 1 /\ fds[nfds] \in Slot
  BY <1>1, FdsSizeAssumption
<1>4. [fds[nfds] EXCEPT !.fd = fd] \in Slot /\ [fds[nfds] EXCEPT !.fd = fd].fd = fd
  BY <1>3 DEF Slot
<1>5. /\ fds' \in [0..FdsSize - 1 -> Slot]
      /\ fds'[nfds].fd = fd
      /\ \A j \in 0..FdsSize - 1 : j # nfds => fds'[j] = fds[j]
  BY <1>1, <1>2, <1>3, <1>4
<1>6. \A j \in 0..nfds - 1 : j \in 0..FdsSize - 1 /\ j # nfds
  BY <1>1, FdsSizeAssumption
<1>7. 0 \in 0..nfds - 1 /\ 1 \in 0..nfds - 1 /\ 2..nfds - 1 \subseteq 0..nfds - 1
  BY <1>1
<1>8. nfds' \in 3..FdsSize /\ nfds' - 1 = nfds
      /\ 2..nfds' - 1 = (2..nfds - 1) \cup {nfds}
  BY <1>1, FdsSizeAssumption
<1>9. GoodTable(tbl')
  BY <1>1, <1>5, <1>6, <1>7, <1>8 DEF GoodTable, tbl
<1>10. \A C : Covers(tbl, C) => Covers(tbl', C \cup {fd})
  BY <1>5, <1>6, <1>7, <1>8 DEF Covers, tbl
<1>11. newcomer' = fd
  BY <1>5, <1>8 DEF newcomer
<1> QED BY <1>5, <1>6, <1>9, <1>10, <1>11

(* accept takes the lowest descriptor that is not open, which is the       *)
(* lowest that is no client's.                                             *)
Accepted(fd) ==
    /\ ~ isServerFull /\ nfds < FdsSize
    /\ ~ conn[fd].open
    /\ \A g \in Sockets : ~ conn[g].open => fd <= g
    /\ fds' = [fds EXCEPT ![nfds].fd = fd]
    /\ nfds' = nfds + 1
    /\ detectClient(fd)

(* Or the slot is written where there is none.                             *)
Overrun ==
    /\ ~ isServerFull /\ nfds >= FdsSize
    /\ pc' = "undefined"
    /\ UNCHANGED <<tables, i, stage, conn>>

LEMMA AcceptCases ==
    ASSUME IInv, acceptNewConnection
    PROVE  /\ i = 0 /\ pc = "walk" /\ backlog > 0
           /\ backlog' = backlog - 1
           /\ UNCHANGED <<shutdown, line>>
           /\ \/ UNCHANGED <<tables, pc, stage, conn>> /\ i' = 1
              \/ Overrun
              \/ abort
              \/ \E fd \in Sockets : Accepted(fd)
<1>1. i = 0 /\ pc = "walk"
  BY AtOK DEF acceptNewConnection
<1>2. backlog > 0
  BY <1>1 DEF acceptNewConnection, IInv
<1> QED BY <1>1, <1>2 DEF acceptNewConnection, detectionAborted, Overrun, Accepted

LEMMA AcceptedOK ==
    ASSUME IInv, pc = "walk", i = 0, NEW fd \in Sockets, Accepted(fd)
    PROVE  /\ fd \notin clients
           /\ \A g \in Sockets \ clients : fd <= g
           /\ Cardinality(clients) \in Nat /\ Cardinality(clients) < MaxClients
           /\ Cardinality(clients \cup {fd}) = Cardinality(clients) + 1
<1>1. {g \in Sockets : conn[g].open} = clients
  BY DEF IInv, noLeak, ended
<1>2. fd \notin clients
  BY <1>1 DEF Accepted
<1>3. Cardinality(clients) \in Nat
      /\ Cardinality(clients \cup {fd}) = Cardinality(clients) + 1
  BY <1>2, FS_CardinalityType, FS_AddElement DEF IInv
<1>4. Cardinality(clients) < MaxClients
  BY <1>3, BoundsAssumption DEF Accepted, isServerFull
<1> QED BY <1>1, <1>2, <1>3, <1>4 DEF Accepted

LEMMA AcceptOK ==
    ASSUME IInv, acceptNewConnection
    PROVE  IInv'
<1>1. /\ i = 0 /\ pc = "walk"
      /\ backlog \in 0..MaxBacklog /\ backlog' \in 0..MaxBacklog
      /\ UNCHANGED <<shutdown, line>>
  BY AcceptCases, BoundsAssumption DEF IInv, TypeOK
<1>2. CASE UNCHANGED <<tables, pc, stage, conn>> /\ i' = 1
  <2>1. TypeOK'
    BY <1>1, <1>2, FdsSizeAssumption DEF IInv, TypeOK, tables
  <2>2. noLeak'
    BY <1>2 DEF IInv, noLeak, ended, tables
  <2> QED BY <1>1, <1>2, <2>1, <2>2, TableUnchanged DEF IInv, tables
<1>3. ASSUME NEW fd \in Sockets, Accepted(fd)
      PROVE  IInv'
  <2>1. /\ fd \notin clients
        /\ \A g \in Sockets \ clients : fd <= g
        /\ Cardinality(clients \cup {fd}) <= MaxClients
    BY <1>1, <1>3, AcceptedOK, BoundsAssumption
  <2>2. /\ GoodTable(tbl')
        /\ Covers(tbl', clients \cup {fd})
        /\ newcomer' = fd
    BY <1>3, NewSlotOK DEF Accepted, IInv
  <2>3. Covers(tbl', clients)
    BY <2>2 DEF Covers
  <2>4. IsFiniteSet(clients \cup {fd})
    BY FS_AddElement DEF IInv
  <2>5. /\ fds' \in [0..FdsSize - 1 -> Slot] /\ nfds' \in 2..FdsSize /\ nfds' > 2
    BY <1>3, <2>2, FdsSizeAssumption DEF GoodTable, tbl, Accepted, IInv, TypeOK
  <2>6. /\ conn \in [Sockets -> ConnRecord]
        /\ anonymous \subseteq clients /\ clients \subseteq Sockets
        /\ stage \in {"password", "username", "nickname"}
        /\ {g \in Sockets : conn[g].open} = clients
    BY <1>1 DEF IInv, TypeOK, ConnRecord, noLeak, ended
  <2>7. Fresh \in ConnRecord /\ Fresh.open = TRUE
    BY DEF Fresh, ConnRecord
  <2>8. /\ [conn EXCEPT ![fd] = Fresh] \in [Sockets -> ConnRecord]
        /\ {g \in Sockets : [conn EXCEPT ![fd] = Fresh][g].open} = clients \cup {fd}
    BY <2>6, <2>7
  <2>9. \/ pc' = "dialogue" /\ i' = 0
        \/ pc' = "walk" /\ i' = 1
    BY <1>1, <1>3 DEF Accepted, detectClient
  <2>10. UNCHANGED stage
    BY <1>3 DEF Accepted, detectClient
  <2>11. \/ /\ conn' = [conn EXCEPT ![fd] = Fresh]
            /\ clients' = clients \cup {fd}
         \/ UNCHANGED <<conn, clients>> /\ pc' = "walk"
    BY <1>1, <1>3 DEF Accepted, detectClient
  <2>12. \/ UNCHANGED anonymous
         \/ /\ anonymous' = anonymous \cup {fd} /\ clients' = clients \cup {fd}
            /\ pc' = "walk"
    BY <1>1, <1>3 DEF Accepted, detectClient
  <2>13. /\ conn' \in [Sockets -> ConnRecord]
         /\ clients' \subseteq Sockets
         /\ anonymous' \subseteq clients'
         /\ {g \in Sockets : conn'[g].open} = clients'
         /\ IsFiniteSet(clients') /\ Covers(tbl', clients')
    <3>1. anonymous' \subseteq clients'
      BY <2>6, <2>11, <2>12
    <3>2. CASE UNCHANGED <<conn, clients>>
      BY <2>3, <2>6, <3>1, <3>2 DEF IInv
    <3>3. CASE conn' = [conn EXCEPT ![fd] = Fresh] /\ clients' = clients \cup {fd}
      <4>1. /\ conn' \in [Sockets -> ConnRecord]
            /\ {g \in Sockets : conn'[g].open} = clients'
        BY <2>8, <3>3
      <4> QED BY <2>2, <2>4, <2>6, <3>1, <3>3, <4>1
    <3> QED BY <2>11, <3>2, <3>3
  <2>14. TypeOK'
    BY <1>1, <2>5, <2>6, <2>9, <2>10, <2>13, FdsSizeAssumption
       DEF IInv, TypeOK, Slot, ConnRecord
  <2>15. noLeak'
    BY <2>13 DEF noLeak
  <2>16. ASSUME pc' = "dialogue"
         PROVE  InDialogue'
    <3>1. i' = 0 /\ clients' = clients \cup {fd} /\ UNCHANGED anonymous
      BY <1>1, <1>3, <2>9, <2>11, <2>12, <2>16
    <3>2. newcomer' \in clients' \ anonymous'
      BY <2>1, <2>2, <2>6, <3>1
    <3> QED BY <2>1, <2>2, <2>5, <3>1, <3>2 DEF InDialogue
  <2> QED BY <2>2, <2>9, <2>13, <2>14, <2>15, <2>16 DEF IInv
<1>4. CASE Overrun
  <2>1. conn \in [Sockets -> ConnRecord]
    BY DEF IInv, TypeOK, ConnRecord
  <2> QED BY <1>1, <1>4, <2>1, EndOK DEF Overrun, ended
<1>5. CASE abort
  BY <1>1, <1>5, AbortOK, EndOK
<1> QED BY <1>2, <1>3, <1>4, <1>5, AcceptCases

------------------------------------------------------------------------------
(* The dialogue.                                                           *)

LEMMA NewcomerOK ==
    ASSUME IInv, dialogue
    PROVE  /\ InDialogue /\ pc = "dialogue"
           /\ newcomer \in Sockets
           /\ conn[newcomer] \in ConnRecord
           /\ conn \in [Sockets -> ConnRecord]
           /\ {g \in Sockets : conn[g].open} = clients
           /\ UNCHANGED <<shutdown, backlog, line>>
<1>1. InDialogue /\ pc = "dialogue"
  BY DEF dialogue, IInv
<1>2. newcomer \in Sockets
  BY <1>1 DEF InDialogue, IInv, TypeOK
<1>3. conn \in [Sockets -> ConnRecord]
  BY DEF IInv, TypeOK, ConnRecord
<1> QED BY <1>1, <1>2, <1>3 DEF IInv, noLeak, ended, dialogue

LEMMA AnsweredOK ==
    ASSUME IInv, dialogue, answered(newcomer)
    PROVE  IInv'
<1>1. /\ InDialogue /\ pc = "dialogue" /\ newcomer \in Sockets
      /\ conn[newcomer] \in ConnRecord /\ conn \in [Sockets -> ConnRecord]
      /\ {g \in Sockets : conn[g].open} = clients
      /\ UNCHANGED <<shutdown, backlog, line>>
  BY NewcomerOK
<1>2. UNCHANGED <<fds, nfds, clients, anonymous>>
  BY DEF answered, tables
<1>3. conn' = [conn EXCEPT ![newcomer] = [conn[newcomer] EXCEPT !.data = FALSE]]
  BY DEF answered
<1>4. /\ [conn[newcomer] EXCEPT !.data = FALSE] \in ConnRecord
      /\ [conn[newcomer] EXCEPT !.data = FALSE].open = conn[newcomer].open
  BY <1>1 DEF ConnRecord
<1>5. /\ conn' \in [Sockets -> ConnRecord]
      /\ {g \in Sockets : conn'[g].open} = clients
  BY <1>1, <1>3, <1>4
<1>6. /\ stage' \in {"password", "username", "nickname"}
      /\ \/ UNCHANGED <<pc, i>>
         \/ pc' = "walk" /\ i' = i + 1
  BY DEF answered, IInv, TypeOK
<1>7. i = 0
  BY <1>1 DEF InDialogue
<1>8. TypeOK'
  BY <1>1, <1>2, <1>5, <1>6, <1>7, FdsSizeAssumption DEF IInv, TypeOK, ConnRecord
<1>9. noLeak'
  BY <1>2, <1>5 DEF noLeak
<1>10. (pc = "dialogue" => InDialogue)'
  BY <1>1, <1>2, <1>6, DialogueUnchanged
<1> QED BY <1>1, <1>2, <1>6, <1>7, <1>8, <1>9, <1>10, TableUnchanged DEF IInv

(* Closing a connection takes it off the clients and off the open ones.    *)
LEMMA CloseOK ==
    ASSUME NEW fd \in Sockets, conn \in [Sockets -> ConnRecord],
           {g \in Sockets : conn[g].open} = clients,
           conn' = [conn EXCEPT ![fd] = Closed], clients' = clients \ {fd}
    PROVE  /\ conn' \in [Sockets -> ConnRecord]
           /\ {g \in Sockets : conn'[g].open} = clients'
<1>1. Closed \in ConnRecord /\ Closed.open = FALSE
  BY DEF Closed, ConnRecord
<1> QED BY <1>1

LEMMA AbandonedOK ==
    ASSUME IInv, dialogue, abandoned(newcomer)
    PROVE  IInv'
<1> DEFINE once == shiftOut([fds |-> fds, nfds |-> nfds], newcomer)
           t == IF stage = "password" THEN shiftOut(once, newcomer) ELSE once
<1>1. /\ InDialogue /\ pc = "dialogue" /\ newcomer \in Sockets
      /\ conn \in [Sockets -> ConnRecord]
      /\ {g \in Sockets : conn[g].open} = clients
      /\ UNCHANGED <<shutdown, backlog, line>>
  BY NewcomerOK
<1>2. /\ conn' = [conn EXCEPT ![newcomer] = Closed]
      /\ fds' = t.fds /\ nfds' = t.nfds
      /\ clients' = clients \ {newcomer}
      /\ stage' = "password" /\ pc' = "walk" /\ i' = i + 1
      /\ UNCHANGED anonymous
  BY DEF abandoned
<1>3. /\ GoodTable(once)
      /\ once = [fds |-> once.fds, nfds |-> once.nfds]
      /\ Covers(once, clients \ {newcomer})
  <2>1. GoodTable([fds |-> fds, nfds |-> nfds]) /\ Covers([fds |-> fds, nfds |-> nfds], clients)
    BY DEF IInv, tbl
  <2> QED BY <1>1, <2>1, ShiftOutOK
<1>4. /\ GoodTable(shiftOut(once, newcomer))
      /\ shiftOut(once, newcomer)
            = [fds |-> shiftOut(once, newcomer).fds, nfds |-> shiftOut(once, newcomer).nfds]
      /\ Covers(shiftOut(once, newcomer), (clients \ {newcomer}) \ {newcomer})
  <2> HIDE DEF once
  <2> QED BY <1>1, <1>3, ShiftOutOK
<1>5. GoodTable(t) /\ t = [fds |-> t.fds, nfds |-> t.nfds] /\ Covers(t, clients')
  <2>1. (clients \ {newcomer}) \ {newcomer} = clients'
    BY <1>2
  <2> HIDE DEF once
  <2> QED BY <1>2, <1>3, <1>4, <2>1
<1>6. tbl' = t
  BY <1>2, <1>5 DEF tbl
<1>7. GoodTable(tbl') /\ Covers(tbl', clients')
  BY <1>5, <1>6
<1>8. fds' \in [0..FdsSize - 1 -> Slot] /\ nfds' \in 2..FdsSize
  <2> HIDE DEF t
  <2> QED BY <1>2, <1>5 DEF GoodTable
<1>9. /\ conn' \in [Sockets -> ConnRecord]
      /\ {g \in Sockets : conn'[g].open} = clients'
  BY <1>1, <1>2, CloseOK
<1>10. i' = 1 /\ clients' \subseteq Sockets /\ anonymous' \subseteq clients'
  BY <1>1, <1>2 DEF IInv, TypeOK, InDialogue
<1>11. TypeOK'
  BY <1>1, <1>2, <1>8, <1>9, <1>10, FdsSizeAssumption DEF IInv, TypeOK, Slot, ConnRecord
<1>12. IsFiniteSet(clients') /\ noLeak'
  BY <1>2, <1>9, FS_RemoveElement DEF IInv, noLeak
<1> QED BY <1>2, <1>7, <1>10, <1>11, <1>12 DEF IInv

------------------------------------------------------------------------------
(* Serving.                                                                *)

LEMMA LeaveOK ==
    ASSUME IInv, pc = "walk", i \in 0..FdsSize - 1,
           NEW fd \in Sockets, leave(fd), i' = i + 1,
           UNCHANGED <<pc, stage, shutdown, backlog, line>>
    PROVE  IInv'
<1>1. /\ conn' = [conn EXCEPT ![fd] = Closed]
      /\ clients' = clients \ {fd}
      /\ anonymous' = anonymous \ {fd}
      /\ swapOut(fd)
  BY DEF leave
<1>2. GoodTable(tbl') /\ Covers(tbl', clients')
  BY <1>1, SwapOutOK DEF IInv
<1>3. fds' \in [0..FdsSize - 1 -> Slot] /\ nfds' \in 2..FdsSize
  BY <1>2 DEF GoodTable, tbl
<1>4. /\ conn \in [Sockets -> ConnRecord]
      /\ {g \in Sockets : conn[g].open} = clients
  BY DEF IInv, TypeOK, ConnRecord, noLeak, ended
<1>5. /\ conn' \in [Sockets -> ConnRecord]
      /\ {g \in Sockets : conn'[g].open} = clients'
  BY <1>1, <1>4, CloseOK
<1>6. TypeOK'
  BY <1>1, <1>3, <1>5, FdsSizeAssumption DEF IInv, TypeOK, Slot, ConnRecord
<1>7. IsFiniteSet(clients') /\ noLeak'
  BY <1>1, <1>5, FS_RemoveElement DEF IInv, noLeak
<1> QED BY <1>2, <1>6, <1>7 DEF IInv

LEMMA MessageOK ==
    ASSUME IInv, handleClientMessage
    PROVE  IInv'
<1> DEFINE fd == fds[i].fd
<1>1. /\ fd \in Sockets /\ i' = i + 1
      /\ UNCHANGED <<pc, stage, shutdown, backlog, line>>
      /\ i \in 0..FdsSize - 1 /\ i < nfds /\ pc = "walk"
      /\ {g \in Sockets : conn[g].open} = clients
  BY AtOK DEF handleClientMessage
<1>2. CASE leave(fd)
  BY <1>1, <1>2, LeaveOK
<1>3. CASE conn' = [conn EXCEPT ![fd].data = FALSE] /\ UNCHANGED tables
  <2>1. conn' = [conn EXCEPT ![fd] = [conn[fd] EXCEPT !.data = FALSE]]
    BY <1>3
  <2>2. conn \in [Sockets -> ConnRecord] /\ conn[fd] \in ConnRecord
    BY <1>1 DEF IInv, TypeOK, ConnRecord
  <2>3. /\ [conn[fd] EXCEPT !.data = FALSE] \in ConnRecord
        /\ [conn[fd] EXCEPT !.data = FALSE].open = conn[fd].open
    BY <2>2 DEF ConnRecord
  <2>4. /\ conn' \in [Sockets -> ConnRecord]
        /\ {g \in Sockets : conn'[g].open} = clients
    BY <1>1, <2>1, <2>2, <2>3
  <2>5. TypeOK'
    BY <1>1, <1>3, <2>4, FdsSizeAssumption DEF IInv, TypeOK, ConnRecord, tables
  <2>6. noLeak'
    BY <1>3, <2>4 DEF noLeak, tables
  <2> QED BY <1>1, <1>3, <2>5, <2>6, TableUnchanged DEF IInv, tables
<1> QED BY <1>2, <1>3 DEF handleClientMessage

------------------------------------------------------------------------------
(* The theorems for every kind of connection.                              *)

LEMMA InitOK == Init => IInv
<1> SUFFICES ASSUME Init PROVE IInv
  OBVIOUS
<1>1. TypeOK
  <2>1. [fd |-> Listening, pollin |-> FALSE] \in Slot /\ [fd |-> Stdin, pollin |-> FALSE] \in Slot
    BY DEF Slot
  <2>2. fds \in [0..FdsSize - 1 -> Slot]
    <3>1. \A j \in 0..FdsSize - 1 : fds[j] \in Slot
      BY <2>1 DEF Init
    <3> QED BY <3>1 DEF Init
  <2>3. conn \in [Sockets -> ConnRecord]
    BY DEF Init, Closed, ConnRecord
  <2>4. 2 \in 2..FdsSize /\ 0 \in 0..FdsSize /\ 0 \in 0..MaxBacklog
    BY FdsSizeAssumption, BoundsAssumption
  <2>5. /\ nfds \in 2..FdsSize /\ i \in 0..FdsSize /\ backlog \in 0..MaxBacklog
        /\ pc = "poll" /\ stage = "password" /\ shutdown \in BOOLEAN
        /\ clients = {} /\ anonymous = {} /\ line = NoLine
    BY <2>4 DEF Init
  <2> QED BY <2>2, <2>3, <2>5 DEF TypeOK, Slot, ConnRecord
<1>2. GoodTable(tbl) /\ Covers(tbl, clients)
  BY FdsSizeAssumption DEF Init, GoodTable, Covers, tbl, Slot
<1>3. noLeak
  BY DEF Init, noLeak, Closed
<1>4. IsFiniteSet(clients)
  BY FS_EmptySet DEF Init
<1> QED BY <1>1, <1>2, <1>3, <1>4 DEF Init, IInv

(* The inductive invariant for every kind of connection: the table of      *)
(* slots is well formed and covers the clients, no descriptor leaks, and   *)
(* the thread is where its tests left it.                                  *)
THEOREM LoopInvariance == Spec => []IInv
<1>1. IInv /\ [Next]_vars => IInv'
  <2> SUFFICES ASSUME IInv, [Next]_vars PROVE IInv'
    OBVIOUS
  <2>1. CASE UNCHANGED vars
    <3>1. TypeOK' /\ noLeak'
      BY <2>1 DEF IInv, TypeOK, noLeak, ended, vars, tables
    <3> QED BY <2>1, <3>1, TableUnchanged, DialogueUnchanged DEF IInv, vars, tables
  <2>2. CASE ~ ended /\ Environment
    BY <2>2, EnvironmentOK
  <2>3. CASE Server
    BY <2>3, PollOK, QuietStepOK, AcceptOK, AnsweredOK, AbandonedOK, MessageOK,
       StopServerOK, BrokenPipeOK DEF Server, dialogue
  <2> QED BY <2>1, <2>2, <2>3 DEF Next
<1> QED BY <1>1, InitOK, PTL DEF Spec

(* Whatever slots refused connections leave behind, every client has one,  *)
(* and no descriptor is open without a client.                             *)
THEOREM ClientsPolled == Spec => []EveryClientPolled
<1>1. IInv => EveryClientPolled
  BY DEF IInv, Covers, tbl, EveryClientPolled, polled
<1> QED BY <1>1, LoopInvariance, PTL
------------------------------------------------------------------------------
(* The abstract specification of the connections.                          *)

(* The Cardinality that Connections extends is the one known here.         *)
LEMMA SameCardinality == \A S : Abstract!Cardinality(S) = Cardinality(S)
BY DEF Abstract!Cardinality, Cardinality

(* What the abstract specification sees is left as it was.                 *)
Idle == UNCHANGED established /\ (ended' <=> ended)

(* Peers and signals move the thread out of poll at most.                  *)
LEMMA EnvironmentMoves ==
    ASSUME Environment
    PROVE  /\ UNCHANGED <<fds, nfds, i, clients>>
           /\ \/ UNCHANGED pc
              \/ pc = "poll" /\ pc' = "stopping"
<1>1. CASE SignalHandler \/ TstpSignalHandler
  <2>1. UNCHANGED <<fds, nfds, i, clients>> /\ interrupt
    BY <1>1 DEF SignalHandler, TstpSignalHandler, tables
  <2> QED BY <2>1 DEF interrupt
<1>2. CASE ~ (SignalHandler \/ TstpSignalHandler)
  BY <1>2 DEF Environment, connect, send, hangUp, type, tables
<1> QED BY <1>1, <1>2

(* When the process is gone its connections are.                           *)
LEMMA EndStops ==
    ASSUME ~ ended, ended'
    PROVE  Abstract!Stop
BY DEF Abstract!Stop, established

(* A newcomer is established at once or when its dialogue starts.          *)
LEMMA AcceptConnects ==
    ASSUME IInv, acceptNewConnection
    PROVE  \/ \E fd \in Sockets : Abstract!Connect(fd)
           \/ Abstract!Stop
           \/ Idle
<1>1. pc = "walk" /\ i = 0 /\ established = clients /\ ~ ended
  BY AcceptCases DEF established, ended
<1>2. CASE UNCHANGED <<tables, pc, stage, conn>>
  BY <1>1, <1>2 DEF tables, established, ended, Idle
<1>3. ASSUME NEW fd \in Sockets, Accepted(fd)
      PROVE  Abstract!Connect(fd) \/ Idle
  <2>1. /\ fd \notin clients
        /\ \A g \in Sockets \ clients : fd <= g
        /\ Cardinality(clients) < MaxClients
    BY <1>1, <1>3, AcceptedOK
  <2>2. CASE pc' = "dialogue"
    <3>1. clients' = clients \cup {fd}
      BY <1>1, <1>3, <2>2 DEF Accepted, detectClient
    <3>2. newcomer' = fd
      BY <1>3, NewSlotOK DEF Accepted
    <3>3. established' = clients /\ ~ ended'
      BY <2>1, <2>2, <3>1, <3>2 DEF established, ended
    <3> QED BY <1>1, <3>3 DEF Idle
  <2>3. CASE pc' = "walk"
    <3>1. clients' = clients \/ clients' = clients \cup {fd}
      BY <1>3 DEF Accepted, detectClient
    <3>2. established' = clients' /\ ~ ended'
      BY <2>3 DEF established, ended
    <3>3. CASE clients' = clients
      BY <1>1, <3>2, <3>3 DEF Idle
    <3>4. CASE clients' = clients \cup {fd}
      BY <1>1, <2>1, <3>2, <3>4, SameCardinality DEF Abstract!Connect, ended
    <3> QED BY <3>1, <3>3, <3>4
  <2>4. pc' \in {"dialogue", "walk"}
    BY <1>1, <1>3 DEF Accepted, detectClient
  <2> QED BY <2>2, <2>3, <2>4
<1>4. CASE Overrun \/ abort
  <2>1. ended'
    BY <1>4, AbortOK DEF Overrun, ended
  <2> QED BY <1>1, <2>1, EndStops
<1> QED BY <1>2, <1>3, <1>4, AcceptCases

(* The last answer of a dialogue establishes the newcomer; leaving in the  *)
(* middle of one was never a connection.                                   *)
LEMMA DialogueConnects ==
    ASSUME IInv, dialogue
    PROVE  (\E fd \in Sockets : Abstract!Connect(fd)) \/ Idle
<1>1. InDialogue /\ pc = "dialogue" /\ newcomer \in Sockets
  BY NewcomerOK
<1>2. established = clients \ {newcomer} /\ ~ ended
  BY <1>1 DEF established, ended
<1>3. CASE abandoned(newcomer)
  <2>1. clients' = clients \ {newcomer} /\ pc' = "walk"
    BY <1>3 DEF abandoned
  <2> QED BY <1>2, <2>1 DEF established, ended, Idle
<1>4. CASE answered(newcomer) /\ UNCHANGED pc
  <2>1. UNCHANGED <<fds, nfds, clients, pc>>
    BY <1>4 DEF answered, tables
  <2> QED BY <2>1 DEF established, ended, newcomer, Idle
<1>5. CASE answered(newcomer) /\ pc' = "walk"
  <2>1. established' = clients /\ ~ ended'
    BY <1>5 DEF answered, tables, established, ended
  <2>2. /\ newcomer \in clients
        /\ Cardinality(clients) <= MaxClients
        /\ \A g \in Sockets \ clients : newcomer <= g
    BY <1>1 DEF InDialogue
  <2>3. /\ Cardinality(clients) \in Nat
        /\ Cardinality(established) = Cardinality(clients) - 1
    BY <1>2, <2>2, FS_CardinalityType, FS_RemoveElement DEF IInv
  <2>4. Cardinality(established) < MaxClients
    BY <2>2, <2>3, BoundsAssumption
  <2>5. newcomer \in Nat
    BY <1>1, SocketsAssumption
  <2>6. \A g \in Sockets \ established : newcomer <= g
    BY <1>2, <2>2, <2>5
  <2>7. newcomer \in Sockets \ established /\ established' = established \cup {newcomer}
    BY <1>1, <1>2, <2>1, <2>2
  <2>8. Abstract!Connect(newcomer)
    BY <1>2, <2>1, <2>4, <2>6, <2>7, SameCardinality DEF Abstract!Connect, ended
  <2> QED BY <1>1, <2>8
<1>6. answered(newcomer) => UNCHANGED pc \/ pc' = "walk"
  BY DEF answered
<1> QED BY <1>3, <1>4, <1>5, <1>6 DEF dialogue

LEMMA MessageDisconnects ==
    ASSUME IInv, handleClientMessage
    PROVE  (\E fd \in Sockets : Abstract!Disconnect(fd)) \/ Idle
<1> DEFINE fd == fds[i].fd
<1>1. fd \in Sockets /\ pc = "walk" /\ UNCHANGED pc
  BY DEF handleClientMessage, atSlot
<1>2. established = clients /\ established' = clients' /\ ~ ended /\ ~ ended'
  BY <1>1 DEF established, ended
<1>3. UNCHANGED clients \/ clients' = clients \ {fd}
  BY DEF handleClientMessage, leave, tables
<1>4. CASE clients' = clients \ {fd}
  <2>1. CASE fd \in clients
    <3>1. Abstract!Disconnect(fd)
      BY <1>2, <1>4, <2>1 DEF Abstract!Disconnect, ended
    <3> QED BY <1>1, <3>1
  <2>2. CASE fd \notin clients
    BY <1>2, <1>4, <2>2 DEF Idle
  <2> QED BY <2>1, <2>2
<1>5. CASE UNCHANGED clients
  BY <1>2, <1>5 DEF Idle
<1> QED BY <1>3, <1>4, <1>5

(* The event loop implements module Connections, refused connections and   *)
(* the slots they leave included: a client is established under the        *)
(* lowest descriptor no client has, below the capacity, and nothing but    *)
(* its own end ends it.                                                    *)
THEOREM LoopImplementsConnections == Spec => ImplementsConnections
<1>1. Init => Abstract!Init
  BY DEF Init, Abstract!Init, established, ended
<1>2. IInv /\ [Next]_vars => [Abstract!Next]_(Abstract!vars)
  <2> SUFFICES ASSUME IInv, [Next]_vars
               PROVE  Abstract!Next \/ Idle
    BY DEF Abstract!vars, Idle, ended
  <2>1. CASE UNCHANGED vars
    BY <2>1 DEF vars, tables, established, ended, newcomer, Idle
  <2>2. CASE Environment
    BY <2>2, EnvironmentMoves DEF established, ended, newcomer, Idle
  <2>3. CASE poll \/ skip \/ readStdin \/ endOfRound
    <3>1. /\ UNCHANGED clients
          /\ pc \in {"poll", "walk"} /\ pc' \in {"poll", "walk", "stopping"}
      BY <2>3 DEF poll, skip, readStdin, endOfRound, atSlot, tables
    <3> QED BY <3>1 DEF established, ended, Idle
  <2>4. /\ Abstract!Stop => Abstract!Next
        /\ \A fd \in Sockets :
              Abstract!Connect(fd) \/ Abstract!Disconnect(fd) => Abstract!Next
    BY DEF Abstract!Next
  <2>5. CASE acceptNewConnection
    BY <2>4, <2>5, AcceptConnects
  <2>6. CASE dialogue
    BY <2>4, <2>6, DialogueConnects
  <2>7. CASE handleClientMessage
    BY <2>4, <2>7, MessageDisconnects
  <2>8. CASE stopServer \/ brokenPipe
    <3>1. ~ ended /\ ended'
      BY <2>8 DEF stopServer, brokenPipe, atSlot, abort, ended
    <3> QED BY <2>4, <3>1, EndStops
  <2> QED BY <2>1, <2>2, <2>3, <2>5, <2>6, <2>7, <2>8 DEF Next, Server
<1> QED BY <1>1, <1>2, LoopInvariance, PTL DEF Spec, ImplementsConnections, Abstract!Spec

------------------------------------------------------------------------------
(* The slots when no irssi client is refused, the one case in which a slot *)
(* is left without its client: each slot then is one client's, and only    *)
(* the last can be read without being ready.                               *)

(* The slots in use from 2 on list C, each member of it once.              *)
Exact(t, C) ==
    /\ {t.fds[j].fd : j \in 2..t.nfds - 1} = C
    /\ \A j, k \in 2..t.nfds - 1 : t.fds[j].fd = t.fds[k].fd => j = k
    /\ t.nfds = 2 + Cardinality(C)

(* The slots up to m that the walk has still before it are ready when they *)
(* say so.                                                                 *)
ReadyUpTo(m) ==
    \A j \in 2..m : j >= i /\ fds[j].pollin => readable(fds[j].fd)

SlotInv ==
    /\ Exact(tbl, clients)
    /\ pc \in {"walk", "dialogue"} => ReadyUpTo(nfds - 2)
    /\ pc = "walk" /\ i = 0 => ReadyUpTo(nfds - 1)

------------------------------------------------------------------------------
(* Steps that leave the table and the clients alone and take no data from  *)
(* a connection.                                                           *)

LEMMA ExactUnchanged ==
    ASSUME Exact(tbl, clients), UNCHANGED <<fds, nfds, clients>>
    PROVE  Exact(tbl', clients')
BY DEF Exact, tbl

LEMMA QuietOK ==
    ASSUME IInv, SlotInv, UNCHANGED <<fds, nfds, clients>>,
           pc' \in {"walk", "dialogue"} => pc' = pc /\ i' \in Nat /\ i' >= i,
           \A fd \in Sockets : readable(fd) => readable(fd)'
    PROVE  SlotInv'
<1>1. Exact(tbl', clients')
  BY ExactUnchanged DEF SlotInv
<1>2. /\ nfds \in Nat /\ i \in Nat
      /\ \A j \in 2..nfds - 1 : fds[j].fd \in Sockets
  BY FdsSizeAssumption DEF IInv, TypeOK, GoodTable, tbl
<1>3. ASSUME NEW m \in {nfds - 1, nfds - 2}, ReadyUpTo(m), i' \in Nat, i' >= i
      PROVE  ReadyUpTo(m)'
  <2>1. ASSUME NEW j \in 2..m, j >= i', fds[j].pollin
        PROVE  readable(fds[j].fd)'
    <3>1. j >= i /\ fds[j].fd \in Sockets
      BY <1>2, <1>3, <2>1
    <3>2. readable(fds[j].fd)
      BY <1>3, <2>1, <3>1 DEF ReadyUpTo
    <3> QED BY <3>1, <3>2
  <2> QED BY <2>1 DEF ReadyUpTo, readable
<1>4. (pc \in {"walk", "dialogue"} => ReadyUpTo(nfds - 2))'
  <2> SUFFICES ASSUME pc' \in {"walk", "dialogue"}
               PROVE  ReadyUpTo(nfds - 2)'
    BY DEF ReadyUpTo
  <2> QED BY <1>3 DEF SlotInv
<1>5. (pc = "walk" /\ i = 0 => ReadyUpTo(nfds - 1))'
  <2> SUFFICES ASSUME pc' = "walk", i' = 0
               PROVE  ReadyUpTo(nfds - 1)'
    BY DEF ReadyUpTo
  <2>1. i = 0
    BY <1>2
  <2> QED BY <1>3, <2>1 DEF SlotInv
<1> QED BY <1>1, <1>4, <1>5 DEF SlotInv

LEMMA SlotEnvironmentOK ==
    ASSUME IInv, SlotInv, Environment
    PROVE  SlotInv'
<1>1. i \in Nat /\ conn \in [Sockets -> ConnRecord]
  BY FdsSizeAssumption DEF IInv, TypeOK, ConnRecord
<1>2. /\ UNCHANGED <<fds, nfds, i, clients>>
      /\ pc' \in {"walk", "dialogue"} => pc' = pc
  BY EnvironmentMoves
<1>3. ASSUME NEW fd \in Sockets, readable(fd)
      PROVE  readable(fd)'
  <2>1. CASE UNCHANGED conn
    BY <1>3, <2>1 DEF readable
  <2>2. ASSUME NEW g \in Sockets, send(g)
        PROVE  readable(fd)'
    <3>1. conn' = [conn EXCEPT ![g] = [conn[g] EXCEPT !.data = TRUE]]
      BY <2>2 DEF send
    <3>2. conn[g] \in ConnRecord
      BY <1>1
    <3> QED BY <1>1, <1>3, <3>1, <3>2 DEF readable, ConnRecord
  <2>3. ASSUME NEW g \in Sockets, hangUp(g)
        PROVE  readable(fd)'
    <3>1. conn' = [conn EXCEPT ![g] = [conn[g] EXCEPT !.hup = TRUE]]
      BY <2>3 DEF hangUp
    <3>2. conn[g] \in ConnRecord
      BY <1>1
    <3> QED BY <1>1, <1>3, <3>1, <3>2 DEF readable, ConnRecord
  <2> QED BY <2>1, <2>2, <2>3
       DEF Environment, connect, type, SignalHandler, TstpSignalHandler
<1> QED BY <1>1, <1>2, <1>3, QuietOK

(* The thread that left the round has no slot before it.                   *)
LEMMA SlotLeftOK ==
    ASSUME SlotInv, UNCHANGED tables, pc' \notin {"walk", "dialogue"}
    PROVE  SlotInv'
<1>1. Exact(tbl', clients')
  BY ExactUnchanged DEF SlotInv, tables
<1> QED BY <1>1 DEF SlotInv

LEMMA SlotQuietStepOK ==
    ASSUME IInv, SlotInv, skip \/ readStdin \/ endOfRound \/ stopServer
    PROVE  SlotInv'
<1>1. UNCHANGED tables /\ UNCHANGED <<fds, nfds, clients>>
  BY DEF skip, readStdin, endOfRound, stopServer, tables
<1>2. CASE skip \/ readStdin
  <2>1. nfds \in Nat /\ i \in Nat /\ i < nfds
    BY <1>2, FdsSizeAssumption DEF IInv, TypeOK, skip, readStdin, atSlot
  <2>2. pc' = pc /\ UNCHANGED conn
    BY <1>2 DEF skip, readStdin
  <2>3. i' = i + 1 \/ i' = nfds
    BY <1>2 DEF skip, readStdin
  <2>4. \A fd \in Sockets : readable(fd) => readable(fd)'
    BY <2>2 DEF readable
  <2>5. i' \in Nat /\ i' >= i
    BY <2>1, <2>3
  <2> QED BY <1>1, <2>2, <2>4, <2>5, QuietOK
<1>3. CASE endOfRound \/ stopServer
  <2>1. pc' \notin {"walk", "dialogue"}
    BY <1>3 DEF endOfRound, stopServer
  <2> QED BY <1>1, <2>1, SlotLeftOK
<1> QED BY <1>2, <1>3

(* What poll has just said is true of every slot.                          *)
LEMMA SlotPollOK ==
    ASSUME IInv, SlotInv, poll
    PROVE  SlotInv'
<1>1. /\ nfds \in 2..FdsSize
      /\ \A j \in 2..nfds - 1 : fds[j].fd \in Sockets
      /\ conn \in [Sockets -> ConnRecord] /\ backlog \in Nat
  BY BoundsAssumption DEF IInv, TypeOK, GoodTable, tbl, ConnRecord
<1>2. UNCHANGED <<nfds, clients, conn>>
  BY DEF poll
<1>3. ASSUME NEW j \in 2..nfds - 1
      PROVE  fds'[j].fd = fds[j].fd /\ (fds[j].pollin => readable(fds[j].fd))'
  <2>1. j \in 0..nfds - 1 /\ j \in 0..FdsSize - 1
    BY <1>1, FdsSizeAssumption
  <2>2. fds'[j].fd = fds[j].fd /\ fds'[j].pollin = ready(fds[j].fd)
    BY <2>1, PollTable
  <2>3. ready(fds[j].fd) = readable(fds[j].fd)
    BY <1>1, ReadyOK
  <2> QED BY <1>2, <2>2, <2>3 DEF readable
<1>4. ReadyUpTo(nfds - 1)' /\ ReadyUpTo(nfds - 2)'
  <2>1. \A j \in 2..nfds - 2 : j \in 2..nfds - 1
    BY <1>1
  <2> QED BY <1>2, <1>3, <2>1 DEF ReadyUpTo
<1>5. Exact(tbl', clients')
  <2>1. \A j \in 2..nfds - 1 : fds'[j].fd = fds[j].fd
    BY <1>3
  <2>2. {fds'[j].fd : j \in 2..nfds - 1} = {fds[j].fd : j \in 2..nfds - 1}
    BY <2>1
  <2> QED BY <1>2, <2>1, <2>2 DEF SlotInv, Exact, tbl
<1> QED BY <1>4, <1>5 DEF SlotInv

------------------------------------------------------------------------------
(* Arrivals.                                                               *)

LEMMA ExactAdded ==
    ASSUME IInv, Exact(tbl, clients), nfds < FdsSize,
           NEW fd \in Sockets, fd \notin clients,
           fds' = [fds EXCEPT ![nfds].fd = fd], nfds' = nfds + 1
    PROVE  Exact(tbl', clients \cup {fd})
<1>1. nfds \in Nat /\ nfds >= 2
  BY FdsSizeAssumption DEF IInv, TypeOK
<1>2. /\ fds'[nfds].fd = fd
      /\ \A j \in 0..nfds - 1 : fds'[j] = fds[j]
  BY NewSlotOK
<1>3. /\ 2..nfds' - 1 = (2..nfds - 1) \cup {nfds}
      /\ \A j \in 2..nfds - 1 : j \in 0..nfds - 1
  BY <1>1
<1>4. /\ {fds[j].fd : j \in 2..nfds - 1} = clients
      /\ \A j, k \in 2..nfds - 1 : fds[j].fd = fds[k].fd => j = k
      /\ nfds = 2 + Cardinality(clients)
  BY DEF Exact, tbl
<1>5. \A j \in 2..nfds - 1 : fds'[j].fd = fds[j].fd /\ fds[j].fd \in clients
  BY <1>2, <1>3, <1>4
<1>6. {fds'[j].fd : j \in 2..nfds' - 1} = clients \cup {fd}
  BY <1>2, <1>3, <1>4, <1>5
<1>7. \A j, k \in 2..nfds' - 1 : fds'[j].fd = fds'[k].fd => j = k
  BY <1>2, <1>3, <1>4, <1>5
<1>8. nfds' = 2 + Cardinality(clients \cup {fd})
  <2>1. IsFiniteSet(clients)
    BY DEF IInv
  <2>2. Cardinality(clients) \in Nat
        /\ Cardinality(clients \cup {fd}) = Cardinality(clients) + 1
    BY <2>1, FS_AddElement, FS_CardinalityType
  <2> QED BY <1>1, <1>4, <2>2
<1> QED BY <1>6, <1>7, <1>8 DEF Exact, tbl

LEMMA SlotAcceptOK ==
    ASSUME IInv, SlotInv, "refused" \notin Kinds, acceptNewConnection
    PROVE  SlotInv'
<1>1. i = 0 /\ pc = "walk" /\ nfds \in Nat /\ conn \in [Sockets -> ConnRecord]
  BY AcceptCases, FdsSizeAssumption DEF IInv, TypeOK, ConnRecord
<1>2. CASE UNCHANGED <<tables, pc, stage, conn>> /\ i' = 1
  <2>1. \A fd \in Sockets : readable(fd) => readable(fd)'
    BY <1>2 DEF readable
  <2> QED BY <1>1, <1>2, <2>1, QuietOK DEF tables
<1>3. ASSUME NEW fd \in Sockets, Accepted(fd)
      PROVE  SlotInv'
  <2>1. fd \notin clients
    BY <1>1, <1>3, AcceptedOK
  <2>2. /\ nfds < FdsSize
        /\ fds' = [fds EXCEPT ![nfds].fd = fd] /\ nfds' = nfds + 1
        /\ conn' = [conn EXCEPT ![fd] = Fresh]
        /\ clients' = clients \cup {fd}
    BY <1>3 DEF Accepted, detectClient
  <2>3. \/ pc' = "dialogue" /\ i' = 0
        \/ pc' = "walk" /\ i' = 1
    BY <1>1, <1>3 DEF Accepted, detectClient
  <2>4. Exact(tbl', clients')
    BY <2>1, <2>2, ExactAdded DEF SlotInv
  <2>5. \A j \in 0..nfds - 1 : fds'[j] = fds[j]
    BY <2>2, NewSlotOK
  <2>6. ASSUME NEW j \in 2..nfds' - 2, fds'[j].pollin
        PROVE  readable(fds[j].fd)'
    <3>1. j \in 2..nfds - 1 /\ j \in 0..nfds - 1 /\ j >= i
      BY <1>1, <2>2, <2>6
    <3>2. fds'[j] = fds[j] /\ fds[j].fd \in clients
      BY <2>5, <3>1 DEF SlotInv, Exact, tbl
    <3>3. readable(fds[j].fd)
      BY <1>1, <2>6, <3>1, <3>2 DEF SlotInv, ReadyUpTo
    <3>4. conn'[fds[j].fd] = conn[fds[j].fd]
      BY <1>1, <2>1, <2>2, <3>2 DEF IInv, TypeOK
    <3> QED BY <3>2, <3>3, <3>4 DEF readable
  <2>7. ReadyUpTo(nfds - 2)'
    BY <2>6 DEF ReadyUpTo, readable
  <2> QED BY <2>3, <2>4, <2>7 DEF SlotInv
<1>4. CASE Overrun \/ abort
  BY <1>4, SlotLeftOK DEF Overrun, abort
<1> QED BY <1>2, <1>3, <1>4, AcceptCases

------------------------------------------------------------------------------
(* Departures.                                                             *)

(* A slot in use is taken out and the last one put in its place.           *)
LEMMA ExactRemoved ==
    ASSUME IInv, Exact(tbl, clients), NEW a \in 2..nfds - 1, nfds' = nfds - 1,
           \A j \in 2..nfds - 2 :
               fds'[j].fd = IF j = a THEN fds[nfds - 1].fd ELSE fds[j].fd
    PROVE  Exact(tbl', clients \ {fds[a].fd})
<1> DEFINE fd == fds[a].fd
<1>1. nfds \in Nat /\ a \in Nat /\ nfds > 2
  BY FdsSizeAssumption DEF IInv, TypeOK
<1>2. /\ {fds[j].fd : j \in 2..nfds - 1} = clients
      /\ \A j, k \in 2..nfds - 1 : fds[j].fd = fds[k].fd => j = k
      /\ nfds = 2 + Cardinality(clients)
  BY DEF Exact, tbl
<1>3. nfds - 1 \in 2..nfds - 1
  BY <1>1
<1>4. ASSUME NEW j \in 2..nfds - 2
      PROVE  j \in 2..nfds - 1 /\ j # nfds - 1
  BY <1>1
<1>5. ASSUME NEW j \in 2..nfds - 2
      PROVE  fds'[j].fd \in clients \ {fd}
  <2>1. CASE j = a
    <3>1. nfds - 1 # a
      BY <1>4, <2>1
    <3> QED BY <1>2, <1>3, <2>1, <3>1
  <2>2. CASE j # a
    BY <1>2, <1>4, <2>2
  <2> QED BY <2>1, <2>2
<1>6. ASSUME NEW x \in clients \ {fd}
      PROVE  \E j \in 2..nfds - 2 : fds'[j].fd = x
  <2>1. PICK j \in 2..nfds - 1 : fds[j].fd = x
    BY <1>2
  <2>2. j # a
    BY <2>1
  <2>3. CASE j = nfds - 1
    <3>1. a \in 2..nfds - 2
      BY <1>1, <2>2, <2>3
    <3> QED BY <2>1, <2>3, <3>1
  <2>4. CASE j # nfds - 1
    <3>1. j \in 2..nfds - 2
      BY <1>1, <2>4
    <3> QED BY <2>1, <2>2, <3>1
  <2> QED BY <2>3, <2>4
<1>7. ASSUME NEW j \in 2..nfds - 2, NEW k \in 2..nfds - 2, fds'[j].fd = fds'[k].fd
      PROVE  j = k
  <2> DEFINE was(m) == IF m = a THEN nfds - 1 ELSE m
  <2>1. \A m \in 2..nfds - 2 : was(m) \in 2..nfds - 1 /\ fds'[m].fd = fds[was(m)].fd
    BY <1>3, <1>4
  <2>2. was(j) = was(k)
    <3> HIDE DEF was
    <3> QED BY <1>2, <1>7, <2>1
  <2> QED BY <1>4, <2>2
<1>8. nfds' = 2 + Cardinality(clients \ {fd})
  <2>1. IsFiniteSet(clients) /\ fd \in clients
    BY <1>2 DEF IInv
  <2>2. Cardinality(clients) \in Nat
        /\ Cardinality(clients \ {fd}) = Cardinality(clients) - 1
    BY <2>1, FS_RemoveElement, FS_CardinalityType
  <2> QED BY <1>1, <1>2, <2>2
<1>9. 2..nfds' - 1 = 2..nfds - 2
  BY <1>1
<1>10. {fds'[j].fd : j \in 2..nfds' - 1} = clients \ {fd}
  <2>1. {fds'[j].fd : j \in 2..nfds - 2} = clients \ {fd}
    <3> HIDE DEF fd
    <3> QED BY <1>5, <1>6
  <2> QED BY <1>9, <2>1
<1>11. \A j, k \in 2..nfds' - 1 : fds'[j].fd = fds'[k].fd => j = k
  BY <1>7, <1>9
<1> QED BY <1>8, <1>10, <1>11 DEF Exact, tbl

(* The slot of a client that is found by its descriptor is the only one.   *)
LEMMA OnlySlot ==
    ASSUME IInv, Exact(tbl, clients), NEW a \in 2..nfds - 1
    PROVE  /\ slotsOf(fds[a].fd) = {a}
           /\ first({a}) = a
           /\ fds[a].fd \in clients
<1>1. /\ nfds \in Nat
      /\ fds[0].fd = Listening /\ fds[1].fd = Stdin
      /\ fds[a].fd \in Sockets
  BY FdsSizeAssumption DEF IInv, TypeOK, GoodTable, tbl
<1>2. fds[a].fd # Listening /\ fds[a].fd # Stdin
  BY <1>1, SocketsAssumption DEF Listening, Stdin
<1>3. \A j \in 0..nfds - 1 : j = 0 \/ j = 1 \/ j \in 2..nfds - 1
  BY <1>1
<1>4. /\ \A j, k \in 2..nfds - 1 : fds[j].fd = fds[k].fd => j = k
      /\ fds[a].fd \in clients
  BY DEF Exact, tbl
<1>5. a \in 0..nfds - 1 /\ a \in Nat
  BY <1>1
<1>6. slotsOf(fds[a].fd) = {a}
  BY <1>1, <1>2, <1>3, <1>4, <1>5 DEF slotsOf
<1>7. {a} \in SUBSET Nat
  BY <1>5
<1>8. first({a}) \in {a}
  BY <1>7, FirstOK
<1> QED BY <1>4, <1>6, <1>8

(* The last slot is shifted out by forgetting it, and a second shift finds *)
(* nothing.                                                                *)
LEMMA ShiftLast ==
    ASSUME IInv, Exact(tbl, clients), nfds > 2
    PROVE  LET once == shiftOut(tbl, newcomer)
           IN  /\ once.nfds = nfds - 1
               /\ \A j \in 0..nfds - 2 : once.fds[j] = fds[j]
               /\ shiftOut(once, newcomer) = once
<1> DEFINE once == shiftOut(tbl, newcomer)
<1>1. /\ nfds \in Nat /\ nfds <= FdsSize
      /\ DOMAIN fds = 0..FdsSize - 1
      /\ nfds - 1 \in 2..nfds - 1
  BY FdsSizeAssumption DEF IInv, TypeOK
<1>2. slotsOf(newcomer) = {nfds - 1} /\ first({nfds - 1}) = nfds - 1
  BY <1>1, OnlySlot DEF newcomer
<1>3. {j \in 0..tbl.nfds - 1 : tbl.fds[j].fd = newcomer} = {nfds - 1}
  BY <1>2 DEF slotsOf, tbl
<1>4. once = [ fds  |-> [j \in 0..FdsSize - 1 |->
                            IF j \in (nfds - 1)..(nfds - 2) THEN fds[j + 1] ELSE fds[j]],
               nfds |-> nfds - 1 ]
  BY <1>1, <1>2, <1>3 DEF shiftOut, tbl
<1>5. \A j \in 0..nfds - 2 : j \in 0..FdsSize - 1 /\ j \notin (nfds - 1)..(nfds - 2)
  BY <1>1, FdsSizeAssumption
<1>6. once.nfds = nfds - 1 /\ \A j \in 0..nfds - 2 : once.fds[j] = fds[j]
  BY <1>4, <1>5
<1> HIDE DEF once
<1>7. {j \in 0..once.nfds - 1 : once.fds[j].fd = newcomer} = {}
  <2>1. ASSUME NEW j \in 0..nfds - 2
        PROVE  fds[j].fd # newcomer
    <3>1. j \in 0..nfds - 1 /\ j # nfds - 1
      BY <1>1
    <3> QED BY <1>2, <3>1 DEF slotsOf
  <2>2. 0..once.nfds - 1 = 0..nfds - 2
    BY <1>1, <1>6
  <2> QED BY <1>6, <2>1, <2>2
<1>8. shiftOut(once, newcomer) = once
  BY <1>7 DEF shiftOut
<1> QED BY <1>6, <1>8 DEF once

(* A step that is about one client only, whose slot is behind the walk or  *)
(* the last one, and that may take that slot out.                          *)
About(fd) ==
    /\ \A g \in Sockets \ {fd} : conn'[g] = conn[g]
    /\ nfds' \in {nfds, nfds - 1}
    /\ \A j \in 2..nfds - 2 :
          j > i /\ j <= nfds' - 2 => fds'[j] = fds[j] /\ fds[j].fd # fd

LEMMA TakenOutOK ==
    ASSUME IInv, SlotInv, pc \in {"walk", "dialogue"}, pc' = "walk", i' = i + 1,
           NEW fd \in Sockets, About(fd), Exact(tbl', clients')
    PROVE  SlotInv'
<1>1. /\ i \in Nat /\ nfds \in Nat
      /\ \A j \in 2..nfds - 1 : fds[j].fd \in Sockets
  BY FdsSizeAssumption DEF IInv, TypeOK, GoodTable, tbl
<1>2. ASSUME NEW j \in 2..nfds' - 2, j >= i + 1, fds'[j].pollin
      PROVE  readable(fds[j].fd)'
  <2>1. j \in 2..nfds - 2 /\ j \in 2..nfds - 1 /\ j > i
    BY <1>1, <1>2 DEF About
  <2>2. fds'[j] = fds[j] /\ fds[j].fd # fd
    BY <1>2, <2>1 DEF About
  <2>3. readable(fds[j].fd)
    BY <1>1, <1>2, <2>1, <2>2 DEF SlotInv, ReadyUpTo
  <2>4. conn'[fds[j].fd] = conn[fds[j].fd]
    BY <1>1, <2>1, <2>2 DEF About
  <2> QED BY <2>2, <2>3, <2>4 DEF readable
<1>3. ReadyUpTo(nfds - 2)'
  BY <1>2 DEF ReadyUpTo, readable
<1>4. i' # 0
  BY <1>1
<1> QED BY <1>3, <1>4 DEF SlotInv

LEMMA SlotDialogueOK ==
    ASSUME IInv, SlotInv, dialogue
    PROVE  SlotInv'
<1>1. /\ i = 0 /\ nfds > 2 /\ nfds \in Nat
      /\ pc = "dialogue" /\ newcomer \in Sockets
      /\ conn \in [Sockets -> ConnRecord]
  BY NewcomerOK, FdsSizeAssumption DEF InDialogue, IInv, TypeOK
<1>2. nfds - 1 \in 2..nfds - 1
  BY <1>1
<1>3. ASSUME NEW j \in 2..nfds - 2
      PROVE  fds[j].fd # newcomer
  <2>1. j \in 2..nfds - 1 /\ j # nfds - 1
    BY <1>1
  <2> QED BY <1>2, <2>1 DEF SlotInv, Exact, tbl, newcomer
<1>4. CASE abandoned(newcomer)
  <2> DEFINE once == shiftOut(tbl, newcomer)
  <2>1. /\ once.nfds = nfds - 1
        /\ \A j \in 0..nfds - 2 : once.fds[j] = fds[j]
        /\ shiftOut(once, newcomer) = once
    BY <1>1, ShiftLast DEF SlotInv
  <2> HIDE DEF once
  <2>2. fds' = once.fds /\ nfds' = once.nfds
    BY <1>4, <2>1 DEF abandoned, once, tbl
  <2>3. /\ conn' = [conn EXCEPT ![newcomer] = Closed]
        /\ clients' = clients \ {newcomer}
        /\ pc' = "walk" /\ i' = i + 1
    BY <1>4 DEF abandoned
  <2>4. nfds' = nfds - 1 /\ \A j \in 0..nfds - 2 : fds'[j] = fds[j]
    BY <2>1, <2>2
  <2>5. Exact(tbl', clients \ {fds[nfds - 1].fd})
    <3>1. \A j \in 2..nfds - 2 : j \in 0..nfds - 2 /\ j # nfds - 1
      BY <1>1
    <3>2. \A j \in 2..nfds - 2 :
             fds'[j].fd = IF j = nfds - 1 THEN fds[nfds - 1].fd ELSE fds[j].fd
      BY <2>4, <3>1
    <3> QED BY <1>2, <2>4, <3>2, ExactRemoved DEF SlotInv
  <2>6. Exact(tbl', clients')
    BY <2>3, <2>5 DEF newcomer
  <2>7. \A g \in Sockets \ {newcomer} : conn'[g] = conn[g]
    BY <1>1, <2>3
  <2>8. About(newcomer)
    <3>1. \A j \in 2..nfds - 2 : j \in 0..nfds - 2
      BY <1>1
    <3> QED BY <1>3, <2>4, <2>7, <3>1 DEF About
  <2> QED BY <1>1, <2>3, <2>6, <2>8, TakenOutOK
<1>5. CASE answered(newcomer)
  <2>1. /\ conn' = [conn EXCEPT ![newcomer] = [conn[newcomer] EXCEPT !.data = FALSE]]
        /\ UNCHANGED <<fds, nfds, clients>>
        /\ \/ UNCHANGED <<pc, i>>
           \/ pc' = "walk" /\ i' = i + 1
    BY <1>5 DEF answered, tables
  <2>2. \A g \in Sockets \ {newcomer} : conn'[g] = conn[g]
    BY <1>1, <2>1
  <2>3. Exact(tbl', clients')
    BY <2>1, ExactUnchanged DEF SlotInv
  <2>4. CASE pc' = "walk" /\ i' = i + 1
    <3>1. About(newcomer)
      BY <1>3, <2>1, <2>2 DEF About
    <3> QED BY <1>1, <2>3, <2>4, <3>1, TakenOutOK
  <2>5. CASE UNCHANGED <<pc, i>>
    <3>1. ASSUME NEW j \in 2..nfds - 2, fds[j].pollin
          PROVE  readable(fds[j].fd)'
      <4>1. j \in 2..nfds - 1 /\ j >= i
        BY <1>1
      <4>2. fds[j].fd \in Sockets \ {newcomer}
        BY <1>3, <4>1 DEF IInv, GoodTable, tbl
      <4>3. readable(fds[j].fd)
        BY <1>1, <3>1, <4>1 DEF SlotInv, ReadyUpTo
      <4> QED BY <2>1, <2>2, <4>2, <4>3 DEF readable
    <3>2. ReadyUpTo(nfds - 2)'
      BY <2>1, <3>1 DEF ReadyUpTo, readable
    <3> QED BY <1>1, <2>3, <2>5, <3>2 DEF SlotInv
  <2> QED BY <2>1, <2>4, <2>5
<1> QED BY <1>4, <1>5 DEF dialogue

(* Whoever's message is read has the slot the walk is at.                  *)
LEMMA SlotMessageOK ==
    ASSUME IInv, SlotInv, handleClientMessage
    PROVE  SlotInv'
<1> DEFINE fd == fds[i].fd
<1>1. /\ fd \in Sockets /\ i' = i + 1 /\ pc' = pc /\ pc = "walk"
      /\ i \in 2..nfds - 1 /\ nfds \in Nat /\ nfds <= FdsSize
      /\ conn \in [Sockets -> ConnRecord] /\ fds \in [0..FdsSize - 1 -> Slot]
  BY AtOK, FdsSizeAssumption
     DEF handleClientMessage, IInv, TypeOK, ConnRecord, GoodTable, tbl
<1>2. ASSUME NEW j \in 2..nfds - 1, j # i
      PROVE  fds[j].fd # fd
  BY <1>1, <1>2 DEF SlotInv, Exact, tbl
<1>3. CASE leave(fd)
  <2>1. /\ conn' = [conn EXCEPT ![fd] = Closed]
        /\ clients' = clients \ {fd}
    BY <1>3 DEF leave
  <2>2. fds' = [fds EXCEPT ![i] = fds[nfds - 1]] /\ nfds' = nfds - 1
    <3>1. slotsOf(fd) = {i} /\ first({i}) = i
      BY <1>1, OnlySlot DEF SlotInv
    <3> QED BY <1>3, <3>1 DEF leave, swapOut
  <2>3. \A j \in 2..nfds - 2 : j \in 0..FdsSize - 1 /\ j \in 2..nfds - 1
    BY <1>1, FdsSizeAssumption
  <2>4. \A j \in 2..nfds - 2 : fds'[j] = IF j = i THEN fds[nfds - 1] ELSE fds[j]
    BY <1>1, <2>2, <2>3
  <2>5. Exact(tbl', clients')
    <3>1. \A j \in 2..nfds - 2 :
             fds'[j].fd = IF j = i THEN fds[nfds - 1].fd ELSE fds[j].fd
      BY <2>4
    <3> QED BY <1>1, <2>1, <2>2, <3>1, ExactRemoved DEF SlotInv
  <2>6. \A g \in Sockets \ {fd} : conn'[g] = conn[g]
    BY <1>1, <2>1
  <2>7. ASSUME NEW j \in 2..nfds - 2, j > i
        PROVE  fds'[j] = fds[j] /\ fds[j].fd # fd
    <3>1. j # i
      BY <1>1, <2>7
    <3> QED BY <1>2, <2>3, <2>4, <3>1
  <2>8. About(fd)
    <3> HIDE DEF fd
    <3> QED BY <2>2, <2>6, <2>7 DEF About
  <2> QED BY <1>1, <2>5, <2>8, TakenOutOK
<1>4. CASE conn' = [conn EXCEPT ![fd].data = FALSE] /\ UNCHANGED tables
  <2>1. \A g \in Sockets \ {fd} : conn'[g] = conn[g]
    BY <1>1, <1>4
  <2>2. UNCHANGED <<fds, nfds, clients>>
    BY <1>4 DEF tables
  <2>3. Exact(tbl', clients')
    BY <2>2, ExactUnchanged DEF SlotInv
  <2>4. ASSUME NEW j \in 2..nfds - 2, j > i
        PROVE  fds'[j] = fds[j] /\ fds[j].fd # fd
    <3>1. j \in 2..nfds - 1 /\ j # i
      BY <1>1, <2>4
    <3> QED BY <1>2, <2>2, <3>1
  <2>5. About(fd)
    <3> HIDE DEF fd
    <3> QED BY <2>1, <2>2, <2>4 DEF About
  <2> QED BY <1>1, <2>3, <2>5, TakenOutOK
<1> QED BY <1>3, <1>4 DEF handleClientMessage

------------------------------------------------------------------------------
(* The theorems.                                                           *)

LEMMA SlotInitOK == Init => SlotInv
<1> SUFFICES ASSUME Init PROVE SlotInv
  OBVIOUS
<1>1. nfds = 2 /\ clients = {} /\ pc = "poll" /\ 2..nfds - 1 = {}
  BY DEF Init
<1>2. Cardinality(clients) = 0
  BY <1>1, FS_EmptySet
<1>3. {fds[j].fd : j \in 2..nfds - 1} = clients
  BY <1>1
<1> QED BY <1>1, <1>2, <1>3 DEF SlotInv, Exact, tbl

(* The invariant of the loop whose connections are accepted or turned away *)
(* before they have a slot.                                                *)
THEOREM SlotInvariance ==
    ASSUME "refused" \notin Kinds
    PROVE  Spec => [](IInv /\ SlotInv)
<1>1. IInv /\ SlotInv /\ [Next]_vars => SlotInv'
  <2> SUFFICES ASSUME IInv, SlotInv, [Next]_vars PROVE SlotInv'
    OBVIOUS
  <2>1. CASE UNCHANGED vars
    <3>1. UNCHANGED <<fds, nfds, i, pc, clients, conn>>
      BY <2>1 DEF vars, tables
    <3>2. i \in Nat
      BY FdsSizeAssumption DEF IInv, TypeOK
    <3>3. \A fd \in Sockets : readable(fd) => readable(fd)'
      BY <3>1 DEF readable
    <3> QED BY <3>1, <3>2, <3>3, QuietOK
  <2>2. CASE Environment
    BY <2>2, SlotEnvironmentOK
  <2>3. CASE Server
    <3>1. CASE brokenPipe
      BY <3>1, SlotLeftOK DEF brokenPipe, abort
    <3> QED BY <2>3, <3>1, SlotPollOK, SlotQuietStepOK, SlotAcceptOK, SlotDialogueOK,
               SlotMessageOK DEF Server
  <2> QED BY <2>1, <2>2, <2>3 DEF Next
<1> QED BY <1>1, SlotInitOK, LoopInvariance, PTL DEF Spec

(* When no irssi client is refused, fds lists every connection once and    *)
(* nothing else, and no descriptor is left open.                           *)
THEOREM SlotsMatch ==
    ASSUME "refused" \notin Kinds
    PROVE  Spec => []SlotsMatchClients
<1>1. IInv /\ SlotInv => SlotsMatchClients
  BY DEF IInv, SlotInv, Exact, tbl, SlotsMatchClients, polled
<1> QED BY <1>1, SlotInvariance, PTL

(* When no irssi client is refused, the one slot that may be read with     *)
(* nothing to read, and stop the loop there, is the last.                  *)
THEOREM OnlyLastStale ==
    ASSUME "refused" \notin Kinds
    PROVE  Spec => []OnlyLastSlotStale
<1>1. IInv /\ SlotInv => OnlyLastSlotStale
  BY DEF SlotInv, ReadyUpTo, OnlyLastSlotStale
<1> QED BY <1>1, SlotInvariance, PTL

(* When no irssi client is refused and there is a slot for each client and *)
(* two more, fds is never written past its end: every accepted connection  *)
(* finds a slot because every slot in use is a client's, and the bound on  *)
(* the clients was tested.                                                 *)
THEOREM SlotsSuffice ==
    ASSUME "refused" \notin Kinds, MaxClients + 2 <= FdsSize
    PROVE  Spec => []NeverOverrun
<1>1. IInv /\ SlotInv => ~ Overrun
  <2> SUFFICES ASSUME IInv, SlotInv, Overrun PROVE FALSE
    OBVIOUS
  <2>1. nfds = 2 + Cardinality(clients) /\ Cardinality(clients) \in Nat
    BY FS_CardinalityType DEF IInv, SlotInv, Exact, tbl
  <2>2. Cardinality(clients) < MaxClients
    BY <2>1, BoundsAssumption DEF Overrun, isServerFull
  <2> QED BY <2>1, <2>2, BoundsAssumption, FdsSizeAssumption DEF Overrun
<1>2. IInv /\ SlotInv /\ NeverOverrun /\ [Next]_vars => NeverOverrun'
  <2> SUFFICES ASSUME IInv, SlotInv, NeverOverrun, [Next]_vars PROVE NeverOverrun'
    OBVIOUS
  <2> USE DEF NeverOverrun
  <2>1. CASE UNCHANGED vars
    BY <2>1 DEF vars
  <2>2. CASE Environment
    BY <2>2, EnvironmentMoves
  <2>3. CASE acceptNewConnection
    BY <1>1, <2>3, AcceptCases DEF Accepted, detectClient, abort
  <2>4. CASE poll \/ skip \/ readStdin \/ endOfRound \/ stopServer \/ handleClientMessage
    BY <2>4 DEF poll, skip, readStdin, endOfRound, stopServer, handleClientMessage
  <2>5. CASE dialogue \/ brokenPipe
    BY <2>5 DEF dialogue, answered, abandoned, brokenPipe, abort
  <2> QED BY <2>1, <2>2, <2>3, <2>4, <2>5 DEF Next, Server
<1>3. Init => NeverOverrun
  BY DEF Init, NeverOverrun
<1> QED BY <1>2, <1>3, SlotInvariance, PTL DEF Spec
==============================================================================
