---------------------------- MODULE DirectoryProofs ----------------------------
(***************************************************************************)
(* Proofs about the two containers of channels, _channels and              *)
(* _channelOrder, for every value of the constants: whatever is joined,    *)
(* left, emptied and expelled from, and also when std::remove is called    *)
(* with a reference into the sequence it works on, the list names exactly  *)
(* the channels of the map, each of them once.                             *)
(***************************************************************************)
EXTENDS IRCServerProofs, Induction

Members(s) == {s[j] : j \in DOMAIN s}
Once(s) == \A j, k \in DOMAIN s : s[j] = s[k] => j = k

(* A sequence of names without repetitions that names the members of D.    *)
Lists(s, D) == s \in Seq(ChannelNames) /\ Members(s) = D /\ Once(s)

DirInv == Lists(channelOrder, DOMAIN channels)

------------------------------------------------------------------------------
(* The operators on _channelOrder.                                         *)

LEMMA AppendLists ==
    ASSUME NEW s, NEW D, Lists(s, D), NEW c \in ChannelNames \ D
    PROVE  Lists(Append(s, c), D \cup {c})
<1> DEFINE t == Append(s, c)
<1>1. s \in Seq(ChannelNames) /\ Len(s) \in Nat /\ DOMAIN s = 1..Len(s)
  BY DEF Lists
<1>2. /\ t \in Seq(ChannelNames)
      /\ DOMAIN t = 1..Len(s) + 1
      /\ t[Len(s) + 1] = c
      /\ \A j \in 1..Len(s) : t[j] = s[j]
  BY <1>1
<1> HIDE DEF t
<1>3. \A j \in 1..Len(s) + 1 : j = Len(s) + 1 \/ j \in 1..Len(s)
  BY <1>1
<1>4. \A j \in 1..Len(s) : j \in 1..Len(s) + 1 /\ s[j] \in D
  BY <1>1 DEF Lists, Members
<1>5. Len(s) + 1 \in 1..Len(s) + 1
  BY <1>1
<1>6. Members(t) = D \cup {c}
  <2>1. \A x \in D : \E j \in 1..Len(s) : s[j] = x
    BY <1>1 DEF Lists, Members
  <2>2. \A x \in D \cup {c} : \E j \in DOMAIN t : t[j] = x
    BY <1>2, <1>4, <1>5, <2>1
  <2>3. \A j \in DOMAIN t : t[j] \in D \cup {c}
    BY <1>2, <1>3, <1>4
  <2> QED BY <2>2, <2>3 DEF Members
<1>7. Once(t)
  BY <1>1, <1>2, <1>3, <1>4 DEF Lists, Once
<1> QED BY <1>2, <1>6, <1>7 DEF Lists, t

(* removeFromOrder drops the names of C and keeps the others in order.     *)
LEMMA RemoveFromOrderLists ==
    ASSUME NEW D, Lists(channelOrder, D), NEW C
    PROVE  Lists(removeFromOrder(C), D \ C)
<1> DEFINE n == Len(channelOrder)
           T == Seq(ChannelNames)
           step == [k \in 1..n |-> [x \in T |->
                       IF channelOrder[k] \in C THEN x ELSE Append(x, channelOrder[k])]]
           body(g) == [k \in 0..n |->
                          IF k = 0 THEN <<>>
                          ELSE IF channelOrder[k] \in C THEN g[k - 1]
                          ELSE Append(g[k - 1], channelOrder[k])]
           kept == CHOOSE g : g = body(g)
           upto(k) == {channelOrder[j] : j \in 1..k}
           Good == {k \in 0..n : Lists(kept[k], upto(k) \ C)}
<1>1. /\ channelOrder \in Seq(ChannelNames) /\ n \in Nat
      /\ DOMAIN channelOrder = 1..n
      /\ \A k \in 1..n : channelOrder[k] \in ChannelNames
  BY DEF Lists
<1>2. removeFromOrder(C) = kept[n]
  BY DEF removeFromOrder
<1>3. kept = body(kept)
  <2>1. step \in [1..n -> [T -> T]] /\ <<>> \in T
    BY <1>1
  <2>2. \A k \in 1..n : \A x \in T :
           step[k][x] = IF channelOrder[k] \in C THEN x ELSE Append(x, channelOrder[k])
    OBVIOUS
  <2> HIDE DEF n, T, step
  <2>3. PICK g \in [0..n -> T] : Follows(g, n, <<>>, step)
    <3>1. n \in Nat
      BY <1>1
    <3> QED BY <2>1, <3>1, Recursion
  <2>4. ASSUME NEW k \in 1..n
        PROVE  g[k] = IF channelOrder[k] \in C THEN g[k - 1]
                      ELSE Append(g[k - 1], channelOrder[k])
    <3>1. g[k - 1] \in T
      BY <1>1
    <3> QED BY <2>2, <2>3, <3>1 DEF Follows
  <2>5. \A k \in 0..n : k # 0 => k \in 1..n
    BY <1>1
  <2>6. g = body(g)
    <3>1. \A k \in 0..n : g[k] = body(g)[k]
      BY <2>3, <2>4, <2>5 DEF Follows
    <3>2. g = [k \in 0..n |-> g[k]] /\ body(g) = [k \in 0..n |-> body(g)[k]]
      BY <2>3
    <3> HIDE DEF body
    <3> QED BY <3>1, <3>2
  <2> HIDE DEF body
  <2> QED BY <2>6
<1> HIDE DEF kept
<1>4. kept[0] = <<>>
  BY <1>1, <1>3
<1>5. ASSUME NEW k \in 1..n
      PROVE  kept[k] = IF channelOrder[k] \in C THEN kept[k - 1]
                       ELSE Append(kept[k - 1], channelOrder[k])
  <2>1. k \in 0..n /\ k # 0
    BY <1>1
  <2> QED BY <1>3, <2>1
<1>6. 0 \in Good
  <2>1. <<>> \in Seq(ChannelNames) /\ DOMAIN <<>> = {} /\ 1..0 = {}
    OBVIOUS
  <2>2. Lists(<<>>, upto(0) \ C)
    BY <2>1 DEF Lists, Members, Once
  <2> QED BY <1>1, <1>4, <2>2
<1>7. ASSUME NEW k \in 1..n, k - 1 \in Good
      PROVE  k \in Good
  <2>1. 1..k = (1..k - 1) \cup {k} /\ k \in 0..n
    BY <1>1
  <2>2. upto(k) = upto(k - 1) \cup {channelOrder[k]}
    BY <2>1
  <2>3. channelOrder[k] \notin upto(k - 1)
    <3>1. \A j \in 1..k - 1 : j \in 1..n /\ j # k
      BY <1>1
    <3> QED BY <1>1, <3>1 DEF Lists, Once
  <2> HIDE DEF upto
  <2>4. Lists(kept[k - 1], upto(k - 1) \ C)
    BY <1>7
  <2>5. CASE channelOrder[k] \in C
    <3>1. upto(k) \ C = upto(k - 1) \ C
      BY <2>2, <2>5
    <3>2. kept[k] = kept[k - 1]
      BY <1>5, <2>5
    <3> QED BY <2>1, <2>4, <3>1, <3>2
  <2>6. CASE channelOrder[k] \notin C
    <3>1. upto(k) \ C = (upto(k - 1) \ C) \cup {channelOrder[k]}
      BY <2>2, <2>6
    <3>2. kept[k] = Append(kept[k - 1], channelOrder[k])
      BY <1>5, <2>6
    <3>3. Lists(kept[k], upto(k) \ C)
      BY <1>1, <2>3, <2>4, <3>1, <3>2, AppendLists
    <3> QED BY <2>1, <3>3
  <2> QED BY <2>5, <2>6
<1>8. n \in Good
  <2> HIDE DEF Good
  <2>1. 0..n \subseteq Good
    BY <1>1, <1>6, <1>7, Induction
  <2> QED BY <1>1, <2>1
<1>9. upto(n) = D
  BY <1>1 DEF Lists, Members
<1> QED BY <1>2, <1>8, <1>9

(* std::remove with a reference to the i-th element of its own sequence:   *)
(* what it compares with changes under it, and since no name is listed     *)
(* twice it still takes out the i-th name and no other.                    *)
LEMMA RemoveInPlaceLists ==
    ASSUME NEW s, NEW D, Lists(s, D), NEW i \in DOMAIN s
    PROVE  Lists(removeInPlace(s, i), D \ {s[i]})
<1> DEFINE n == Len(s)
           next(b, k) == IF b.seq[k] = b.seq[i] THEN b
                         ELSE [seq  |-> [b.seq EXCEPT ![b.kept + 1] = b.seq[k]],
                               kept |-> b.kept + 1]
           body(g) == [k \in 0..n |-> IF k = 0 THEN [seq |-> s, kept |-> 0]
                                               ELSE next(g[k - 1], k)]
           loop == CHOOSE g : g = body(g)
           seqAt(k) == [j \in 1..n |-> IF i <= j /\ j < k THEN s[j + 1] ELSE s[j]]
           keptAt(k) == IF k < i THEN k ELSE k - 1
           closed == [k \in 0..n |-> [seq |-> seqAt(k), kept |-> keptAt(k)]]
           Same == {k \in 0..n : loop[k] = closed[k]}
<1>1. /\ s \in Seq(ChannelNames) /\ n \in Nat /\ i \in 1..n
      /\ DOMAIN s = 1..n
      /\ \A j \in 1..n : s[j] \in ChannelNames
      /\ \A j, k \in 1..n : s[j] = s[k] => j = k
      /\ D = {s[j] : j \in 1..n}
  BY DEF Lists, Once, Members
<1>2. removeInPlace(s, i) = SubSeq(loop[n].seq, 1, loop[n].kept)
  BY DEF removeInPlace
<1>3. \A k \in 0..n : /\ closed[k].seq = seqAt(k) /\ closed[k].kept = keptAt(k)
                      /\ closed[k] = [seq |-> seqAt(k), kept |-> keptAt(k)]
  OBVIOUS
<1>4. closed[0] = [seq |-> s, kept |-> 0]
  <2>1. \A j \in 1..n : ~ (i <= j /\ j < 0)
    BY <1>1
  <2>2. seqAt(0) = [j \in 1..n |-> s[j]]
    BY <2>1
  <2>3. s = [j \in 1..n |-> s[j]]
    BY <1>1
  <2>4. 0 < i /\ 0 \in 0..n
    BY <1>1
  <2> QED BY <1>3, <2>2, <2>3, <2>4
<1>5. ASSUME NEW k \in 1..n
      PROVE  next(closed[k - 1], k) = closed[k]
  <2> DEFINE b == [seq |-> seqAt(k - 1), kept |-> keptAt(k - 1)]
  <2>1. k - 1 \in 0..n /\ k \in 0..n /\ i \in Nat /\ k \in Nat
    BY <1>1
  <2>2. closed[k - 1] = b /\ closed[k] = [seq |-> seqAt(k), kept |-> keptAt(k)]
    BY <1>3, <2>1
  <2>3. /\ seqAt(k - 1)[k] = s[k]
        /\ seqAt(k - 1)[i] = IF i < k - 1 THEN s[i + 1] ELSE s[i]
    BY <1>1, <2>1
  <2>4. CASE k = i
    <3>1. next(b, k) = b
      BY <2>4
    <3>2. \A j \in 1..n : ~ (i <= j /\ j < k - 1) /\ ~ (i <= j /\ j < k)
      BY <1>1, <2>4
    <3>3. seqAt(k) = seqAt(k - 1)
      BY <3>2
    <3>4. keptAt(k) = keptAt(k - 1)
      BY <2>1, <2>4
    <3> HIDE DEF closed, seqAt, keptAt, next
    <3> QED BY <2>2, <3>1, <3>3, <3>4
  <2>5. CASE k # i
    <3>1. s[k] # seqAt(k - 1)[i]
      <4>1. CASE i < k - 1
        <5>1. i + 1 \in 1..n /\ i + 1 # k
          BY <1>1, <2>1, <4>1
        <5> QED BY <1>1, <2>3, <4>1, <5>1
      <4>2. CASE ~ (i < k - 1)
        BY <1>1, <2>3, <2>5, <4>2
      <4> QED BY <4>1, <4>2
    <3>2. next(b, k) = [seq  |-> [seqAt(k - 1) EXCEPT ![keptAt(k - 1) + 1] = s[k]],
                        kept |-> keptAt(k - 1) + 1]
      <4> HIDE DEF seqAt, keptAt
      <4> QED BY <2>3, <3>1
    <3>3. keptAt(k - 1) + 1 = keptAt(k)
      BY <2>1, <2>5
    <3>4. ASSUME NEW j \in 1..n
          PROVE  [seqAt(k - 1) EXCEPT ![keptAt(k)] = s[k]][j] = seqAt(k)[j]
      <4>1. CASE k < i
        <5>1. keptAt(k) = k
          BY <4>1
        <5>2. ~ (i <= j /\ j < k - 1) /\ ~ (i <= j /\ j < k)
          BY <2>1, <4>1
        <5> QED BY <5>1, <5>2
      <4>2. CASE ~ (k < i)
        <5>1. keptAt(k) = k - 1 /\ k - 1 >= i
          BY <2>1, <2>5, <4>2
        <5>2. CASE j = k - 1
          <6>1. seqAt(k)[j] = s[j + 1] /\ j + 1 = k
            BY <2>1, <5>1, <5>2
          <6> QED BY <5>1, <5>2, <6>1
        <5>3. CASE j # k - 1
          <6>1. (i <= j /\ j < k - 1) <=> (i <= j /\ j < k)
            BY <2>1, <5>3
          <6> QED BY <5>1, <5>3, <6>1
        <5> QED BY <5>2, <5>3
      <4> QED BY <4>1, <4>2
    <3>5. [seqAt(k - 1) EXCEPT ![keptAt(k)] = s[k]] = seqAt(k)
      BY <3>4
    <3> HIDE DEF closed, seqAt, keptAt, next
    <3> QED BY <2>2, <3>2, <3>3, <3>5
  <2> QED BY <2>2, <2>4, <2>5
<1> HIDE DEF next
<1>6. loop = body(loop)
  <2>1. \A k \in 0..n : k # 0 => k \in 1..n
    BY <1>1
  <2>2. \A k \in 0..n : closed[k] = body(closed)[k]
    <3> HIDE DEF closed
    <3> QED BY <1>4, <1>5, <2>1
  <2>3. closed = [k \in 0..n |-> closed[k]] /\ body(closed) = [k \in 0..n |-> body(closed)[k]]
    OBVIOUS
  <2> HIDE DEF closed, body
  <2>4. closed = body(closed)
    BY <2>2, <2>3
  <2> QED BY <2>4
<1> HIDE DEF loop, closed
<1>7. loop[0] = [seq |-> s, kept |-> 0] /\ \A k \in 1..n : loop[k] = next(loop[k - 1], k)
  <2>1. 0 \in 0..n /\ \A k \in 1..n : k \in 0..n /\ k # 0
    BY <1>1
  <2> QED BY <1>6, <2>1
<1>8. n \in Same
  <2>1. 0 \in Same
    BY <1>1, <1>4, <1>7
  <2>2. ASSUME NEW k \in 1..n, k - 1 \in Same
        PROVE  k \in Same
    <3>1. k \in 0..n
      OBVIOUS
    <3> QED BY <1>5, <1>7, <2>2, <3>1
  <2> HIDE DEF Same
  <2>3. 0..n \subseteq Same
    BY <1>1, <2>1, <2>2, Induction
  <2> QED BY <1>1, <2>3
<1>9. loop[n].seq = seqAt(n) /\ loop[n].kept = n - 1
  <2>1. n \in 0..n /\ keptAt(n) = n - 1
    <3>1. i \in Nat /\ n \in Nat /\ ~ (n < i)
      BY <1>1
    <3>2. keptAt(n) = n - 1
      BY ONLY <3>1
    <3>3. n \in 0..n
      BY ONLY <3>1
    <3> QED BY <3>2, <3>3
  <2>2. loop[n] = closed[n]
    BY <1>8
  <2> HIDE DEF seqAt, keptAt, body, Same
  <2> QED BY <1>3, <2>1, <2>2
<1> DEFINE r == SubSeq(seqAt(n), 1, n - 1)
<1>10. \A j \in 1..n - 1 : j \in 1..n /\ j + 1 \in 1..n
  BY <1>1
<1>11. seqAt(n) \in [1..n -> ChannelNames]
  <2>1. ASSUME NEW j \in 1..n
        PROVE  seqAt(n)[j] \in ChannelNames
    <3>1. i <= j /\ j < n => j + 1 \in 1..n
      BY <1>1
    <3> QED BY <1>1, <3>1
  <2> QED BY <2>1
<1>12. seqAt(n) \in Seq(ChannelNames) /\ Len(seqAt(n)) = n
  BY <1>1, <1>11
<1>13. \A j \in 1..n - 1 : seqAt(n)[j] = IF i <= j THEN s[j + 1] ELSE s[j]
  BY <1>1, <1>10
<1> HIDE DEF seqAt
<1>14. /\ r \in Seq(ChannelNames) /\ DOMAIN r = 1..n - 1
       /\ \A j \in 1..n - 1 : r[j] = IF i <= j THEN s[j + 1] ELSE s[j]
  BY <1>1, <1>12, <1>13
<1> HIDE DEF r
<1>15. Members(r) = D \ {s[i]}
  <2>1. ASSUME NEW j \in 1..n - 1
        PROVE  r[j] \in D \ {s[i]}
    <3>1. j + 1 # i \/ ~ (i <= j)
      BY <1>1
    <3>2. i <= j \/ j # i
      BY <1>1
    <3> QED BY <1>1, <1>10, <1>14, <3>1, <3>2
  <2>2. ASSUME NEW x \in D \ {s[i]}
        PROVE  \E j \in 1..n - 1 : r[j] = x
    <3>1. PICK k \in 1..n : s[k] = x
      BY <1>1
    <3>2. k # i
      BY <3>1
    <3>3. CASE k < i
      <4>1. k \in 1..n - 1 /\ ~ (i <= k)
        BY <1>1, <3>3
      <4> QED BY <1>14, <3>1, <4>1
    <3>4. CASE ~ (k < i)
      <4>1. k - 1 \in 1..n - 1 /\ i <= k - 1 /\ k - 1 + 1 = k
        BY <1>1, <3>2, <3>4
      <4> QED BY <1>14, <3>1, <4>1
    <3> QED BY <3>3, <3>4
  <2> QED BY <1>14, <2>1, <2>2 DEF Members
<1>16. Once(r)
  <2> DEFINE was(j) == IF i <= j THEN j + 1 ELSE j
  <2>1. \A j \in 1..n - 1 : was(j) \in 1..n /\ r[j] = s[was(j)]
    BY <1>10, <1>14
  <2>2. \A j, k \in 1..n - 1 : was(j) = was(k) => j = k
    BY <1>1
  <2> HIDE DEF was
  <2>3. \A j, k \in 1..n - 1 : r[j] = r[k] => was(j) = was(k)
    BY <1>1, <2>1
  <2> QED BY <1>14, <2>2, <2>3 DEF Once
<1> QED BY <1>2, <1>9, <1>14, <1>15, <1>16 DEF Lists, r
------------------------------------------------------------------------------
(* What the commands do to the two containers.                             *)

LEMMA SameDirectory ==
    ASSUME DirInv, DOMAIN channels' = DOMAIN channels, UNCHANGED channelOrder
    PROVE  DirInv'
BY DEF DirInv, Lists, Members, Once

LEMMA NewDirectory ==
    ASSUME NEW s, NEW D, Lists(s, D), DOMAIN channels' = D, channelOrder' = s
    PROVE  DirInv'
BY DEF DirInv, Lists, Members, Once

LEMMA UpdateSyncs ==
    ASSUME DirInv, NEW c, NEW ch, update(c, ch)
    PROVE  DirInv'
BY SameDirectory DEF update

LEMMA PartAllSyncs ==
    ASSUME DirInv, NEW s, partAllChannels(s)
    PROVE  DirInv'
<1> DEFINE emptied == {c \in DOMAIN channels : channels[c].members = {s}}
<1>1. DOMAIN channels' = DOMAIN channels \ emptied /\ channelOrder' = removeFromOrder(emptied)
  BY DEF partAllChannels
<1> HIDE DEF emptied
<1>2. Lists(removeFromOrder(emptied), DOMAIN channels \ emptied)
  BY RemoveFromOrderLists DEF DirInv
<1> QED BY <1>1, <1>2, NewDirectory

(* order is what one of the two uses of std::remove makes of the list.     *)
LEMMA RemoveMemberFromSyncs ==
    ASSUME DirInv, NEW c, NEW s, NEW order, Lists(order, DOMAIN channels \ {c}),
           removeMemberFrom(c, s, order)
    PROVE  DirInv'
<1>1. CASE destroy({c}, order)
  <2>1. DOMAIN channels' = DOMAIN channels \ {c} /\ channelOrder' = order
    BY <1>1 DEF destroy, Erase, Restrict
  <2> QED BY <2>1, NewDirectory
<1>2. CASE update(c, removeMember(channels[c], s))
  BY <1>2, UpdateSyncs
<1> QED BY <1>1, <1>2 DEF removeMemberFrom

LEMMA JoinSyncs ==
    ASSUME DirInv, NEW f, NEW c \in ChannelNames, NEW k, handleChannel(f, c, k)
    PROVE  DirInv'
<1>1. /\ DOMAIN channels' = DOMAIN channels \cup {c}
      /\ channelOrder' = IF c \in DOMAIN channels THEN channelOrder
                                                  ELSE Append(channelOrder, c)
  BY DEF handleChannel, Put
<1>2. CASE c \in DOMAIN channels
  <2>1. DOMAIN channels \cup {c} = DOMAIN channels
    BY <1>2
  <2> QED BY <1>1, <1>2, <2>1, SameDirectory
<1>3. CASE c \notin DOMAIN channels
  <2>1. Lists(Append(channelOrder, c), DOMAIN channels \cup {c})
    BY <1>3, AppendLists DEF DirInv
  <2>2. channelOrder' = Append(channelOrder, c)
    BY <1>1, <1>3
  <2> QED BY <1>1, <2>1, <2>2, NewDirectory
<1> QED BY <1>2, <1>3

LEMMA ModeSyncs ==
    ASSUME DirInv, NEW f, NEW c, modeCmdClient(f, c)
    PROVE  DirInv'
<1>1. ASSUME UNCHANGED <<channels, channelOrder>>
      PROVE  DirInv'
  BY <1>1, SameDirectory
<1>2. CASE modeICmd(f, c) \/ modeTCmd(f, c)
  BY <1>2, UpdateSyncs DEF modeICmd, modeTCmd
<1>3. CASE modeKCmd(f, c)
  BY <1>3, UpdateSyncs DEF modeKCmd
<1>4. CASE modeLCmd(f, c)
  BY <1>4, UpdateSyncs DEF modeLCmd
<1>5. CASE modeBCmd(f, c)
  BY <1>5, UpdateSyncs DEF modeBCmd
<1>6. CASE \E n \in Nicks : modeOCmd(f, c, n)
  BY <1>1, <1>6, UpdateSyncs DEF modeOCmd
<1> QED BY <1>2, <1>3, <1>4, <1>5, <1>6 DEF modeCmdClient

LEMMA SaySyncs ==
    ASSUME DirInv, NEW f, NEW c, NEW msg, NEW order, say(f, c, msg, order),
           Lists(order, DOMAIN channels \ {c})
    PROVE  DirInv'
<1>1. CASE UNCHANGED <<channels, channelOrder>>
  BY <1>1, SameDirectory
<1> QED BY <1>1, RemoveMemberFromSyncs DEF say

(* Text that is no command names its channel by its place in the list.     *)
LEMMA UnknownCommandSyncs ==
    ASSUME DirInv, NEW f, NEW msg, handleUnknownCommand(f, msg)
    PROVE  DirInv'
<1>1. PICK i \in DOMAIN channelOrder :
         say(f, channelOrder[i], msg, removeInPlace(channelOrder, i))
  BY DEF handleUnknownCommand
<1>2. Lists(removeInPlace(channelOrder, i), DOMAIN channels \ {channelOrder[i]})
  BY RemoveInPlaceLists DEF DirInv
<1> QED BY <1>1, <1>2, SaySyncs

LEMMA StepSyncs ==
    ASSUME DirInv, [Next]_vars
    PROVE  DirInv'
<1>1. ASSUME NEW f \in Connected, NEW c \in ChannelNames, channelCommand(f, c)
      PROVE  DirInv'
  <2>1. Lists(removeFromOrder({c}), DOMAIN channels \ {c})
    BY RemoveFromOrderLists DEF DirInv
  <2>2. CASE \E k \in Keys \cup {NoKey} : handleChannel(f, c, k)
    BY <2>2, JoinSyncs
  <2>3. CASE partCmdClientCommon(f, c)
    BY <2>1, <2>3, RemoveMemberFromSyncs DEF partCmdClientCommon
  <2>4. CASE \E n \in Nicks : kickCmdClient(f, c, n)
    BY <2>4, UpdateSyncs DEF kickCmdClient
  <2>5. CASE \E n \in Nicks : inviteCmdClient(f, c, n)
    BY <2>5, UpdateSyncs DEF inviteCmdClient
  <2>6. CASE modeCmdClient(f, c)
    BY <2>6, ModeSyncs
  <2>7. CASE \E t \in Topics : topicCmdClient(f, c, t)
    BY <2>7, UpdateSyncs DEF topicCmdClient
  <2>8. CASE \E msg \in Messages : sendMessageToChannel(f, c, msg)
    BY <2>1, <2>8, SaySyncs DEF sendMessageToChannel
  <2> QED BY <1>1, <2>2, <2>3, <2>4, <2>5, <2>6, <2>7, <2>8 DEF channelCommand
<1>2. ASSUME NEW f \in Connected, handleClientMessage(f)
      PROVE  DirInv'
  <2>1. CASE disconnect(f)
    BY <2>1, PartAllSyncs DEF disconnect
  <2>2. CASE quitCmdClient(f)
    BY <2>2, PartAllSyncs DEF quitCmdClient
  <2>3. CASE \E n \in ValidNicks : nickCmdClient(f, n)
    BY <2>3, SameDirectory DEF nickCmdClient
  <2>4. CASE \E c \in ChannelNames : channelCommand(f, c)
    BY <1>1, <2>4
  <2>5. CASE \E msg \in Messages : handleUnknownCommand(f, msg)
    BY <2>5, UnknownCommandSyncs
  <2> QED BY <1>2, <2>1, <2>2, <2>3, <2>4, <2>5 DEF handleClientMessage
<1>3. ASSUME NEW fd \in Sockets, acceptNewConnection(fd)
      PROVE  DirInv'
  BY <1>3, SameDirectory DEF acceptNewConnection
<1> QED BY <1>2, <1>3, SameDirectory DEF Next, vars

------------------------------------------------------------------------------
(* The theorems.                                                           *)

(* _channelOrder is a sequence of names of channels that exist, each once, *)
(* and misses none.                                                        *)
THEOREM DirectoryInvariance == Spec => []DirInv
<1>1. Init => DirInv
  BY DEF Init, DirInv, Lists, Members, Once
<1>2. DirInv /\ [Next]_vars => DirInv'
  BY StepSyncs
<1> QED BY <1>1, <1>2, PTL DEF Spec

(* The list and the map of channels agree, each name being listed once.    *)
THEOREM DirectorySynced == Spec => []DirectoryInSync
<1>1. DirInv => DirectoryInSync
  BY DEF DirInv, Lists, Members, Once, DirectoryInSync
<1> QED BY <1>1, DirectoryInvariance, PTL

(* Distinct members have distinct names, so a set of members and the set   *)
(* of their names have as many elements.                                   *)
LEMMA NamesOfMembers ==
    ASSUME NEW M, IsFiniteSet(M), M \subseteq DOMAIN clients,
           \A f, g \in M : clients[f].nick = clients[g].nick => f = g
    PROVE  Cardinality({clients[f].nick : f \in M}) = Cardinality(M)
<1> DEFINE names == {clients[f].nick : f \in M}
           nickOf == [f \in M |-> clients[f].nick]
<1>1. nickOf \in Bijection(M, names)
  BY DEF Bijection, Injection, Surjection, IsInjective
<1> HIDE DEF names, nickOf
<1>2. ExistsBijection(M, names)
  BY <1>1 DEF ExistsBijection
<1>3. Cardinality(names) = Cardinality(M)
  BY <1>2, FS_Bijection
<1> QED BY <1>3 DEF names

(* The empty nickname comes from irssi alone: the netcat dialogue and NICK *)
(* test the name, and the default Client has one.                          *)
LEMMA ClientsNamed ==
    ASSUME "irssi" \notin Kinds
    PROVE  Spec => [](\A f \in Connected : clients[f].nick \in Nicks)
<1> DEFINE Named == \A f \in DOMAIN clients : clients[f].nick \in Nicks
<1>1. Init => Named
  BY DEF Init
<1>2. ASSUME IInv, Named, [Next]_vars
      PROVE  Named'
  <2>1. ASSUME NEW S
        PROVE  \A f \in DOMAIN Touch(clients, S) : Touch(clients, S)[f].nick \in Nicks
    BY <1>2, NicksAssumption DEF Touch, Default
  <2>2. CASE UNCHANGED vars
    BY <1>2, <2>2 DEF vars
  <2>3. ASSUME NEW fd \in Sockets, acceptNewConnection(fd)
        PROVE  Named'
    <3>1. ASSUME NEW n \in Nicks, addUser(fd, n)
          PROVE  Named'
      BY <1>2, <3>1 DEF addUser, Put
    <3>2. CASE registrationAborted(fd) \/ refused(fd)
      BY <1>2, <3>2 DEF registrationAborted, refused
    <3>3. CASE leftUnregistered(fd)
      BY <1>2, <3>3, NicksAssumption DEF leftUnregistered, Put, Default
    <3> QED BY <2>3, <3>1, <3>2, <3>3 DEF acceptNewConnection, detectClient, parsingDataNetcat
  <2>4. CASE \E f \in Connected : disconnect(f)
    BY <2>1, <2>4 DEF disconnect, Erase, Restrict
  <2>5. CASE \E f \in Connected : quitCmdClient(f)
    BY <1>2, <2>5 DEF quitCmdClient, Erase, Restrict
  <2>6. ASSUME NEW f \in Connected, NEW n \in ValidNicks, nickCmdClient(f, n)
        PROVE  Named'
    <3>1. clients' = [clients EXCEPT ![f].nick = n] /\ n \in Nicks /\ f \in DOMAIN clients
      BY <2>6, NicksAssumption DEF nickCmdClient, Connected
    <3>2. \A g \in DOMAIN clients : clients[g] \in ClientRecord
      BY <1>2 DEF IInv, ClientsOK
    <3> QED BY <1>2, <3>1, <3>2 DEF ClientRecord
  <2>7. CASE ChannelStep
    BY <1>2, <2>1, <2>7 DEF ChannelStep
  <2> QED BY <1>2, <2>2, <2>3, <2>4, <2>5, <2>6, <2>7, StepCases
<1>3. IInv /\ Named /\ [Next]_vars => Named'
  BY <1>2
<1>4. Named => \A f \in Connected : clients[f].nick \in Nicks
  BY DEF Connected
<1> QED BY <1>1, <1>3, <1>4, Invariance, PTL DEF Spec

(* When every client registers through netcat, LIST answers every name     *)
(* that is in use, and every channel with as many names as it has members. *)
THEOREM ListsTruthful ==
    ASSUME Kinds = {"netcat"}
    PROVE  Spec => []ListTruthful
<1>1. ASSUME IInv, EveryEntryRegistered, NickOwnership, NicknamesInUse, DirInv,
             \A f \in Connected : clients[f].nick \in Nicks
      PROVE  ListTruthful
  <2>1. /\ Connected = DOMAIN clients
        /\ Live(clients) = DOMAIN clients
        /\ IsFiniteSet(DOMAIN clients)
    <3>1. Connected = DOMAIN clients /\ Live(clients) = DOMAIN clients
      BY <1>1, LiveIsDomain
    <3>2. DOMAIN clients \subseteq Sockets
      BY <1>1, <3>1 DEF IInv, ClientsOK, Connected
    <3> QED BY <3>1, <3>2, SocketsAssumption, FS_Subset
  <2>2. UserList \ {NoNick} = {clients[f].nick : f \in Connected}
    <3>1. \A f \in Connected : clients[f].nick \in nicknames /\ clients[f].nick # NoNick
      BY <1>1, NicksAssumption DEF NickOwnership
    <3> QED BY <1>1, <3>1 DEF UserList, NicknamesInUse
  <2>3. /\ DOMAIN channelList = DOMAIN channelOrder
        /\ \A i \in DOMAIN channelOrder :
              /\ channelList[i].name = channelOrder[i]
              /\ channelList[i].users = channelListMembers(channelOrder[i])
    BY DEF channelList
  <2>4. DOMAIN channels \subseteq {channelList[i].name : i \in DOMAIN channelList}
    BY <1>1, <2>3 DEF DirInv, Lists, Members
  <2>5. ASSUME NEW c \in DOMAIN channels
        PROVE  Cardinality(channelListMembers(c)) = Cardinality(channels[c].members)
    <3>1. channels[c].members \subseteq DOMAIN clients
      BY <1>1, <2>1, ChannelOK DEF mentioned
    <3>2. IsFiniteSet(channels[c].members)
      BY <2>1, <3>1, FS_Subset
    <3>3. \A f, g \in channels[c].members : clients[f].nick = clients[g].nick => f = g
      BY <1>1, <2>1, <3>1 DEF NickOwnership
    <3>4. channels[c].members \cap DOMAIN clients = channels[c].members
      BY <3>1
    <3> QED BY <3>1, <3>2, <3>3, <3>4, NamesOfMembers DEF channelListMembers
  <2>6. \A i \in DOMAIN channelList : channelList[i].name \in DOMAIN channels
    BY <1>1, <2>3 DEF DirInv, Lists, Members
  <2>7. \A i \in DOMAIN channelList :
           Cardinality(channelList[i].users)
               = Cardinality(channels[channelList[i].name].members)
    BY <2>3, <2>5, <2>6
  <2> QED BY <2>2, <2>4, <2>7 DEF ListTruthful
<1>2. "other" \notin Kinds /\ "irssi" \notin Kinds
  OBVIOUS
<1>3. Spec => []EveryEntryRegistered
  BY <1>2, EntriesRegistered
<1>4. Spec => []NickOwnership
  BY NamesOwned
<1>5. Spec => [](\A f \in Connected : clients[f].nick \in Nicks)
  BY <1>2, ClientsNamed
<1> QED BY <1>1, <1>3, <1>4, <1>5, Invariance, NamesInUse, DirectoryInvariance, PTL
==============================================================================
