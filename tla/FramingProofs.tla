---------------------------- MODULE FramingProofs ----------------------------
(***************************************************************************)
(* Proofs about Text and Framing for every value of the constants: what is *)
(* cut into tokens and put together again keeps its tokens, the bot judges *)
(* by them, and a careful client has a line protocol.                      *)
(***************************************************************************)
EXTENDS Framing, Induction

(* The characters of what is typed and looked up.                          *)
Char == {Blank, Newline, Colon} \cup UNION {Range(l) : l \in Typed \cup BuiltInWords}

plainAt(s, Sep, k) == k \in DOMAIN s /\ s[k] \notin Sep

(* A token: not empty and without a separator.                             *)
Token(Sep) == {w \in Seq(Char) : w # <<>> /\ \A k \in DOMAIN w : w[k] \notin Sep}

(* The pieces after one more character, which is no separator and follows  *)
(* one that is none either.                                                *)
longer(words, x) == [words EXCEPT ![Len(words)] = Append(words[Len(words)], x)]

cutStep(s, Sep, k, words) ==
    IF ~ plainAt(s, Sep, k) THEN words
    ELSE IF plainAt(s, Sep, k - 1) THEN longer(words, s[k])
                                   ELSE Append(words, <<s[k]>>)

------------------------------------------------------------------------------
(* The recursive functions of Text.                                        *)

LEMMA LongerType ==
    ASSUME NEW words \in Seq(Seq(Char)), NEW x \in Char
    PROVE  longer(words, x) \in Seq(Seq(Char))
<1>1. [words EXCEPT ![Len(words)] = Append(words[Len(words)], x)] \in Seq(Seq(Char))
  <2>1. CASE words = <<>>
    <3> DEFINE e == Append(words[Len(words)], x)
               u == [words EXCEPT ![Len(words)] = e]
    <3>1. DOMAIN words = {} /\ DOMAIN u = {}
      BY <2>1
    <3>2. u = [k \in {} |-> u[k]] /\ words = [k \in {} |-> words[k]]
      <4> HIDE DEF e
      <4> QED BY <3>1
    <3> HIDE DEF u
    <3>3. u = words
      BY <3>2
    <3> QED BY <3>3 DEF u
  <2>2. CASE words # <<>>
    <3>1. Len(words) \in DOMAIN words
      BY <2>2
    <3>2. Append(words[Len(words)], x) \in Seq(Char)
      BY <3>1
    <3> QED BY <3>1, <3>2
  <2> QED BY <2>1, <2>2
<1> QED BY <1>1 DEF longer

(* pieces is what its loop has after the last character.                   *)
LEMMA PiecesLoop ==
    ASSUME NEW s \in Seq(Char), NEW Sep
    PROVE  \E g \in [0..Len(s) -> Seq(Seq(Char))] :
               /\ pieces(s, Sep) = g[Len(s)]
               /\ g[0] = <<>>
               /\ \A k \in 1..Len(s) : g[k] = cutStep(s, Sep, k, g[k - 1])
<1> DEFINE n == Len(s)
           T == Seq(Seq(Char))
           step == [k \in 1..n |-> [w \in T |-> cutStep(s, Sep, k, w)]]
           body(g) == [k \in 0..n |->
              IF ~ plainAt(s, Sep, k) THEN (IF k = 0 THEN <<>> ELSE g[k - 1])
              ELSE IF plainAt(s, Sep, k - 1)
                   THEN [g[k - 1] EXCEPT ![Len(g[k - 1])] = Append(@, s[k])]
                   ELSE Append(g[k - 1], <<s[k]>>)]
           cut == CHOOSE g : g = body(g)
<1>1. n \in Nat /\ DOMAIN s = 1..n /\ <<>> \in T
  OBVIOUS
<1>2. pieces(s, Sep) = cut[n]
  BY DEF pieces, plainAt
<1>3. step \in [1..n -> [T -> T]]
  <2>1. ASSUME NEW k \in 1..n, NEW w \in T
        PROVE  cutStep(s, Sep, k, w) \in T
    <3>1. s[k] \in Char
      BY <1>1
    <3>2. Append(w, <<s[k]>>) \in T
      BY <3>1
    <3> QED BY <3>1, <3>2, LongerType DEF cutStep
  <2> QED BY <2>1
<1>4. \A k \in 1..n : \A w \in T : step[k][w] = cutStep(s, Sep, k, w)
  OBVIOUS
<1> HIDE DEF step, T
<1>5. PICK f \in [0..n -> T] : Follows(f, n, <<>>, step)
  BY <1>1, <1>3, Recursion
<1>6. /\ f[0] = <<>>
      /\ \A k \in 1..n : f[k] = cutStep(s, Sep, k, f[k - 1])
  <2>1. \A k \in 1..n : k - 1 \in 0..n
    BY <1>1
  <2> QED BY <1>4, <1>5, <2>1 DEF Follows
<1>7. f = body(f)
  <2>1. ASSUME NEW k \in 0..n
        PROVE  f[k] = body(f)[k]
    <3>1. CASE k = 0
      <4>1. ~ plainAt(s, Sep, 0)
        BY <1>1 DEF plainAt
      <4> QED BY <1>6, <3>1, <4>1
    <3>2. CASE k # 0
      <4>1. k \in 1..n
        BY <1>1, <3>2
      <4>2. f[k] = cutStep(s, Sep, k, f[k - 1])
        BY <1>6, <4>1
      <4> QED BY <3>2, <4>2 DEF cutStep, longer
    <3> QED BY <3>1, <3>2
  <2>2. f = [k \in 0..n |-> f[k]] /\ body(f) = [k \in 0..n |-> body(f)[k]]
    BY <1>5
  <2> HIDE DEF body
  <2> QED BY <2>1, <2>2
<1>8. cut = body(cut)
  <2> HIDE DEF body
  <2> QED BY <1>7
<1>9. \A k \in 0..n : cut[k] = f[k]
  <2>1. cut[0] = f[0]
    <3>1. 0 \in 0..n /\ ~ plainAt(s, Sep, 0)
      BY <1>1 DEF plainAt
    <3> HIDE DEF cut
    <3> QED BY <1>6, <1>8, <3>1
  <2>2. ASSUME NEW k \in 1..n, cut[k - 1] = f[k - 1]
        PROVE  cut[k] = f[k]
    <3>1. k \in 0..n /\ k # 0
      BY <1>1
    <3>2. f[k] = cutStep(s, Sep, k, cut[k - 1])
      BY <1>6, <2>2
    <3> HIDE DEF cut
    <3>3. body(cut)[k] = cutStep(s, Sep, k, cut[k - 1])
      BY <3>1 DEF cutStep, longer
    <3> HIDE DEF body
    <3>4. cut[k] = body(cut)[k]
      BY <1>8
    <3> QED BY <3>2, <3>3, <3>4
  <2> HIDE DEF cut, body
  <2>3. \A k \in 1..n : cut[k - 1] = f[k - 1] => cut[k] = f[k]
    BY <2>2
  <2> DEFINE S == {k \in 0..n : cut[k] = f[k]}
  <2>4. 0 \in S
    BY <1>1, <2>1
  <2>5. \A k \in 1..n : k - 1 \in S => k \in S
    BY <1>1, <2>3
  <2> HIDE DEF S
  <2>6. 0..n \subseteq S
    BY <1>1, <2>4, <2>5, Induction
  <2> QED BY <2>6 DEF S
<1>10. n \in 0..n
  BY <1>1
<1> HIDE DEF cut
<1> QED BY <1>2, <1>5, <1>6, <1>9, <1>10 DEF T

LEMMA PiecesEmpty ==
    ASSUME NEW Sep
    PROVE  pieces(<<>>, Sep) = <<>>
<1>1. <<>> \in Seq(Char) /\ Len(<<>>) = 0
  OBVIOUS
<1>2. PICK g \in [0..Len(<<>>) -> Seq(Seq(Char))] :
         pieces(<<>>, Sep) = g[Len(<<>>)] /\ g[0] = <<>>
  BY <1>1, PiecesLoop
<1> QED BY <1>1, <1>2, Zenon

(* One character more.                                                     *)
LEMMA PiecesAppend ==
    ASSUME NEW s \in Seq(Char), NEW x \in Char, NEW Sep
    PROVE  /\ x \in Sep => pieces(Append(s, x), Sep) = pieces(s, Sep)
           /\ x \notin Sep /\ plainAt(s, Sep, Len(s)) =>
                 pieces(Append(s, x), Sep) = longer(pieces(s, Sep), x)
           /\ x \notin Sep /\ ~ plainAt(s, Sep, Len(s)) =>
                 pieces(Append(s, x), Sep) = Append(pieces(s, Sep), <<x>>)
<1> DEFINE n == Len(s)
           m == n + 1
           t == Append(s, x)
<1>1. /\ Len(t) = m /\ n \in Nat /\ m \in 1..m /\ m - 1 = n /\ 1..n \subseteq 1..m
      /\ DOMAIN s = 1..n /\ DOMAIN t = 1..m
      /\ t[m] = x /\ \A k \in 1..n : t[k] = s[k]
  OBVIOUS
<1>0. t \in Seq(Char)
  OBVIOUS
<1> HIDE DEF t, m
<1>2. PICK g \in [0..n -> Seq(Seq(Char))] :
         /\ pieces(s, Sep) = g[n]
         /\ g[0] = <<>>
         /\ \A k \in 1..n : g[k] = cutStep(s, Sep, k, g[k - 1])
  BY PiecesLoop
<1> HIDE DEF n
<1>3. PICK h \in [0..Len(t) -> Seq(Seq(Char))] :
         /\ pieces(t, Sep) = h[Len(t)]
         /\ h[0] = <<>>
         /\ \A k \in 1..Len(t) : h[k] = cutStep(t, Sep, k, h[k - 1])
  BY <1>0, PiecesLoop
<1>4. \A k \in 0..n : plainAt(s, Sep, k) <=> plainAt(t, Sep, k)
  BY <1>1 DEF plainAt
<1>5. \A k \in 1..n : \A w : cutStep(s, Sep, k, w) = cutStep(t, Sep, k, w)
  <2> SUFFICES ASSUME NEW k \in 1..n, NEW w
               PROVE  cutStep(s, Sep, k, w) = cutStep(t, Sep, k, w)
    OBVIOUS
  <2>1. k \in 0..n /\ k - 1 \in 0..n
    BY <1>1
  <2>2. plainAt(s, Sep, k) <=> plainAt(t, Sep, k)
    BY <1>4, <2>1
  <2>3. plainAt(s, Sep, k - 1) <=> plainAt(t, Sep, k - 1)
    BY <1>4, <2>1
  <2>4. s[k] = t[k]
    BY <1>1
  <2> QED BY <2>2, <2>3, <2>4 DEF cutStep
<1>6. g[n] = h[n]
  <2> DEFINE S == {k \in 0..n : g[k] = h[k]}
  <2>1. 0 \in S
    BY <1>1, <1>2, <1>3
  <2>2. ASSUME NEW k \in 1..n, k - 1 \in S
        PROVE  k \in S
    <3>1. k \in 1..Len(t) /\ k \in 0..n
      BY <1>1
    <3>2. h[k] = cutStep(s, Sep, k, g[k - 1])
      BY <1>1, <1>3, <1>5, <2>2, <3>1
    <3> QED BY <1>2, <3>1, <3>2
  <2>3. n \in 0..n
    BY <1>1
  <2> HIDE DEF S
  <2>4. n \in S
    BY <1>1, <2>1, <2>2, <2>3, Induction
  <2> QED BY <2>4 DEF S
<1>7. pieces(t, Sep) = cutStep(t, Sep, m, g[n])
  <2>1. h[m] = cutStep(t, Sep, m, h[m - 1])
    BY <1>1, <1>3
  <2> QED BY <1>1, <1>3, <1>6, <2>1
<1>8. plainAt(t, Sep, m) <=> x \notin Sep
  BY <1>1 DEF plainAt
<1>9. plainAt(t, Sep, m - 1) <=> plainAt(s, Sep, n)
  <2>1. n \in 0..n
    BY <1>1
  <2> QED BY <1>1, <1>4, <2>1
<1>10. /\ x \in Sep => pieces(t, Sep) = pieces(s, Sep)
       /\ x \notin Sep /\ plainAt(s, Sep, n) => pieces(t, Sep) = longer(pieces(s, Sep), x)
       /\ x \notin Sep /\ ~ plainAt(s, Sep, n) =>
             pieces(t, Sep) = Append(pieces(s, Sep), <<x>>)
  BY <1>1, <1>2, <1>7, <1>8, <1>9 DEF cutStep
<1> QED BY <1>10 DEF t, n

------------------------------------------------------------------------------
(* Cutting: pieces are tokens, and a token behind a separator is one.      *)

LEMMA TokenAppend ==
    ASSUME NEW Sep, NEW x \in Char \ Sep, NEW w, w = <<>> \/ w \in Token(Sep)
    PROVE  Append(w, x) \in Token(Sep)
<1>1. w \in Seq(Char) /\ Append(w, x) \in Seq(Char) /\ Append(w, x) # <<>>
  <2>1. CASE w = <<>>
    BY <2>1
  <2>2. CASE w \in Token(Sep)
    BY <2>2 DEF Token
  <2>3. w \in Seq(Char)
    BY <2>1, <2>2
  <2> QED BY <2>3
<1>2. \A k \in DOMAIN Append(w, x) : Append(w, x)[k] \notin Sep
  <2>1. /\ Len(w) \in Nat /\ DOMAIN w = 1..Len(w)
        /\ DOMAIN Append(w, x) = 1..Len(w) + 1
        /\ Append(w, x)[Len(w) + 1] = x
        /\ \A k \in 1..Len(w) : Append(w, x)[k] = w[k]
    BY <1>1
  <2>2. \A k \in 1..Len(w) + 1 : k \in 1..Len(w) \/ k = Len(w) + 1
    BY <2>1
  <2>3. \A k \in 1..Len(w) : w[k] \notin Sep
    BY <2>1 DEF Token
  <2> QED BY <2>1, <2>2, <2>3
<1> QED BY <1>1, <1>2 DEF Token

LEMMA LongerTokens ==
    ASSUME NEW Sep, NEW x \in Char \ Sep, NEW words \in Seq(Token(Sep)), words # <<>>
    PROVE  longer(words, x) \in Seq(Token(Sep)) /\ longer(words, x) # <<>>
<1>1. Len(words) \in DOMAIN words
  OBVIOUS
<1>2. words[Len(words)] \in Token(Sep)
  BY <1>1
<1>3. Append(words[Len(words)], x) \in Token(Sep)
  BY <1>2, TokenAppend
<1> DEFINE e == Append(words[Len(words)], x)
           u == [words EXCEPT ![Len(words)] = e]
<1> HIDE DEF e
<1>4. u \in Seq(Token(Sep)) /\ u # <<>>
  BY <1>1, <1>3 DEF e
<1> QED BY <1>4 DEF longer, e

LEMMA NewToken ==
    ASSUME NEW Sep, NEW x \in Char \ Sep
    PROVE  <<x>> \in Token(Sep)
<1>1. <<x>> = Append(<<>>, x)
  OBVIOUS
<1> QED BY <1>1, TokenAppend

LEMMA LastAppend ==
    ASSUME NEW s \in Seq(Char), NEW x \in Char, NEW Sep
    PROVE  /\ Len(Append(s, x)) = Len(s) + 1
           /\ plainAt(Append(s, x), Sep, Len(Append(s, x))) <=> x \notin Sep
BY DEF plainAt

LEMMA PiecesType ==
    ASSUME NEW s \in Seq(Char), NEW Sep
    PROVE  /\ pieces(s, Sep) \in Seq(Token(Sep))
           /\ plainAt(s, Sep, Len(s)) => pieces(s, Sep) # <<>>
<1> DEFINE good(t) == /\ pieces(t, Sep) \in Seq(Token(Sep))
                      /\ plainAt(t, Sep, Len(t)) => pieces(t, Sep) # <<>>
           T == {t \in Seq(Char) : good(t)}
<1>1. <<>> \in T
  <2>1. <<>> \in Seq(Char) /\ <<>> \in Seq(Token(Sep)) /\ ~ plainAt(<<>>, Sep, Len(<<>>))
    BY DEF plainAt
  <2> QED BY <2>1, PiecesEmpty, Zenon
<1>2. ASSUME NEW t \in Seq(Char), NEW x \in Char, t \in T
      PROVE  Append(t, x) \in T
  <2>1. Append(t, x) \in Seq(Char)
    OBVIOUS
  <2>2. good(t)
    BY <1>2
  <2>3. CASE x \in Sep
    BY <2>1, <2>2, <2>3, PiecesAppend, LastAppend
  <2>4. CASE x \notin Sep /\ plainAt(t, Sep, Len(t))
    <3>1. pieces(Append(t, x), Sep) = longer(pieces(t, Sep), x)
      BY <2>4, PiecesAppend
    <3>2. good(Append(t, x))
      BY <2>2, <2>4, <3>1, LongerTokens
    <3> QED BY <2>1, <3>2
  <2>5. CASE x \notin Sep /\ ~ plainAt(t, Sep, Len(t))
    <3>1. pieces(Append(t, x), Sep) = Append(pieces(t, Sep), <<x>>)
      BY <2>5, PiecesAppend
    <3>2. <<x>> \in Token(Sep)
      BY <2>5, NewToken
    <3> HIDE DEF Token
    <3>3. /\ Append(pieces(t, Sep), <<x>>) \in Seq(Token(Sep))
          /\ Append(pieces(t, Sep), <<x>>) # <<>>
      BY <2>2, <3>2
    <3> QED BY <2>1, <3>1, <3>3
  <2> QED BY <2>3, <2>4, <2>5
<1> HIDE DEF T
<1>3. Seq(Char) \subseteq T
  BY <1>1, <1>2, SequenceInduction
<1> QED BY <1>3 DEF T

LEMMA CharsOK == Blank \in Char /\ Newline \in Char /\ Colon \in Char
BY DEF Char

LEMMA TokensAreTexts ==
    ASSUME NEW Sep
    PROVE  Seq(Token(Sep)) \subseteq Seq(Seq(Char))
<1> SUFFICES ASSUME NEW words \in Seq(Token(Sep)) PROVE words \in Seq(Seq(Char))
  OBVIOUS
<1>1. \A k \in 1..Len(words) : words[k] \in Seq(Char)
  <2>1. \A k \in 1..Len(words) : words[k] \in Token(Sep)
    OBVIOUS
  <2> QED BY <2>1 DEF Token
<1> QED BY <1>1

LEMMA LongerAppend ==
    ASSUME NEW words \in Seq(Seq(Char)), NEW w \in Seq(Char), NEW x \in Char
    PROVE  longer(Append(words, w), x) = Append(words, Append(w, x))
<1> DEFINE u == Append(words, w)
           n == Len(words)
           e == Append(w, x)
<1>1. /\ u \in Seq(Seq(Char)) /\ Len(u) = n + 1 /\ n \in Nat
      /\ u[n + 1] = w /\ \A k \in 1..n : u[k] = words[k]
      /\ DOMAIN u = 1..n + 1 /\ e \in Seq(Char)
  OBVIOUS
<1>2. longer(u, x) = [u EXCEPT ![n + 1] = e]
  BY <1>1 DEF longer
<1> DEFINE l == [u EXCEPT ![n + 1] = e]
           r == Append(words, e)
<1>0. r = [k \in 1..n + 1 |-> r[k]]
  <2>1. r \in Seq(Seq(Char)) /\ DOMAIN r = 1..n + 1
    BY <1>1
  <2> HIDE DEF r, n
  <2> QED BY <2>1
<1> HIDE DEF u, e, n
<1>3. DOMAIN l = 1..n + 1 /\ l[n + 1] = e /\ \A k \in 1..n : l[k] = words[k]
  BY <1>1
<1>4. DOMAIN r = 1..n + 1 /\ r[n + 1] = e /\ \A k \in 1..n : r[k] = words[k]
  BY <1>1 DEF n
<1>5. l = [k \in 1..n + 1 |-> l[k]]
  BY <1>1
<1>6. \A k \in 1..n + 1 : k \in 1..n \/ k = n + 1
  BY <1>1
<1> HIDE DEF l, r
<1>7. l = r
  BY <1>0, <1>3, <1>4, <1>5, <1>6
<1> QED BY <1>2, <1>7 DEF l, r, u, e

(* A token behind a separator, or at the beginning, is the next piece.     *)
LEMMA TokenBehind ==
    ASSUME NEW Sep, NEW b \in Seq(Char), ~ plainAt(b, Sep, Len(b)),
           NEW v \in Token(Sep)
    PROVE  pieces(b \o v, Sep) = Append(pieces(b, Sep), v)
<1> DEFINE good(w) == /\ pieces(b \o w, Sep) = Append(pieces(b, Sep), w)
                      /\ plainAt(b \o w, Sep, Len(b \o w))
           T == {w \in Seq(Char) : w \in Token(Sep) => good(w)}
<1>1. <<>> \in T
  <2>1. <<>> \notin Token(Sep)
    BY DEF Token
  <2>2. <<>> \in Seq(Char)
    OBVIOUS
  <2> QED BY <2>1, <2>2
<1>2. ASSUME NEW w \in Seq(Char), NEW x \in Char, w \in T
      PROVE  Append(w, x) \in T
  <2> SUFFICES ASSUME Append(w, x) \in Token(Sep) PROVE good(Append(w, x))
    <3>1. Append(w, x) \in Seq(Char)
      OBVIOUS
    <3> QED BY <3>1
  <2>1. x \notin Sep /\ (w = <<>> \/ w \in Token(Sep))
    <3>1. \A k \in 1..Len(w) + 1 : Append(w, x)[k] \notin Sep
      <4>1. DOMAIN Append(w, x) = 1..Len(w) + 1
        OBVIOUS
      <4> QED BY <4>1 DEF Token
    <3>2. \A k \in 1..Len(w) : k \in 1..Len(w) + 1 /\ Append(w, x)[k] = w[k]
      OBVIOUS
    <3>3. Len(w) + 1 \in 1..Len(w) + 1 /\ Append(w, x)[Len(w) + 1] = x
      OBVIOUS
    <3> QED BY <3>1, <3>2, <3>3 DEF Token
  <2>2. b \o w \in Seq(Char) /\ b \o Append(w, x) = Append(b \o w, x)
    OBVIOUS
  <2>3. plainAt(b \o Append(w, x), Sep, Len(b \o Append(w, x)))
    <3>1. plainAt(Append(b \o w, x), Sep, Len(Append(b \o w, x)))
      BY <2>1, <2>2, LastAppend
    <3> QED BY <2>2, <3>1, Zenon
  <2>4. CASE w = <<>>
    <3>1. b \o w = b /\ Append(w, x) = <<x>>
      BY <2>4
    <3>2. pieces(Append(b, x), Sep) = Append(pieces(b, Sep), <<x>>)
      BY <2>1, PiecesAppend
    <3> QED BY <2>2, <2>3, <3>1, <3>2
  <2>5. CASE w \in Token(Sep)
    <3>1. good(w)
      BY <1>2, <2>5
    <3>2. pieces(b \o Append(w, x), Sep) = longer(Append(pieces(b, Sep), w), x)
      <4>1. pieces(Append(b \o w, x), Sep) = longer(pieces(b \o w, Sep), x)
        BY <2>1, <2>2, <3>1, PiecesAppend
      <4> QED BY <2>2, <3>1, <4>1, Zenon
    <3>3. pieces(b, Sep) \in Seq(Seq(Char))
      BY PiecesType, TokensAreTexts
    <3>4. longer(Append(pieces(b, Sep), w), x) = Append(pieces(b, Sep), Append(w, x))
      BY <3>3, LongerAppend
    <3> QED BY <2>3, <3>2, <3>4
  <2> QED BY <2>1, <2>4, <2>5
<1> HIDE DEF T
<1>3. Seq(Char) \subseteq T
  BY <1>1, <1>2, SequenceInduction
<1>4. v \in Seq(Char)
  BY DEF Token
<1> QED BY <1>3, <1>4 DEF T

------------------------------------------------------------------------------
(* Putting together: joined, and that cutting undoes it.                   *)

joinStep(words, k, t) == IF k = 1 THEN words[1] ELSE t \o <<Blank>> \o words[k]

LEMMA JoinedLoop ==
    ASSUME NEW words \in Seq(Seq(Char))
    PROVE  \E g \in [0..Len(words) -> Seq(Char)] :
               /\ joined(words) = g[Len(words)]
               /\ g[0] = <<>>
               /\ \A k \in 1..Len(words) : g[k] = joinStep(words, k, g[k - 1])
<1> DEFINE n == Len(words)
           T == Seq(Char)
           step == [k \in 1..n |-> [t \in T |-> joinStep(words, k, t)]]
           body(g) == [k \in 0..n |->
              IF k = 0 THEN <<>>
              ELSE IF k = 1 THEN words[1]
              ELSE g[k - 1] \o <<Blank>> \o words[k]]
           text == CHOOSE g : g = body(g)
<1>1. n \in Nat /\ <<>> \in T /\ \A k \in 1..n : words[k] \in T
  OBVIOUS
<1>2. joined(words) = text[n]
  BY DEF joined
<1>3. step \in [1..n -> [T -> T]]
  <2>1. ASSUME NEW k \in 1..n, NEW t \in T
        PROVE  joinStep(words, k, t) \in T
    <3>1. words[k] \in Seq(Char) /\ <<Blank>> \in Seq(Char)
      BY <1>1, CharsOK
    <3>2. t \o <<Blank>> \o words[k] \in Seq(Char)
      BY <3>1
    <3> QED BY <3>1, <3>2 DEF joinStep
  <2> QED BY <2>1
<1>4. \A k \in 1..n : \A t \in T : step[k][t] = joinStep(words, k, t)
  OBVIOUS
<1> HIDE DEF step, T
<1>5. PICK f \in [0..n -> T] : Follows(f, n, <<>>, step)
  BY <1>1, <1>3, Recursion
<1>6. /\ f[0] = <<>>
      /\ \A k \in 1..n : f[k] = joinStep(words, k, f[k - 1])
  <2>1. \A k \in 1..n : k - 1 \in 0..n
    BY <1>1
  <2> QED BY <1>4, <1>5, <2>1 DEF Follows
<1>7. \A g : \A k \in 1..n : body(g)[k] = joinStep(words, k, g[k - 1])
  <2> SUFFICES ASSUME NEW g, NEW k \in 1..n
               PROVE  body(g)[k] = joinStep(words, k, g[k - 1])
    OBVIOUS
  <2>1. k \in 0..n /\ k # 0
    BY <1>1
  <2> QED BY <2>1 DEF joinStep
<1>8. \A g : body(g)[0] = <<>>
  BY <1>1
<1>9. f = body(f)
  <2>1. \A k \in 0..n : k = 0 \/ k \in 1..n
    BY <1>1
  <2>2. f = [k \in 0..n |-> f[k]] /\ body(f) = [k \in 0..n |-> body(f)[k]]
    BY <1>5
  <2> HIDE DEF body
  <2> QED BY <1>6, <1>7, <1>8, <2>1, <2>2
<1>10. text = body(text)
  <2> HIDE DEF body
  <2> QED BY <1>9
<1> HIDE DEF text, body
<1> DEFINE S == {k \in 0..n : text[k] = f[k]}
<1>11. 0 \in S
  BY <1>1, <1>6, <1>8, <1>10
<1>12. \A k \in 1..n : k - 1 \in S => k \in S
  BY <1>1, <1>6, <1>7, <1>10
<1> HIDE DEF S
<1>13. 0..n \subseteq S
  <2>1. n \in Nat
    BY <1>1
  <2> HIDE DEF n
  <2> QED BY <1>11, <1>12, <2>1, Induction
<1>14. text[n] = f[n]
  <2>1. n \in 0..n
    BY <1>1
  <2> QED BY <1>13, <2>1 DEF S
<1> QED BY <1>2, <1>5, <1>6, <1>14 DEF T

LEMMA JoinedType ==
    /\ joined(<<>>) = <<>>
    /\ \A words \in Seq(Seq(Char)) : joined(words) \in Seq(Char)
<1>1. ASSUME NEW words \in Seq(Seq(Char))
      PROVE  joined(words) \in Seq(Char)
  <2>1. PICK g \in [0..Len(words) -> Seq(Char)] : joined(words) = g[Len(words)]
    BY JoinedLoop
  <2>2. Len(words) \in 0..Len(words)
    OBVIOUS
  <2> QED BY <2>1, <2>2
<1>2. joined(<<>>) = <<>>
  <2>1. <<>> \in Seq(Seq(Char)) /\ Len(<<>>) = 0
    OBVIOUS
  <2>2. PICK g \in [0..Len(<<>>) -> Seq(Char)] :
           joined(<<>>) = g[Len(<<>>)] /\ g[0] = <<>>
    BY <2>1, JoinedLoop
  <2> QED BY <2>1, <2>2, Zenon
<1> QED BY <1>1, <1>2

(* One word more.                                                          *)
LEMMA JoinedAppend ==
    ASSUME NEW words \in Seq(Seq(Char)), NEW w \in Seq(Char)
    PROVE  /\ words = <<>> => joined(Append(words, w)) = w
           /\ words # <<>> =>
                 joined(Append(words, w)) = joined(words) \o <<Blank>> \o w
<1> DEFINE n == Len(words)
           m == n + 1
           u == Append(words, w)
<1>1. /\ Len(u) = m /\ n \in Nat /\ m \in 1..m /\ m - 1 = n /\ 1..n \subseteq 1..m
      /\ u[m] = w /\ \A k \in 1..n : u[k] = words[k]
      /\ n \in 0..n
  OBVIOUS
<1>2. u \in Seq(Seq(Char))
  OBVIOUS
<1>3. words = <<>> <=> n = 0
  OBVIOUS
<1> HIDE DEF u, m, n
<1>4. PICK g \in [0..Len(words) -> Seq(Char)] :
         /\ joined(words) = g[Len(words)]
         /\ g[0] = <<>>
         /\ \A k \in 1..Len(words) : g[k] = joinStep(words, k, g[k - 1])
  BY JoinedLoop
<1>5. PICK h \in [0..Len(u) -> Seq(Char)] :
         /\ joined(u) = h[Len(u)]
         /\ h[0] = <<>>
         /\ \A k \in 1..Len(u) : h[k] = joinStep(u, k, h[k - 1])
  BY <1>2, JoinedLoop
<1> DEFINE S == {k \in 0..n : g[k] = h[k]}
<1>6. 0 \in S
  BY <1>1, <1>4, <1>5
<1>7. ASSUME NEW k \in 1..n, k - 1 \in S
      PROVE  k \in S
  <2>1. k \in 0..n /\ k \in 1..Len(u) /\ n = Len(words)
    BY <1>1 DEF n
  <2>2. words[k] = u[k] /\ (k = 1 => words[1] = u[1])
    BY <1>1
  <2>3. h[k] = joinStep(u, k, h[k - 1]) /\ g[k] = joinStep(words, k, g[k - 1])
    BY <1>4, <1>5, <2>1
  <2> QED BY <1>7, <2>1, <2>2, <2>3 DEF joinStep
<1> HIDE DEF S
<1>8. g[n] = h[n]
  <2>1. n \in S
    BY <1>1, <1>6, <1>7, Induction
  <2> QED BY <2>1 DEF S
<1>9. joined(u) = joinStep(u, m, joined(words))
  <2>1. h[m] = joinStep(u, m, h[m - 1])
    BY <1>1, <1>5
  <2>2. joined(words) = g[n]
    BY <1>4 DEF n
  <2> QED BY <1>1, <1>5, <1>8, <2>1, <2>2
<1>10. n = 0 <=> m = 1
  BY <1>1
<1>11. /\ words = <<>> => joined(u) = w
       /\ words # <<>> => joined(u) = joined(words) \o <<Blank>> \o w
  BY <1>1, <1>3, <1>9, <1>10 DEF joinStep
<1> QED BY <1>11 DEF u

LEMMA TokenType == ASSUME NEW Sep PROVE Token(Sep) \subseteq Seq(Char)
BY DEF Token

(* What was put together from tokens is cut into the same tokens.          *)
LEMMA PiecesOfJoined ==
    ASSUME NEW Sep, Blank \in Sep
    PROVE  \A words \in Seq(Token(Sep)) : pieces(joined(words), Sep) = words
<1> DEFINE good(words) == pieces(joined(words), Sep) = words
           T == {words \in Seq(Token(Sep)) : good(words)}
<1>1. <<>> \in T
  <2>1. <<>> \in Seq(Token(Sep))
    OBVIOUS
  <2>2. good(<<>>)
    BY JoinedType, PiecesEmpty, Zenon
  <2> QED BY <2>1, <2>2, Zenon
<1>2. ASSUME NEW words \in Seq(Token(Sep)), NEW w \in Token(Sep), words \in T
      PROVE  Append(words, w) \in T
  <2>1. Append(words, w) \in Seq(Token(Sep))
    OBVIOUS
  <2>2. words \in Seq(Seq(Char)) /\ w \in Seq(Char)
    BY TokensAreTexts, TokenType
  <2>3. joined(words) \in Seq(Char) /\ good(words)
    BY <1>2, <2>2, JoinedType
  <2>4. CASE words = <<>>
    <3>1. joined(Append(words, w)) = w
      BY <2>2, <2>4, JoinedAppend
    <3>2. <<>> \in Seq(Char) /\ ~ plainAt(<<>>, Sep, Len(<<>>)) /\ <<>> \o w = w
      BY <2>2 DEF plainAt
    <3>3. pieces(w, Sep) = Append(<<>>, w)
      BY <3>2, PiecesEmpty, TokenBehind, Zenon
    <3>4. good(Append(words, w))
      BY <2>4, <3>1, <3>3, Zenon
    <3> QED BY <2>1, <3>4
  <2>5. CASE words # <<>>
    <3> DEFINE b == Append(joined(words), Blank)
    <3>1. joined(Append(words, w)) = joined(words) \o <<Blank>> \o w
      BY <2>2, <2>5, JoinedAppend
    <3>2. joined(words) \o <<Blank>> \o w = b \o w /\ b \in Seq(Char)
      BY <2>2, <2>3, CharsOK
    <3>3. pieces(b, Sep) = words /\ ~ plainAt(b, Sep, Len(b))
      BY <2>3, CharsOK, PiecesAppend, LastAppend
    <3> HIDE DEF b
    <3>4. pieces(b \o w, Sep) = Append(words, w)
      BY <3>2, <3>3, TokenBehind
    <3>5. good(Append(words, w))
      BY <3>1, <3>2, <3>4
    <3> QED BY <2>1, <3>5
  <2> QED BY <2>4, <2>5
<1> HIDE DEF T
<1>3. Seq(Token(Sep)) \subseteq T
  BY <1>1, <1>2, SequenceInduction
<1> QED BY <1>3 DEF T

------------------------------------------------------------------------------
(* The content of a message.                                               *)

LEMMA PartOf ==
    ASSUME NEW S, NEW s \in Seq(S), NEW i \in Int, NEW j \in Int,
           1 <= i, i <= j + 1, j <= Len(s)
    PROVE  /\ SubSeq(s, i, j) \in Seq(S)
           /\ Len(SubSeq(s, i, j)) = j - i + 1
           /\ \A k \in 1..Len(SubSeq(s, i, j)) : SubSeq(s, i, j)[k] = s[i + k - 1]
  OBVIOUS

(* The content begins behind the colon that was put behind the targets, as *)
(* long as neither they nor the name of the command have one.              *)
LEMMA Extracted ==
    ASSUME NEW a \in Seq(Char), NEW c \in Seq(Char), NEW r \in Seq(Char),
           ~ Contains(a, Colon), ~ Contains(c, Colon)
    PROVE  extractMessageContent(a \o <<Blank>> \o c \o <<Colon>> \o r, c) = r
<1> DEFINE p == Len(a)
           q == Len(c)
           z == p + q + 2
           m == a \o <<Blank>> \o c \o <<Colon>> \o r
           at(k) == SubSeq(m, k, k + q - 1) = c
           isFound(k) == k \in DOMAIN m /\ at(k) /\ \A j \in 1..k - 1 : ~ at(j)
           found == CHOOSE k \in DOMAIN m : at(k) /\ \A j \in 1..k - 1 : ~ at(j)
           isPos(k) == k >= found /\ m[k] = Colon /\ \A j \in found..k - 1 : m[j] # Colon
           pos == CHOOSE k \in DOMAIN m : isPos(k)
<1>1. p \in Nat /\ q \in Nat /\ Len(r) \in Nat
  OBVIOUS
<1>2. extractMessageContent(m, c) = SubSeq(m, pos + 1, Len(m))
  BY DEF extractMessageContent
<1>3. /\ m \in Seq(Char) /\ Len(m) = z + Len(r) /\ DOMAIN m = 1..z + Len(r)
      /\ \A k \in 1..p : m[k] = a[k]
      /\ m[p + 1] = Blank
      /\ \A k \in 1..q : m[p + 1 + k] = c[k]
      /\ m[z] = Colon
      /\ \A k \in 1..Len(r) : m[z + k] = r[k]
  BY CharsOK
<1> HIDE DEF m
<1>4. at(p + 2)
  <2> DEFINE u == SubSeq(m, p + 2, p + 1 + q)
  <2>1. u \in Seq(Char) /\ Len(u) = q /\ \A k \in 1..q : u[k] = m[p + 1 + k]
    <3>1. /\ p + 2 \in Int /\ p + 1 + q \in Int /\ p + 2 >= 1
          /\ p + 1 + q <= Len(m) /\ (p + 1 + q) - (p + 2) + 1 = q
          /\ \A k \in 1..q : (p + 2) + k - 1 = p + 1 + k
      BY <1>1, <1>3
    <3>2. /\ u \in Seq(Char) /\ Len(u) = (p + 1 + q) - (p + 2) + 1
          /\ \A k \in 1..Len(u) : u[k] = m[(p + 2) + k - 1]
      BY <1>1, <1>3, <3>1, PartOf
    <3> QED BY <3>1, <3>2
  <2>2. u = c
    <3>1. \A k \in 1..Len(c) : u[k] = c[k]
      BY <1>3, <2>1
    <3>2. u \in Seq(Char) /\ Len(u) = Len(c)
      BY <2>1
    <3> HIDE DEF u
    <3> QED BY <3>1, <3>2
  <2>3. p + 2 + q - 1 = p + 1 + q
    BY <1>1
  <2> QED BY <2>2, <2>3
<1>5. found \in DOMAIN m /\ at(found) /\ \A j \in 1..found - 1 : ~ at(j)
  <2> DEFINE K == {k \in DOMAIN m : at(k)}
  <2>1. p + 2 \in DOMAIN m /\ DOMAIN m \subseteq Nat
    BY <1>1, <1>3
  <2>2. K # {} /\ K \in SUBSET Nat
    BY <1>4, <2>1
  <2> HIDE DEF K
  <2>3. PICK k \in K : \A j \in K : k <= j
    BY <2>2, LeastExists
  <2>4. isFound(k)
    <3>1. k \in 1..z + Len(r) /\ at(k)
      BY <1>3, <2>3 DEF K
    <3>2. \A j \in 1..k - 1 : j \in DOMAIN m /\ ~ (k <= j)
      BY <1>1, <1>3, <3>1
    <3> HIDE DEF at
    <3> QED BY <1>3, <2>3, <3>1, <3>2 DEF K
  <2> HIDE DEF at
  <2> QED BY <2>4
<1> HIDE DEF found
<1>6. found \in 1..p + 2
  <2>1. found \in Nat /\ found >= 1
    BY <1>1, <1>3, <1>5
  <2>2. ~ (p + 2 \in 1..found - 1)
    <3> HIDE DEF at
    <3> QED BY <1>4, <1>5
  <2> QED BY <1>1, <2>1, <2>2
<1>7. \A k \in 1..z - 1 : m[k] # Colon
  <2>1. ASSUME NEW k \in 1..z - 1
        PROVE  m[k] # Colon
    <3>1. CASE k \in 1..p
      BY <1>3, <3>1 DEF Contains
    <3>2. CASE k = p + 1
      BY <1>3, <3>2 DEF Blank, Colon
    <3>3. CASE k > p + 1
      <4>1. k - p - 1 \in 1..q /\ k = p + 1 + (k - p - 1)
        BY <1>1, <3>3
      <4> DEFINE j == k - p - 1
      <4> HIDE DEF j
      <4>2. m[k] = c[j] /\ j \in 1..q
        BY <1>3, <4>1 DEF j
      <4> QED BY <4>2 DEF Contains
    <3> QED BY <1>1, <3>1, <3>2, <3>3
  <2> QED BY <2>1
<1>8. z \in DOMAIN m /\ isPos(z)
  BY <1>1, <1>3, <1>6, <1>7
<1>9. ASSUME NEW k \in DOMAIN m, isPos(k)
      PROVE  k = z
  <2>1. k \in Nat /\ k >= 1 /\ m[k] = Colon
    BY <1>1, <1>3, <1>9
  <2>2. ~ (k <= z - 1)
    BY <1>1, <1>7, <2>1
  <2>3. ~ (z \in found..k - 1)
    BY <1>3, <1>9
  <2>4. z \in Nat /\ found \in Nat /\ found <= z
    BY <1>1, <1>6
  <2> HIDE DEF z
  <2> QED BY <2>1, <2>2, <2>3, <2>4
<1>10. pos = z
  <2> HIDE DEF isPos, z
  <2> QED BY <1>8, <1>9
<1> HIDE DEF pos
<1>11. SubSeq(m, z + 1, Len(m)) = r
  <2> DEFINE s == SubSeq(m, z + 1, z + Len(r))
  <2>1. s \in Seq(Char) /\ Len(s) = Len(r) /\ \A k \in 1..Len(r) : s[k] = m[z + k]
    BY <1>1, <1>3
  <2>2. s = r
    <3> HIDE DEF s, z
    <3> QED BY <1>3, <2>1
  <2> QED BY <1>3, <2>2
<1>12. extractMessageContent(m, c) = r
  BY <1>2, <1>10, <1>11
<1> QED BY <1>12 DEF m

White == {Blank, Newline}

LEMMA SaidTokens ==
    ASSUME NEW tokens \in Seq(Token(White))
    PROVE  said(tokens) \in Seq(Token(White))
<1>1. SubSeq(tokens, 3, Len(tokens)) \in Seq(Token(White))
  OBVIOUS
<1> QED BY <1>1 DEF said

LEMMA ContentIs ==
    ASSUME NEW tokens \in Seq(Token(White)), ~ colonInTarget(tokens)
    PROVE  content(tokens) = joined(said(tokens))
<1>1. CASE ~ isPrivMsg(tokens)
  BY <1>1 DEF content, said
<1>2. CASE isPrivMsg(tokens)
  <2> DEFINE r == joined(SubSeq(tokens, 3, Len(tokens)))
  <2>1. tokens[1] \in Seq(Char) /\ tokens[2] \in Seq(Char)
    <3>1. tokens[1] \in Token(White) /\ tokens[2] \in Token(White)
      BY <1>2 DEF isPrivMsg
    <3> QED BY <3>1, TokenType
  <2>2. r \in Seq(Char)
    BY <1>2, SaidTokens, TokensAreTexts, JoinedType DEF said
  <2>3. ~ Contains(tokens[1], Colon) /\ ~ Contains(tokens[2], Colon)
    BY <1>2, NamesAssumption DEF isPrivMsg, colonInTarget
  <2> HIDE DEF r
  <2>4. extractMessageContent(reconstructedMessage(tokens), tokens[2]) = r
    BY <2>1, <2>2, <2>3, Extracted DEF reconstructedMessage, r
  <2> QED BY <1>2, <2>4 DEF content, said, r
<1> QED BY <1>1, <1>2

(* No word of a text is lost or glued to another.                          *)
LEMMA WordsKept ==
    ASSUME NEW tokens \in Seq(Token(White)), ~ colonInTarget(tokens)
    PROVE  split(content(tokens)) = said(tokens)
BY ContentIs, SaidTokens, PiecesOfJoined DEF split, White

------------------------------------------------------------------------------
(* Lengths: what is put together is no longer than what was cut.           *)

LEMMA LongerJoined ==
    ASSUME NEW words \in Seq(Seq(Char)), words # <<>>, NEW x \in Char
    PROVE  Len(joined(longer(words, x))) = Len(joined(words)) + 1
<1> DEFINE n == Len(words)
           f == SubSeq(words, 1, n - 1)
           w == words[n]
<1>1. /\ f \in Seq(Seq(Char)) /\ w \in Seq(Char) /\ words = Append(f, w)
      /\ Append(w, x) \in Seq(Char) /\ Len(Append(w, x)) = Len(w) + 1
  <2>1. n \in Nat /\ n >= 1
    OBVIOUS
  <2>2. f \in Seq(Seq(Char)) /\ w \in Seq(Char)
    BY <2>1
  <2>3. words = Append(f, w)
    BY <2>1
  <2> HIDE DEF f, w
  <2> QED BY <2>2, <2>3
<1> HIDE DEF f, w
<1>2. longer(words, x) = Append(f, Append(w, x))
  BY <1>1, LongerAppend
<1>3. CASE f = <<>>
  <2>1. joined(words) = w /\ joined(longer(words, x)) = Append(w, x)
    BY <1>1, <1>2, <1>3, JoinedAppend
  <2> QED BY <1>1, <2>1
<1>4. CASE f # <<>>
  <2>1. /\ joined(words) = joined(f) \o <<Blank>> \o w
        /\ joined(longer(words, x)) = joined(f) \o <<Blank>> \o Append(w, x)
    <3>1. joined(words) = joined(f) \o <<Blank>> \o w
      BY <1>1, <1>4, JoinedAppend
    <3>2. Append(w, x) \in Seq(Char)
      BY <1>1
    <3>3. joined(longer(words, x)) = joined(f) \o <<Blank>> \o Append(w, x)
      <4>1. joined(Append(f, Append(w, x))) = joined(f) \o <<Blank>> \o Append(w, x)
        BY <1>1, <1>4, <3>2, JoinedAppend, Zenon
      <4> QED BY <1>2, <4>1, Zenon
    <3> QED BY <3>1, <3>3
  <2>2. joined(f) \in Seq(Char)
    BY <1>1, JoinedType
  <2>3. Len(joined(words)) = Len(joined(f)) + 1 + Len(w)
    BY <1>1, <2>1, <2>2, CharsOK
  <2>4. Len(joined(longer(words, x))) = Len(joined(f)) + 1 + Len(w) + 1
    BY <1>1, <2>1, <2>2, CharsOK
  <2>5. Len(joined(f)) \in Nat /\ Len(w) \in Nat
    BY <1>1, <2>2
  <2> QED BY <2>3, <2>4, <2>5
<1> QED BY <1>3, <1>4

LEMMA PiecesShort ==
    ASSUME NEW s \in Seq(Char), NEW Sep
    PROVE  Len(joined(pieces(s, Sep))) <= Len(s)
<1> DEFINE size(t) == Len(joined(pieces(t, Sep)))
           good(t) == /\ size(t) <= Len(t)
                      /\ pieces(t, Sep) # <<>> /\ ~ plainAt(t, Sep, Len(t)) =>
                            size(t) + 1 <= Len(t)
           T == {t \in Seq(Char) : good(t)}
<1>1. <<>> \in T
  <2>1. joined(pieces(<<>>, Sep)) = <<>>
    BY PiecesEmpty, JoinedType, Zenon
  <2>2. size(<<>>) = 0 /\ Len(<<>>) = 0
    BY <2>1
  <2>3. good(<<>>)
    BY <2>2, PiecesEmpty
  <2>4. <<>> \in Seq(Char)
    OBVIOUS
  <2> QED BY <2>3, <2>4, Zenon
<1>2. ASSUME NEW t \in Seq(Char), NEW x \in Char, t \in T
      PROVE  Append(t, x) \in T
  <2> DEFINE P == pieces(t, Sep)
             u == Append(t, x)
  <2>1. /\ u \in Seq(Char) /\ Len(u) = Len(t) + 1 /\ Len(t) \in Nat
        /\ plainAt(u, Sep, Len(u)) <=> x \notin Sep
    BY LastAppend
  <2>2. P \in Seq(Seq(Char)) /\ good(t) /\ (plainAt(t, Sep, Len(t)) => P # <<>>)
    BY <1>2, PiecesType, TokensAreTexts
  <2>3. size(t) \in Nat
    <3>1. joined(P) \in Seq(Char)
      BY <2>2, JoinedType
    <3> QED BY <3>1
  <2>4. /\ x \in Sep => pieces(u, Sep) = P
        /\ x \notin Sep /\ plainAt(t, Sep, Len(t)) => pieces(u, Sep) = longer(P, x)
        /\ x \notin Sep /\ ~ plainAt(t, Sep, Len(t)) =>
              pieces(u, Sep) = Append(P, <<x>>)
    BY PiecesAppend
  <2>5. P = <<>> => size(t) = 0
    <3>1. ASSUME P = <<>> PROVE joined(P) = <<>>
      BY <3>1, JoinedType, Zenon
    <3> QED BY <3>1
  <2> HIDE DEF u
  <2>6. CASE x \in Sep
    <3>1. size(u) = size(t)
      BY <2>4, <2>6
    <3>2. good(u)
      <4> HIDE DEF P, size
      <4> QED BY <2>1, <2>2, <2>3, <2>6, <3>1
    <3> QED BY <2>1, <3>2 DEF u
  <2>7. CASE x \notin Sep /\ plainAt(t, Sep, Len(t))
    <3>1. size(u) = size(t) + 1
      BY <2>2, <2>4, <2>7, LongerJoined
    <3>2. good(u)
      <4> HIDE DEF P, size
      <4> QED BY <2>1, <2>2, <2>3, <2>7, <3>1
    <3> QED BY <2>1, <3>2 DEF u
  <2>8. CASE x \notin Sep /\ ~ plainAt(t, Sep, Len(t))
    <3>1. <<x>> \in Seq(Char) /\ Len(<<x>>) = 1
      OBVIOUS
    <3>2. CASE P = <<>>
      <4>1. joined(pieces(u, Sep)) = <<x>>
        BY <2>2, <2>4, <2>8, <3>1, <3>2, JoinedAppend
      <4>2. size(u) = 1
        BY <3>1, <4>1
      <4> HIDE DEF P, size
      <4>3. good(u)
        BY <2>1, <2>8, <4>2
      <4> QED BY <2>1, <4>3 DEF u
    <3>3. CASE P # <<>>
      <4>1. joined(pieces(u, Sep)) = joined(P) \o <<Blank>> \o <<x>>
        BY <2>2, <2>4, <2>8, <3>1, <3>3, JoinedAppend
      <4>2. joined(P) \in Seq(Char)
        BY <2>2, JoinedType
      <4>3. size(u) = size(t) + 2
        BY <3>1, <4>1, <4>2, CharsOK
      <4> HIDE DEF size
      <4>4. good(u)
        BY <2>1, <2>2, <2>3, <2>8, <3>3, <4>3
      <4> QED BY <2>1, <4>4 DEF u
    <3> QED BY <3>2, <3>3
  <2> QED BY <2>6, <2>7, <2>8
<1> HIDE DEF T
<1>3. Seq(Char) \subseteq T
  BY <1>1, <1>2, SequenceInduction
<1> QED BY <1>3 DEF T

LEMMA ConcatAppend ==
    ASSUME NEW S, NEW p \in Seq(S), p # <<>>, NEW r \in Seq(S), NEW x \in S
    PROVE  /\ p \o r \in Seq(S) /\ p \o r # <<>>
           /\ p \o Append(r, x) = Append(p \o r, x)
           /\ Append(r, x) \in Seq(S)
<1>1. p \o r \in Seq(S) /\ Append(r, x) \in Seq(S)
  OBVIOUS
<1>2. p \o r # <<>>
  OBVIOUS
<1>3. p \o Append(r, x) = Append(p \o r, x)
  OBVIOUS
<1> QED BY <1>1, <1>2, <1>3

LEMMA RestShort ==
    ASSUME NEW a \in Seq(Char), NEW b \in Seq(Char)
    PROVE  \A rest \in Seq(Seq(Char)) :
              Len(joined(rest)) <= Len(joined(<<a, b>> \o rest))
<1> DEFINE good(rest) == Len(joined(rest)) <= Len(joined(<<a, b>> \o rest))
           T == {rest \in Seq(Seq(Char)) : good(rest)}
<1>1. <<>> \in T
  <2>1. Len(joined(<<>>)) = 0
    <3>1. joined(<<>>) = <<>>
      BY JoinedType
    <3> QED BY <3>1
  <2>2. <<a, b>> \o <<>> \in Seq(Seq(Char)) /\ <<>> \in Seq(Seq(Char))
    OBVIOUS
  <2>3. joined(<<a, b>> \o <<>>) \in Seq(Char)
    BY <2>2, JoinedType, Zenon
  <2>4. Len(joined(<<a, b>> \o <<>>)) \in Nat
    BY <2>3
  <2>5. good(<<>>)
    BY <2>1, <2>4
  <2> QED BY <2>2, <2>5, Zenon
<1>2. ASSUME NEW rest \in Seq(Seq(Char)), NEW w \in Seq(Char), rest \in T
      PROVE  Append(rest, w) \in T
  <2> DEFINE all == <<a, b>> \o rest
  <2>1. /\ all \in Seq(Seq(Char)) /\ all # <<>>
        /\ <<a, b>> \o Append(rest, w) = Append(all, w)
        /\ Append(rest, w) \in Seq(Seq(Char))
    <3> HIDE DEF T
    <3>1. <<a, b>> \in Seq(Seq(Char)) /\ <<a, b>> # <<>>
      OBVIOUS
    <3> QED BY <3>1, ConcatAppend
  <2>2. joined(all) \in Seq(Char) /\ joined(rest) \in Seq(Char)
    BY <2>1, JoinedType
  <2>3. good(rest)
    BY <1>2
  <2>4. joined(Append(all, w)) = joined(all) \o <<Blank>> \o w
    BY <2>1, JoinedAppend
  <2>5. Len(joined(Append(all, w))) = Len(joined(all)) + 1 + Len(w)
    BY <2>2, <2>4, CharsOK
  <2>6. Len(joined(Append(rest, w))) <= Len(joined(rest)) + 1 + Len(w)
    <3>1. CASE rest = <<>>
      <4>1. joined(Append(rest, w)) = w
        BY <3>1, JoinedAppend
      <4> QED BY <2>2, <4>1
    <3>2. CASE rest # <<>>
      <4>1. joined(Append(rest, w)) = joined(rest) \o <<Blank>> \o w
        BY <3>2, JoinedAppend
      <4> QED BY <2>2, <4>1, CharsOK
    <3> QED BY <3>1, <3>2
  <2>7. /\ Len(joined(all)) \in Nat /\ Len(joined(rest)) \in Nat /\ Len(w) \in Nat
        /\ Len(joined(Append(rest, w))) \in Nat
    <3>1. joined(Append(rest, w)) \in Seq(Char)
      BY <2>1, JoinedType
    <3> QED BY <2>2, <3>1
  <2>8. Len(joined(Append(rest, w))) <= Len(joined(Append(all, w)))
    <3> HIDE DEF all
    <3>1. Len(joined(rest)) <= Len(joined(all))
      BY <2>3 DEF all
    <3> QED BY <2>5, <2>6, <2>7, <3>1
  <2>9. good(Append(rest, w))
    BY <2>1, <2>8
  <2> QED BY <2>1, <2>9
<1> HIDE DEF T
<1>3. Seq(Seq(Char)) \subseteq T
  BY <1>1, <1>2, SequenceInduction
<1> QED BY <1>3 DEF T

(* A text is never longer than the message it came in.                     *)
LEMMA SaidShort ==
    ASSUME NEW message \in Seq(Char)
    PROVE  Len(joined(said(split(message)))) <= Len(message)
<1> DEFINE tokens == split(message)
<1>1. tokens \in Seq(Seq(Char)) /\ Len(joined(tokens)) <= Len(message)
  BY PiecesType, TokensAreTexts, PiecesShort DEF split
<1>2. CASE ~ isPrivMsg(tokens)
  BY <1>1, <1>2 DEF said
<1>3. CASE isPrivMsg(tokens)
  <2> DEFINE rest == SubSeq(tokens, 3, Len(tokens))
  <2> HIDE DEF tokens
  <2>1. /\ tokens[1] \in Seq(Char) /\ tokens[2] \in Seq(Char) /\ rest \in Seq(Seq(Char))
        /\ tokens = <<tokens[1], tokens[2]>> \o rest
    BY <1>1, <1>3 DEF isPrivMsg
  <2>2. said(tokens) = rest
    BY <1>3 DEF said
  <2> HIDE DEF rest
  <2>3. Len(joined(rest)) <= Len(joined(tokens))
    BY <2>1, RestShort
  <2>4. Len(joined(rest)) \in Nat /\ Len(joined(tokens)) \in Nat /\ Len(message) \in Nat
    <3>1. joined(rest) \in Seq(Char) /\ joined(tokens) \in Seq(Char)
      BY <1>1, <2>1, JoinedType
    <3> QED BY <3>1
  <2>5. Len(joined(said(tokens))) <= Len(message)
    BY <1>1, <2>2, <2>3, <2>4
  <2> QED BY <2>5 DEF tokens
<1> QED BY <1>2, <1>3

------------------------------------------------------------------------------
(* The invariant: what was executed last are the tokens of a message that  *)
(* was received and short, and a careful client has a line under way or    *)
(* nothing.                                                                *)

Received(tokens) ==
    \E message \in Seq(Char) : Len(message) <= MaxTopicSize /\ tokens = split(message)

LineInv ==
    /\ careful \subseteq Clients
    /\ pending \in [Clients -> Seq(Char)]
    /\ DOMAIN command = Clients
    /\ \A c \in Clients : command[c] = <<>> \/ Received(command[c])
    /\ \A c \in careful :
          pending[c] = <<>> \/ \E l \in Typed : short(l) /\ pending[c] = line(l)

LEMMA LineType ==
    ASSUME NEW l \in Typed
    PROVE  l \in Seq(Char) /\ line(l) \in Seq(Char) /\ line(l) # <<>>
<1>1. l \in Seq(Range(l)) /\ Range(l) \subseteq Char
  BY TypedAssumption DEF Char
<1>2. l \in Seq(Char)
  BY <1>1
<1> QED BY <1>2, CharsOK DEF line

(* The end of a line is no part of a token.                                *)
LEMMA SplitLine ==
    ASSUME NEW l \in Typed
    PROVE  split(line(l)) = split(l)
<1>1. line(l) = Append(l, Newline)
  BY LineType DEF line
<1> QED BY <1>1, LineType, CharsOK, PiecesAppend DEF split

LEMMA SplitNothing == split(<<>>) = <<>>
BY PiecesEmpty DEF split

LEMMA MessageOK ==
    ASSUME LineInv, NEW c \in Clients, handleClientMessage(c)
    PROVE  /\ \E n \in 1..Len(pending[c]) :
                 LET message == SubSeq(pending[c], 1, n) IN
                 /\ message \in Seq(Char)
                 /\ recv(c, n)
                 /\ command' = IF isTooLong(message) \/ split(message) = <<>> THEN command
                               ELSE [command EXCEPT ![c] = split(message)]
                 /\ ~ isTooLong(message) => Len(message) <= MaxTopicSize
           /\ UNCHANGED careful
<1>1. PICK n \in 1..Len(pending[c]) :
         /\ recv(c, n)
         /\ command' = IF isTooLong(SubSeq(pending[c], 1, n))
                          \/ split(SubSeq(pending[c], 1, n)) = <<>> THEN command
                       ELSE [command EXCEPT ![c] = split(SubSeq(pending[c], 1, n))]
         /\ UNCHANGED careful
  BY DEF handleClientMessage
<1> DEFINE message == SubSeq(pending[c], 1, n)
<1>2. pending[c] \in Seq(Char)
  BY DEF LineInv
<1>3. message \in Seq(Char) /\ Len(message) \in Nat
  BY <1>2
<1> HIDE DEF message
<1>4. ~ isTooLong(message) => Len(message) <= MaxTopicSize
  BY <1>3, SizesAssumption DEF isTooLong
<1> QED BY <1>1, <1>3, <1>4 DEF message

LEMMA LineInvStep ==
    ASSUME LineInv, [Next]_vars
    PROVE  LineInv'
<1>1. CASE UNCHANGED vars
  BY <1>1 DEF vars, LineInv, Received, short, line, split
<1>2. ASSUME NEW c \in Clients, handleClientMessage(c)
      PROVE  LineInv'
  <2>1. PICK n \in 1..Len(pending[c]) :
           LET message == SubSeq(pending[c], 1, n) IN
           /\ message \in Seq(Char)
           /\ recv(c, n)
           /\ command' = IF isTooLong(message) \/ split(message) = <<>> THEN command
                         ELSE [command EXCEPT ![c] = split(message)]
           /\ ~ isTooLong(message) => Len(message) <= MaxTopicSize
    BY <1>2, MessageOK
  <2> DEFINE message == SubSeq(pending[c], 1, n)
             rest == SubSeq(pending[c], n + 1, Len(pending[c]))
  <2>2. UNCHANGED careful
    BY <1>2, MessageOK
  <2>3. pending[c] \in Seq(Char) /\ rest \in Seq(Char)
    BY DEF LineInv
  <2>4. pending' = [pending EXCEPT ![c] = rest]
    BY <2>1 DEF recv
  <2>5. c \in careful => rest = <<>>
    <3>1. c \in careful => n = Len(pending[c])
      BY <2>1 DEF recv
    <3> QED BY <2>3, <3>1
  <2>6. \/ command' = command
        \/ /\ command' = [command EXCEPT ![c] = split(message)]
           /\ Received(split(message))
    BY <2>1 DEF Received
  <2> HIDE DEF message, rest
  <2>7. pending' \in [Clients -> Seq(Char)]
    BY <2>3, <2>4 DEF LineInv
  <2>8. /\ DOMAIN command' = Clients
        /\ \A d \in Clients : command'[d] = <<>> \/ Received(command'[d])
    BY <2>6 DEF LineInv
  <2>9. \A d \in careful :
           pending'[d] = <<>> \/ \E l \in Typed : short(l) /\ pending'[d] = line(l)
    BY <2>4, <2>5 DEF LineInv
  <2> QED BY <2>2, <2>7, <2>8, <2>9 DEF LineInv, Received, short, line, split
<1>3. ASSUME NEW c \in Clients, NEW l \in Typed, write(c, l)
      PROVE  LineInv'
  <2>1. /\ pending' = [pending EXCEPT ![c] = pending[c] \o line(l)]
        /\ careful' = careful /\ command' = command
        /\ c \in careful => pending[c] = <<>> /\ short(l)
    BY <1>3 DEF write
  <2>2. pending[c] \o line(l) \in Seq(Char)
    BY LineType DEF LineInv
  <2>3. pending' \in [Clients -> Seq(Char)]
    BY <2>1, <2>2 DEF LineInv
  <2>4. c \in careful => pending[c] \o line(l) = line(l)
    BY <2>1, LineType
  <2>5. \A d \in careful :
           pending'[d] = <<>> \/ \E k \in Typed : short(k) /\ pending'[d] = line(k)
    <3> SUFFICES ASSUME NEW d \in careful
                 PROVE  \/ pending'[d] = <<>>
                        \/ \E k \in Typed : short(k) /\ pending'[d] = line(k)
      OBVIOUS
    <3>1. CASE d = c
      BY <2>1, <2>4, <3>1 DEF LineInv
    <3>2. CASE d # c
      <4>1. pending'[d] = pending[d]
        BY <2>1, <3>2 DEF LineInv
      <4> QED BY <4>1 DEF LineInv
    <3> QED BY <3>1, <3>2
  <2> QED BY <2>1, <2>3, <2>5 DEF LineInv, Received, short, line, split
<1> QED BY <1>1, <1>2, <1>3 DEF Next

(* However the stream is cut, what was executed last is one short message, *)
(* and a careful client never has more than one line under way.            *)
THEOREM LineInvariance == Spec => []LineInv
<1>1. Init => LineInv
  <2>1. <<>> \in Seq(Char)
    OBVIOUS
  <2> QED BY <2>1 DEF Init, LineInv
<1> QED BY <1>1, LineInvStep, PTL DEF Spec

------------------------------------------------------------------------------
(* The theorems.                                                           *)

LEMMA TextsReceived ==
    ASSUME LineInv, NEW tokens \in texts
    PROVE  /\ tokens \in Seq(Token(White)) /\ Received(tokens)
           /\ ~ colonInTarget(tokens)
<1>1. PICK c \in Clients : tokens = command[c]
  BY DEF texts
<1>2. isText(tokens) /\ ~ colonInTarget(tokens)
  BY DEF texts
<1>3. tokens # <<>>
  BY <1>2 DEF isText, isPrivMsg, isPlainText
<1>4. Received(tokens)
  BY <1>1, <1>3 DEF LineInv
<1>5. tokens \in Seq(Token(White))
  BY <1>4, PiecesType DEF Received, split, White
<1> QED BY <1>2, <1>4, <1>5

(* No word of a text is lost or glued to another while it is taken apart   *)
(* and put together, whatever piece of the stream it came from.            *)
THEOREM ContentsIntact == Spec => []ContentIntact
<1>1. LineInv => ContentIntact
  BY TextsReceived, WordsKept DEF ContentIntact
<1> QED BY <1>1, LineInvariance, PTL

LEMMA BannedWord ==
    ASSUME NEW word \in Token(White)
    PROVE  isBannedWord(word) <=> bare(word) \in BuiltInWords \/ word \in AddedWords
<1>1. word \in Seq(Char) /\ word # <<>>
  BY DEF Token
<1>2. CASE word[1] = Colon
  <2>1. word = <<Colon>> \o Tail(word)
    BY <1>1, <1>2
  <2>2. word \notin BuiltInWords
    BY <1>2, WordsAssumption
  <2>3. \A v \in BuiltInWords : word = <<Colon>> \o v => Tail(word) = v
    <3>1. \A v \in BuiltInWords : v \in Seq(Range(v))
      BY WordsAssumption
    <3>2. ASSUME NEW v \in BuiltInWords PROVE Tail(<<Colon>> \o v) = v
      BY <3>1
    <3> QED BY <3>2
  <2>4. bare(word) = Tail(word)
    BY <1>2 DEF bare
  <2>5. word \in initializeBannedWords <=> Tail(word) \in BuiltInWords
    BY <2>1, <2>2, <2>3 DEF initializeBannedWords
  <2> QED BY <2>4, <2>5 DEF isBannedWord
<1>3. CASE word[1] # Colon
  <2>1. \A v \in BuiltInWords : word # <<Colon>> \o v
    <3>1. \A v \in BuiltInWords : v \in Seq(Range(v))
      BY WordsAssumption
    <3>2. ASSUME NEW v \in BuiltInWords PROVE (<<Colon>> \o v)[1] = Colon
      BY <3>1
    <3> QED BY <1>3, <3>2
  <2>2. bare(word) = word
    BY <1>3 DEF bare
  <2>3. word \in initializeBannedWords <=> word \in BuiltInWords
    BY <2>1 DEF initializeBannedWords
  <2> QED BY <2>2, <2>3 DEF isBannedWord
<1> QED BY <1>2, <1>3

LEMMA NeverTooLong ==
    ASSUME NEW tokens, Received(tokens), ~ colonInTarget(tokens)
    PROVE  ~ tooLong(tokens)
<1>1. PICK message \in Seq(Char) : Len(message) <= MaxTopicSize /\ tokens = split(message)
  BY DEF Received
<1>2. tokens \in Seq(Token(White))
  BY <1>1, PiecesType DEF split, White
<1>3. content(tokens) = joined(said(tokens))
  BY <1>2, ContentIs
<1>4. Len(content(tokens)) <= Len(message)
  BY <1>1, <1>3, SaidShort
<1>5. Len(content(tokens)) \in Nat /\ Len(message) \in Nat
  <2>1. content(tokens) \in Seq(Char)
    BY <1>2, <1>3, SaidTokens, TokensAreTexts, JoinedType
  <2> QED BY <2>1
<1> QED BY <1>1, <1>4, <1>5, SizesAssumption DEF tooLong

(* The bot expels nobody without a word of its lists in the text; a        *)
(* built-in word, with or without a colon, and an added word as it was     *)
(* given do not get past it; and no text is too long for it.               *)
THEOREM BotIsJust == Spec => []BotJudges
<1>1. ASSUME LineInv, NEW tokens \in texts, toChannel(tokens)
      PROVE  expels(tokens) <=>
                \E word \in ToSet(said(tokens)) :
                    bare(word) \in BuiltInWords \/ word \in AddedWords
  <2>1. /\ tokens \in Seq(Token(White)) /\ Received(tokens)
        /\ ~ colonInTarget(tokens)
    BY <1>1, TextsReceived
  <2>2. split(content(tokens)) = said(tokens) /\ ~ tooLong(tokens)
    BY <2>1, WordsKept, NeverTooLong
  <2>3. expels(tokens) <=> \E j \in DOMAIN said(tokens) : isBannedWord(said(tokens)[j])
    BY <1>1, <2>2 DEF expels, checkBannedWords
  <2>4. \A j \in DOMAIN said(tokens) : said(tokens)[j] \in Token(White)
    <3>1. said(tokens) \in Seq(Token(White))
      BY <2>1, SaidTokens
    <3> QED BY <3>1
  <2>5. \A word \in ToSet(said(tokens)) :
           isBannedWord(word) <=> bare(word) \in BuiltInWords \/ word \in AddedWords
    BY <2>4, BannedWord DEF ToSet
  <2>6. expels(tokens) <=> \E word \in ToSet(said(tokens)) : isBannedWord(word)
    BY <2>3 DEF ToSet
  <2> QED BY <2>5, <2>6
<1>2. ASSUME LineInv, NEW tokens \in texts, toChannel(tokens), expels(tokens)
      PROVE  \E word \in ToSet(said(tokens)) :
                {word, bare(word)} \cap (BuiltInWords \cup AddedWords) # {}
  <2>1. PICK word \in ToSet(said(tokens)) :
           bare(word) \in BuiltInWords \/ word \in AddedWords
    BY <1>1, <1>2
  <2>2. {word, bare(word)} \cap (BuiltInWords \cup AddedWords) # {}
    BY <2>1
  <2> QED BY <2>2
<1>3. LineInv => BotJudges
  BY <1>1, <1>2 DEF BotJudges
<1> QED BY <1>3, LineInvariance, PTL

------------------------------------------------------------------------------
(* Careful clients have a line protocol.                                   *)

written == ofCareful([c \in Clients |-> typedBy(c)])
done == ofCareful(command)

LEMMA WriteWaits ==
    ASSUME LineInv, NEW c \in Clients, NEW l \in Typed, write(c, l)
    PROVE  [Promise!Next]_(Promise!vars)
<1>1. /\ pending' = [pending EXCEPT ![c] = pending[c] \o line(l)]
      /\ careful' = careful /\ command' = command
      /\ c \in careful => pending[c] = <<>>
  BY DEF write
<1>2. done' = done
  BY <1>1 DEF done, ofCareful
<1>3. \A d \in Clients : d # c => typedBy(d)' = typedBy(d)
  BY <1>1 DEF typedBy, LineInv
<1>4. CASE c \notin careful
  <2>1. written' = written
    BY <1>1, <1>3, <1>4 DEF written, ofCareful
  <2> QED BY <1>2, <2>1 DEF Promise!vars, written, done
<1>5. CASE c \in careful
  <2>1. pending'[c] = line(l)
    BY <1>1, <1>5, LineType DEF LineInv
  <2>2. typedBy(c) = <<>>
    BY <1>1, <1>5, SplitNothing DEF typedBy
  <2>3. typedBy(c)' = IF split(l) = <<>> THEN <<>> ELSE <<split(l)>>
    BY <2>1, SplitLine DEF typedBy, split
  <2>4. CASE split(l) = <<>>
    <3>1. typedBy(c)' = typedBy(c)
      BY <2>2, <2>3, <2>4
    <3>2. written' = written
      BY <1>1, <1>3, <3>1 DEF written, ofCareful
    <3> QED BY <1>2, <3>2 DEF Promise!vars, written, done
  <2>5. CASE split(l) # <<>>
    <3>1. written' = [written EXCEPT ![c] = Append(written[c], split(l))]
      <4>1. written[c] = <<>> /\ Append(<<>>, split(l)) = <<split(l)>>
        BY <1>5, <2>2 DEF written, ofCareful
      <4>2. \A d \in Clients : written'[d] = IF d = c THEN <<split(l)>> ELSE written[d]
        BY <1>1, <1>3, <1>5, <2>3, <2>5 DEF written, ofCareful
      <4>3. /\ written' = [d \in Clients |-> written'[d]]
            /\ written = [d \in Clients |-> written[d]]
        BY DEF written, ofCareful
      <4> HIDE DEF written
      <4> QED BY <4>1, <4>2, <4>3
    <3>2. Promise!Write(c, split(l))
      BY <1>2, <3>1 DEF Promise!Write, written, done
    <3> QED BY <2>5, <3>2 DEF Promise!Next
  <2> QED BY <2>4, <2>5
<1> QED BY <1>4, <1>5

LEMMA MessageExecutes ==
    ASSUME LineInv, NEW c \in Clients, handleClientMessage(c)
    PROVE  [Promise!Next]_(Promise!vars)
<1>1. PICK n \in 1..Len(pending[c]) :
         LET message == SubSeq(pending[c], 1, n) IN
         /\ message \in Seq(Char)
         /\ recv(c, n)
         /\ command' = IF isTooLong(message) \/ split(message) = <<>> THEN command
                       ELSE [command EXCEPT ![c] = split(message)]
         /\ ~ isTooLong(message) => Len(message) <= MaxTopicSize
  BY MessageOK
<1>2. /\ careful' = careful
      /\ pending' = [pending EXCEPT ![c] = SubSeq(pending[c], n + 1, Len(pending[c]))]
      /\ c \in careful => n = Len(pending[c])
  BY <1>1, MessageOK DEF recv
<1>3. \A d \in Clients : d # c => typedBy(d)' = typedBy(d) /\ command'[d] = command[d]
  BY <1>1, <1>2 DEF typedBy, LineInv
<1>4. CASE c \notin careful
  <2>1. written' = written /\ done' = done
    BY <1>2, <1>3, <1>4 DEF written, done, ofCareful
  <2> QED BY <2>1 DEF Promise!vars, written, done
<1>5. CASE c \in careful
  <2>1. pending[c] \in Seq(Char) /\ pending[c] # <<>>
    BY <1>1 DEF LineInv
  <2>2. PICK l \in Typed : short(l) /\ pending[c] = line(l)
    BY <1>5, <2>1 DEF LineInv
  <2>3. SubSeq(pending[c], 1, n) = pending[c] /\ pending'[c] = <<>>
    BY <1>2, <1>5, <2>1 DEF LineInv
  <2>4. ~ isTooLong(pending[c])
    BY <2>1, <2>2, SizesAssumption DEF short, isTooLong
  <2>5. typedBy(c)' = <<>>
    BY <2>3, SplitNothing DEF typedBy, split
  <2>6. CASE split(pending[c]) = <<>>
    <3>1. typedBy(c)' = typedBy(c) /\ command' = command
      BY <1>1, <2>3, <2>5, <2>6 DEF typedBy
    <3>2. written' = written /\ done' = done
      BY <1>2, <1>3, <3>1 DEF written, done, ofCareful
    <3> QED BY <3>2 DEF Promise!vars, written, done
  <2>7. CASE split(pending[c]) # <<>>
    <3> DEFINE tokens == split(pending[c])
    <3>1. written[c] = <<tokens>>
      BY <1>5, <2>7 DEF written, ofCareful, typedBy
    <3>2. command' = [command EXCEPT ![c] = tokens]
      BY <1>1, <2>3, <2>4, <2>7
    <3> HIDE DEF tokens
    <3>3. /\ written[c] # <<>> /\ Head(written[c]) = tokens /\ Tail(written[c]) = <<>>
      BY <3>1
    <3>4. /\ written = [d \in Clients |-> written[d]]
          /\ written' = [d \in Clients |-> written'[d]]
          /\ done = [d \in Clients |-> done[d]] /\ done' = [d \in Clients |-> done'[d]]
      BY DEF written, done, ofCareful
    <3>5. \A d \in Clients : written'[d] = IF d = c THEN <<>> ELSE written[d]
      BY <1>2, <1>3, <2>5 DEF written, ofCareful
    <3>6. \A d \in Clients : done'[d] = IF d = c THEN tokens ELSE done[d]
      BY <1>2, <1>3, <1>5, <3>2 DEF done, ofCareful, LineInv
    <3>7. /\ written' = [written EXCEPT ![c] = Tail(written[c])]
          /\ done' = [done EXCEPT ![c] = Head(written[c])]
      <4> HIDE DEF written, done
      <4> QED BY <3>3, <3>4, <3>5, <3>6
    <3>8. Promise!Execute(c)
      BY <3>3, <3>7 DEF Promise!Execute, written, done
    <3> QED BY <3>8 DEF Promise!Next
  <2> QED BY <2>6, <2>7
<1> QED BY <1>4, <1>5

(* Each line of a careful client that is not blank is executed whole, once *)
(* and in order.                                                           *)
THEOREM LinesImplemented == Spec => ImplementsLines
<1>1. Init => Promise!Init
  <2> SUFFICES ASSUME Init PROVE Promise!Init
    OBVIOUS
  <2>1. \A c \in Clients : typedBy(c) = <<>>
    BY SplitNothing DEF Init, typedBy
  <2> QED BY <2>1 DEF Init, Promise!Init, ofCareful
<1>2. LineInv /\ [Next]_vars => [Promise!Next]_(Promise!vars)
  <2> SUFFICES ASSUME LineInv, [Next]_vars PROVE [Promise!Next]_(Promise!vars)
    OBVIOUS
  <2>1. CASE UNCHANGED vars
    BY <2>1 DEF vars, Promise!vars, ofCareful, typedBy
  <2>2. CASE Next
    BY <2>2, WriteWaits, MessageExecutes DEF Next
  <2> QED BY <2>1, <2>2
<1> QED BY <1>1, <1>2, LineInvariance, PTL DEF Spec, ImplementsLines, Promise!Spec
==============================================================================
