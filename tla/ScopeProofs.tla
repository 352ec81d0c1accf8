----------------------------- MODULE ScopeProofs -----------------------------
(***************************************************************************)
(* Facts about the operators of Scope and ValAlloc, for every tree of      *)
(* scopes and every table of heap values.  The recursive definitions are   *)
(* reasoned about with the least natural number, or the smallest finite    *)
(* set, for which a fact fails.                                            *)
(***************************************************************************)
EXTENDS Scope, FiniteSetTheorems, SequenceTheorems, WellFoundedInduction, TLAPS

(* A sequence of anything.                                                 *)
Sequence(s) == s \in Seq({s[i] : i \in DOMAIN s})

(* A nonempty set of natural numbers has a least element.                  *)
LEMMA LeastNat ==
  ASSUME NEW T, T \subseteq Nat, T # {}
  PROVE  \E x \in T : \A y \in T : x <= y
  <1> DEFINE R == StrictSubsetOrdering(Nat)
             F == FiniteSubsetsOf(Nat)
             U == {1..t : t \in T}
  <1>1. IsWellFoundedOn(R, F)
    BY FS_StrictSubsetOrderingWellFounded
  <1>2. U \subseteq F
    <2>1. ASSUME NEW t \in T PROVE 1..t \in F
      <3>1. IsFiniteSet(1..t)
        BY FS_Interval
      <3> QED BY <3>1 DEF FiniteSubsetsOf
    <2> QED BY <2>1
  <1>3. U # {}
    OBVIOUS
  <1> HIDE DEF R, F, U
  <1>4. \E x \in U : \A y \in U : ~(<<y, x>> \in R)
    BY <1>1, <1>2, <1>3, WFMin
  <1>5. PICK x \in T : \A y \in T : ~(<<1..y, 1..x>> \in R)
    BY <1>4 DEF U
  <1>6. ASSUME NEW y \in T, y < x PROVE FALSE
    <2>1. x \in Nat /\ y \in Nat OBVIOUS
    <2>2. 1..y \subseteq 1..x /\ x \in 1..x /\ x \notin 1..y /\ 1..y \subseteq Nat /\ 1..x \subseteq Nat
      BY <2>1, <1>6
    <2>3. <<1..y, 1..x>> \in R
      BY <2>2 DEF R, StrictSubsetOrdering
    <2> QED BY <2>3, <1>5
  <1> QED
    BY <1>6

-----------------------------------------------------------------------------
(* What the operators on sequences do.                                     *)
LEMMA SequenceIs ==
  ASSUME NEW s, Sequence(s)
  PROVE  Len(s) \in Nat /\ DOMAIN s = 1..Len(s)
  BY DEF Sequence

LEMMA AppendIs ==
  ASSUME NEW s, Sequence(s), NEW e
  PROVE  /\ Sequence(Append(s, e))
         /\ Len(Append(s, e)) = Len(s) + 1
         /\ \A i \in 1..Len(s) : Append(s, e)[i] = s[i]
         /\ Append(s, e)[Len(s) + 1] = e
  <1> DEFINE S == {s[i] : i \in DOMAIN s}
             a == Append(s, e)
             A == {a[i] : i \in DOMAIN a}
  <1>1. s \in Seq(S \cup {e}) /\ Len(s) \in Nat
    BY DEF Sequence
  <1> HIDE DEF S
  <1>2. /\ a \in Seq(S \cup {e})
        /\ Len(a) = Len(s) + 1
        /\ \A i \in 1..Len(s) : a[i] = s[i]
        /\ a[Len(s) + 1] = e
    BY <1>1
  <1> HIDE DEF a
  <1>3. Sequence(a)
    BY <1>2 DEF Sequence
  <1> QED
    BY <1>2, <1>3 DEF a

LEMMA ReplaceIs ==
  ASSUME NEW s, Sequence(s), NEW k \in 1..Len(s), NEW e
  PROVE  LET r == [s EXCEPT ![k] = e]
         IN  /\ Sequence(r)
             /\ Len(r) = Len(s)
             /\ \A i \in 1..Len(s) : i # k => r[i] = s[i]
             /\ r[k] = e
  <1> DEFINE S == {s[i] : i \in DOMAIN s}
             r == [s EXCEPT ![k] = e]
  <1>1. s \in Seq(S \cup {e}) /\ Len(s) \in Nat
    BY DEF Sequence
  <1> HIDE DEF S
  <1>2. /\ r \in Seq(S \cup {e})
        /\ Len(r) = Len(s)
        /\ \A i \in 1..Len(s) : i # k => r[i] = s[i]
        /\ r[k] = e
    BY <1>1
  <1> HIDE DEF r
  <1>3. Sequence(r)
    BY <1>2 DEF Sequence
  <1> QED
    BY <1>2, <1>3 DEF r

LEMMA FrontIs ==
  ASSUME NEW s, Sequence(s), s # <<>>
  PROVE  /\ Len(s) \in Nat \ {0}
         /\ Sequence(Front(s))
         /\ Len(Front(s)) = Len(s) - 1
         /\ \A i \in 1..(Len(s) - 1) : Front(s)[i] = s[i]
  <1> DEFINE S == {s[i] : i \in DOMAIN s}
             r == SubSeq(s, 1, Len(s) - 1)
  <1>1. s \in Seq(S) /\ Len(s) \in Nat /\ Len(s) # 0
    BY DEF Sequence
  <1> HIDE DEF S
  <1>2. /\ r \in Seq(S)
        /\ Len(r) = Len(s) - 1
        /\ \A i \in 1..(Len(s) - 1) : r[i] = s[i]
    <2> DEFINE n == Len(s) - 1
    <2>1. 1 \in Int /\ n \in Nat /\ Len(s) = n + 1 /\ \A i \in 1..n : s[i] \in S
      BY <1>1
    <2> HIDE DEF n
    <2>2. /\ SubSeq(s, 1, n) \in Seq(S)
          /\ Len(SubSeq(s, 1, n)) = IF 1 <= n THEN n - 1 + 1 ELSE 0
          /\ \A i \in 1..(n - 1 + 1) : SubSeq(s, 1, n)[i] = s[1 + i - 1]
      BY <2>1, SubSeqProperties
    <2>3. n - 1 + 1 = n /\ (IF 1 <= n THEN n - 1 + 1 ELSE 0) = n /\ \A i \in 1..n : 1 + i - 1 = i
      BY <2>1
    <2>4. Len(SubSeq(s, 1, n)) = n /\ \A i \in 1..n : SubSeq(s, 1, n)[i] = s[i]
      BY <2>1, <2>2, <2>3
    <2> QED
      BY <2>2, <2>4 DEF n
  <1> HIDE DEF r
  <1>3. Sequence(r)
    BY <1>2 DEF Sequence
  <1> QED
    BY <1>1, <1>2, <1>3 DEF r, Front

LEMMA TailIs ==
  ASSUME NEW s, Sequence(s), s # <<>>
  PROVE  /\ Len(s) \in Nat \ {0}
         /\ Sequence(Tail(s))
         /\ Len(Tail(s)) = Len(s) - 1
         /\ \A i \in 1..(Len(s) - 1) : Tail(s)[i] = s[i + 1]
         /\ Head(s) = s[1]
  <1> DEFINE S == {s[i] : i \in DOMAIN s}
             r == Tail(s)
  <1>1. s \in Seq(S) /\ Len(s) \in Nat /\ Len(s) # 0
    BY DEF Sequence
  <1> HIDE DEF S
  <1>2. /\ r \in Seq(S)
        /\ Len(r) = Len(s) - 1
        /\ \A i \in 1..(Len(s) - 1) : r[i] = s[i + 1]
        /\ Head(s) = s[1]
    BY <1>1
  <1> HIDE DEF r
  <1>3. Sequence(r)
    BY <1>2 DEF Sequence
  <1> QED
    BY <1>1, <1>2, <1>3 DEF r

LEMMA ConsIs ==
  ASSUME NEW s, Sequence(s), NEW e
  PROVE  LET r == <<e>> \o s
         IN  /\ Sequence(r)
             /\ Len(r) = Len(s) + 1
             /\ \A i \in 1..Len(s) : r[i + 1] = s[i]
             /\ r[1] = e
  <1> DEFINE S == {s[i] : i \in DOMAIN s}
             r == <<e>> \o s
  <1>1. s \in Seq(S \cup {e}) /\ Len(s) \in Nat /\ <<e>> \in Seq(S \cup {e}) /\ Len(<<e>>) = 1
    BY DEF Sequence
  <1> HIDE DEF S
  <1>2. /\ r \in Seq(S \cup {e})
        /\ Len(r) = Len(s) + 1
        /\ \A i \in 1..Len(s) : r[i + 1] = s[i]
        /\ r[1] = e
    BY <1>1
  <1> HIDE DEF r
  <1>3. Sequence(r)
    BY <1>2 DEF Sequence
  <1> QED
    BY <1>2, <1>3 DEF r

LEMMA EmptyIs == Sequence(<<>>) /\ Len(<<>>) = 0
  BY DEF Sequence

LEMMA DomainIs ==
  ASSUME NEW n \in Nat, NEW s, s = [i \in 1..n |-> s[i]]
  PROVE  Sequence(s) /\ Len(s) = n
  <1> DEFINE S == {s[i] : i \in DOMAIN s}
  <1>1. s \in [1..n -> S]
    OBVIOUS
  <1> HIDE DEF S
  <1>2. s \in Seq(S) /\ Len(s) = n
    BY <1>1, SeqDef
  <1> QED
    BY <1>2 DEF Sequence, S

-----------------------------------------------------------------------------
(* The tree of scopes.                                                     *)
Tree(scopes) ==
  Sequence(scopes) /\ \A s \in 1..Len(scopes) : scopes[s].parent \in 0..(s - 1)

(* A walk from scope to parent, which stops where stop says so.            *)
WalkStep(w, up, stop, t)  == IF t = 0 THEN {} ELSE IF stop[t] THEN {t} ELSE {t} \cup w[up[t]]
IsWalk(w, n, up, stop) == w = [t \in 0..n |-> WalkStep(w, up, stop, t)]

LEMMA StepOf ==
  ASSUME NEW n \in Nat, NEW up, NEW stop, \A t \in 1..n : up[t] \in 0..(t - 1),
         NEW m \in 0..n, NEW v, NEW w, \A t \in 0..(m - 1) : w[t] = v[t]
  PROVE  WalkStep(w, up, stop, m) = WalkStep(v, up, stop, m)
  <1>1. CASE m = 0
    BY <1>1 DEF WalkStep
  <1>2. CASE m # 0
    <2>1. w[up[m]] = v[up[m]]
      BY <1>2
    <2> QED
      BY <1>2, <2>1 DEF WalkStep
  <1> QED
    BY <1>1, <1>2

LEMMA WalkExists ==
  ASSUME NEW n \in Nat, NEW up, NEW stop, \A t \in 1..n : up[t] \in 0..(t - 1)
  PROVE  \E w : IsWalk(w, n, up, stop)
  <1> DEFINE Bad == {m \in 0..n : ~\E w : IsWalk(w, m, up, stop)}
  <1>1. SUFFICES ASSUME Bad # {} PROVE FALSE
    OBVIOUS
  <1>2. PICK m \in Bad : \A k \in Bad : m <= k
    <2>1. Bad \subseteq Nat
      OBVIOUS
    <2> HIDE DEF Bad
    <2> QED
      BY <1>1, <2>1, LeastNat
  <1>3. m \in 0..n /\ ~\E w : IsWalk(w, m, up, stop)
    BY <1>2
  <1>4. CASE m = 0
    <2> DEFINE w == [t \in 0..0 |-> {}]
    <2>1. \A t \in 0..0 : w[t] = WalkStep(w, up, stop, t)
      BY DEF WalkStep
    <2>2. IsWalk(w, 0, up, stop)
      BY <2>1 DEF IsWalk
    <2> QED
      BY <1>3, <1>4, <2>2
  <1>5. CASE m # 0
    <2>1. m \in 1..n /\ m - 1 \in 0..n /\ m - 1 \notin Bad
      BY <1>2, <1>5
    <2>2. PICK v : IsWalk(v, m - 1, up, stop)
      BY <2>1
    <2>3. \A t \in 0..(m - 1) : v[t] = WalkStep(v, up, stop, t)
      BY <2>2 DEF IsWalk
    <2> DEFINE w == [t \in 0..m |-> IF t = m THEN WalkStep(v, up, stop, m) ELSE v[t]]
    <2>4. \A t \in 0..(m - 1) : w[t] = v[t]
      BY <2>1
    <2>5. w[m] = WalkStep(v, up, stop, m)
      BY <2>1
    <2>6. DOMAIN w = 0..m /\ w = [t \in 0..m |-> w[t]]
      OBVIOUS
    <2> HIDE DEF w
    <2>7. ASSUME NEW t \in 0..m PROVE w[t] = WalkStep(w, up, stop, t)
      <3>1. t \in 0..n /\ \A u \in 0..(t - 1) : w[u] = v[u]
        BY <2>1, <2>4
      <3>2. WalkStep(w, up, stop, t) = WalkStep(v, up, stop, t)
        BY <3>1, StepOf
      <3>3. t = m \/ t \in 0..(m - 1)
        BY <2>1
      <3> QED
        BY <3>2, <3>3, <2>3, <2>4, <2>5
    <2>8. w = [t \in 0..m |-> WalkStep(w, up, stop, t)]
      BY <2>6, <2>7
    <2> QED
      BY <1>3, <2>8 DEF IsWalk
  <1> QED
    BY <1>4, <1>5

LEMMA ChainStep ==
  ASSUME NEW scopes, Tree(scopes)
  PROVE  /\ Chain(scopes, 0) = {}
         /\ \A s \in 1..Len(scopes) : Chain(scopes, s) = {s} \cup Chain(scopes, scopes[s].parent)
  <1> DEFINE n == Len(scopes)
             up == [t \in 1..n |-> scopes[t].parent]
             stop == [t \in 1..n |-> FALSE]
             F(c) == [t \in 0..n |-> IF t = 0 THEN {} ELSE {t} \cup c[scopes[t].parent]]
             chain == CHOOSE c : c = F(c)
  <1>1. n \in Nat /\ \A t \in 1..n : up[t] \in 0..(t - 1)
    BY SequenceIs DEF Tree
  <1>2. PICK w : IsWalk(w, n, up, stop)
    <2> HIDE DEF n, up, stop
    <2> QED
      BY <1>1, WalkExists
  <1>3. w = F(w)
    <2>1. w = [t \in 0..n |-> WalkStep(w, up, stop, t)]
      BY <1>2 DEF IsWalk
    <2>2. ASSUME NEW t \in 0..n
          PROVE  WalkStep(w, up, stop, t) = IF t = 0 THEN {} ELSE {t} \cup w[scopes[t].parent]
      <3>1. t # 0 => stop[t] = FALSE /\ up[t] = scopes[t].parent
        BY <1>1
      <3> QED
        BY <3>1 DEF WalkStep
    <2>3. [t \in 0..n |-> WalkStep(w, up, stop, t)] = F(w)
      BY <2>2
    <2> QED
      BY <2>1, <2>3
  <1>4. chain = F(chain)
    <2> HIDE DEF F
    <2> QED
      BY <1>3
  <1>5. \A s \in 0..n : chain[s] = IF s = 0 THEN {} ELSE {s} \cup chain[scopes[s].parent]
    <2> HIDE DEF chain
    <2> QED
      BY <1>4
  <1>6. \A s : Chain(scopes, s) = chain[s]
    BY DEF Chain
  <1> HIDE DEF chain
  <1>7. 0 \in 0..n /\ \A s \in 1..n : s \in 0..n /\ s # 0
    BY <1>1
  <1> HIDE DEF n
  <1>8. chain[0] = {} /\ \A s \in 1..n : chain[s] = {s} \cup chain[scopes[s].parent]
    BY <1>5, <1>7
  <1> QED
    BY <1>6, <1>8 DEF n

LEMMA VisitedStep ==
  ASSUME NEW scopes, Tree(scopes), NEW name
  PROVE  /\ Visited(scopes, 0, name) = {}
         /\ \A s \in 1..Len(scopes) :
              Visited(scopes, s, name) =
                IF ~scopes[s].live \/ name \in Names(scopes[s]) THEN {s}
                ELSE {s} \cup Visited(scopes, scopes[s].parent, name)
  <1> DEFINE n == Len(scopes)
             Ends(t) == ~scopes[t].live \/ name \in Names(scopes[t])
             up == [t \in 1..n |-> scopes[t].parent]
             stop == [t \in 1..n |-> Ends(t)]
             F(c) == [t \in 0..n |->
                        CASE t = 0 -> {}
                          [] t > 0 /\ Ends(t) -> {t}
                          [] OTHER -> {t} \cup c[scopes[t].parent]]
             visit == CHOOSE c : c = F(c)
  <1>1. n \in Nat /\ \A t \in 1..n : up[t] \in 0..(t - 1)
    BY SequenceIs DEF Tree
  <1>2. PICK w : IsWalk(w, n, up, stop)
    <2> HIDE DEF n, up, stop
    <2> QED
      BY <1>1, WalkExists
  <1>3. \A s : Visited(scopes, s, name) = visit[s]
    BY DEF Visited
  <1> HIDE DEF Ends
  <1>4. w = F(w)
    <2>1. w = [t \in 0..n |-> WalkStep(w, up, stop, t)]
      BY <1>2 DEF IsWalk
    <2>2. ASSUME NEW t \in 0..n
          PROVE  WalkStep(w, up, stop, t) = CASE t = 0 -> {}
                                          [] t > 0 /\ Ends(t) -> {t}
                                          [] OTHER -> {t} \cup w[scopes[t].parent]
      <3>1. CASE t = 0
        BY <3>1 DEF WalkStep
      <3>2. CASE t # 0
        <4>1. t > 0 /\ stop[t] = Ends(t) /\ up[t] = scopes[t].parent
          BY <1>1, <3>2
        <4> QED
          BY <3>2, <4>1 DEF WalkStep
      <3> QED
        BY <3>1, <3>2
    <2>3. [t \in 0..n |-> WalkStep(w, up, stop, t)] = F(w)
      BY <2>2
    <2> QED
      BY <2>1, <2>3
  <1>5. visit = F(visit)
    <2> HIDE DEF F
    <2> QED
      BY <1>4
  <1>6. 0 \in 0..n /\ \A s \in 1..n : s \in 0..n /\ s # 0 /\ s > 0
    BY <1>1
  <1>7. visit[0] = {}
    <2> HIDE DEF visit
    <2> QED
      BY <1>5, <1>6
  <1>8. ASSUME NEW s \in 1..n
        PROVE  visit[s] = IF Ends(s) THEN {s} ELSE {s} \cup visit[scopes[s].parent]
    <2> HIDE DEF visit
    <2>1. visit[s] = CASE s = 0 -> {}
                       [] s > 0 /\ Ends(s) -> {s}
                       [] OTHER -> {s} \cup visit[scopes[s].parent]
      BY <1>5, <1>6
    <2>2. s # 0 /\ s > 0
      BY <1>6
    <2> QED
      BY <2>1, <2>2
  <1> HIDE DEF visit, n
  <1> QED
    BY <1>3, <1>7, <1>8 DEF n, Ends

(* A chain leads down, and what it meets has its own chain in it.          *)
LEMMA ChainFacts ==
  ASSUME NEW scopes, Tree(scopes), NEW s \in 0..Len(scopes)
  PROVE  /\ Chain(scopes, s) \subseteq 1..s
         /\ s # 0 => s \in Chain(scopes, s)
         /\ \A t \in Chain(scopes, s) : Chain(scopes, t) \subseteq Chain(scopes, s)
  <1> DEFINE Good(t) == /\ Chain(scopes, t) \subseteq 1..t
                        /\ \A u \in Chain(scopes, t) : Chain(scopes, u) \subseteq Chain(scopes, t)
             Bad == {t \in 0..Len(scopes) : ~Good(t)}
  <1>0. Len(scopes) \in Nat
    BY SequenceIs DEF Tree
  <1>1. Bad = {}
    <2>1. SUFFICES ASSUME Bad # {} PROVE FALSE
      OBVIOUS
    <2>2. Bad \subseteq Nat
      BY <1>0
    <2>3. PICK m \in Bad : \A k \in Bad : m <= k
      <3> HIDE DEF Bad
      <3> QED
        BY <2>1, <2>2, LeastNat
    <2>4. m # 0
      BY ChainStep
    <2>5. m \in 1..Len(scopes)
      BY <2>3, <2>4
    <2> DEFINE p == scopes[m].parent
    <2>6. p \in 0..(m - 1) /\ p \in 0..Len(scopes)
      BY <2>5, <1>0 DEF Tree
    <2>7. Good(p)
      BY <2>3, <2>5, <2>6
    <2>8. Chain(scopes, m) = {m} \cup Chain(scopes, p)
      BY <2>5, ChainStep
    <2> HIDE DEF p
    <2>9. Chain(scopes, m) \subseteq 1..m
      BY <2>5, <2>6, <2>7, <2>8
    <2>10. ASSUME NEW u \in Chain(scopes, m) PROVE Chain(scopes, u) \subseteq Chain(scopes, m)
      BY <2>7, <2>8
    <2> QED
      BY <2>3, <2>9, <2>10
  <1>2. Good(s)
    BY <1>1
  <1>3. s # 0 => s \in Chain(scopes, s)
    <2>1. s # 0 => s \in 1..Len(scopes)
      BY <1>0
    <2> QED
      BY <2>1, ChainStep
  <1> QED
    BY <1>2, <1>3

(* Scopes that are added, or change what they bind, do not change a chain. *)
SameTree(a, b) ==
  Len(a) <= Len(b) /\ \A s \in 1..Len(a) : b[s].parent = a[s].parent /\ b[s].kind = a[s].kind

LEMMA ChainSame ==
  ASSUME NEW a, NEW b, Tree(a), Tree(b), SameTree(a, b), NEW s \in 0..Len(a)
  PROVE  Chain(b, s) = Chain(a, s)
  <1> DEFINE Bad == {t \in 0..Len(a) : Chain(b, t) # Chain(a, t)}
  <1>0. Len(a) \in Nat /\ Len(b) \in Nat
    BY SequenceIs DEF Tree
  <1>1. SUFFICES ASSUME Bad # {} PROVE FALSE
    OBVIOUS
  <1>2. Bad \subseteq Nat
    BY <1>0
  <1>3. PICK m \in Bad : \A k \in Bad : m <= k
    <2> HIDE DEF Bad
    <2> QED
      BY <1>1, <1>2, LeastNat
  <1>4. m # 0
    BY ChainStep
  <1>5. m \in 1..Len(a) /\ m \in 1..Len(b)
    BY <1>0, <1>3, <1>4 DEF SameTree
  <1>6. a[m].parent \in 0..(m - 1) /\ a[m].parent \in 0..Len(a) /\ b[m].parent = a[m].parent
    BY <1>0, <1>5 DEF Tree, SameTree
  <1>7. Chain(b, a[m].parent) = Chain(a, a[m].parent)
    BY <1>3, <1>5, <1>6
  <1>8. Chain(a, m) = {m} \cup Chain(a, a[m].parent)
    BY <1>5, ChainStep
  <1>9. Chain(b, m) = {m} \cup Chain(b, b[m].parent)
    BY <1>5, ChainStep
  <1> QED
    BY <1>3, <1>6, <1>7, <1>8, <1>9

(* What a search visits lies on the chain.  When it does not meet a freed  *)
(* scope, it ends at the scope found, or at the end of the chain.          *)
LEMMA SearchFacts ==
  ASSUME NEW scopes, Tree(scopes), NEW name, NEW s \in 1..Len(scopes),
         \A t \in Visited(scopes, s, name) : scopes[t].live
  PROVE  LET home == scope_resolve_identifier(scopes, s, name)
         IN  /\ Visited(scopes, s, name) \subseteq Chain(scopes, s)
             /\ home # 0 => /\ home \in Visited(scopes, s, name)
                            /\ scopes[home].live
                            /\ name \in Names(scopes[home])
                            /\ Chain(scopes, s) \subseteq Visited(scopes, s, name) \cup Chain(scopes, home)
  <1> DEFINE V(t) == Visited(scopes, t, name)
             Good(t) == /\ V(t) \subseteq Chain(scopes, t)
                        /\ V(t) # {}
                        /\ \A u \in V(t) : scopes[u].live /\ name \in Names(scopes[u]) =>
                             /\ \A v \in V(t) : u <= v
                             /\ Chain(scopes, t) \subseteq V(t) \cup Chain(scopes, u)
             Bad == {t \in 1..Len(scopes) : ~Good(t)}
  <1>0. Len(scopes) \in Nat
    BY SequenceIs DEF Tree
  <1>1. Bad = {}
    <2>1. SUFFICES ASSUME Bad # {} PROVE FALSE
      OBVIOUS
    <2>2. Bad \subseteq Nat
      BY <1>0
    <2>3. PICK m \in Bad : \A k \in Bad : m <= k
      <3> HIDE DEF Bad
      <3> QED
        BY <2>1, <2>2, LeastNat
    <2>4. m \in 1..Len(scopes) /\ m \in 0..Len(scopes) /\ m # 0
      BY <2>3, <1>0
    <2> DEFINE p == scopes[m].parent
    <2>5. p \in 0..(m - 1) /\ p \in 0..Len(scopes)
      BY <2>4, <1>0 DEF Tree
    <2>6. p # 0 => Good(p)
      BY <2>3, <2>4, <2>5
    <2>7. /\ Chain(scopes, m) = {m} \cup Chain(scopes, p)
          /\ Chain(scopes, m) \subseteq 1..m
          /\ m \in Chain(scopes, m)
          /\ Chain(scopes, p) \subseteq 1..p
      BY <2>4, <2>5, ChainStep, ChainFacts
    <2>8. V(m) = IF ~scopes[m].live \/ name \in Names(scopes[m]) THEN {m} ELSE {m} \cup V(p)
      BY <2>4, VisitedStep
    <2>9. V(0) = {} /\ Chain(scopes, 0) = {}
      BY VisitedStep, ChainStep
    <2> HIDE DEF V, p
    <2>10. CASE ~scopes[m].live \/ name \in Names(scopes[m])
      <3>1. V(m) = {m}
        BY <2>8, <2>10
      <3>2. Good(m)
        BY <3>1, <2>4, <2>7
      <3> QED
        BY <3>2, <2>3
    <2>11. CASE scopes[m].live /\ name \notin Names(scopes[m])
      <3>1. V(m) = {m} \cup V(p)
        BY <2>8, <2>11
      <3>2. CASE p = 0
        <4>1. V(m) = {m}
          BY <3>1, <3>2, <2>9
        <4>2. Good(m)
          BY <4>1, <2>4, <2>7, <2>11
        <4> QED
          BY <4>2, <2>3
      <3>3. CASE p # 0
        <4>1. V(p) \subseteq Chain(scopes, p) /\ V(m) \subseteq Chain(scopes, m) /\ V(m) # {}
          BY <2>6, <2>7, <3>1, <3>3
        <4>2. ASSUME NEW u \in V(m), scopes[u].live, name \in Names(scopes[u])
              PROVE  /\ \A v \in V(m) : u <= v
                     /\ Chain(scopes, m) \subseteq V(m) \cup Chain(scopes, u)
          <5>1. u \in V(p)
            BY <4>2, <3>1, <2>11
          <5>2. /\ \A v \in V(p) : u <= v
                /\ Chain(scopes, p) \subseteq V(p) \cup Chain(scopes, u)
            BY <5>1, <4>2, <2>6, <3>3
          <5>3. u \in 1..p /\ u <= m
            BY <5>1, <4>1, <2>7, <2>4, <2>5
          <5> QED
            BY <5>2, <5>3, <3>1, <2>7
        <4>3. Good(m)
          BY <4>1, <4>2
        <4> QED
          BY <4>3, <2>3
      <3> QED
        BY <3>2, <3>3
    <2> QED
      BY <2>10, <2>11
  <1>2. Good(s)
    BY <1>1
  <1> DEFINE last == Min(V(s))
             home == scope_resolve_identifier(scopes, s, name)
  <1>3. home = IF scopes[last].live /\ name \in Names(scopes[last]) THEN last ELSE 0
    BY DEF scope_resolve_identifier
  <1>4. last \in V(s)
    <2>1. V(s) \subseteq Nat
      <3>1. s \in 0..Len(scopes)
        BY <1>0
      <3> QED
        BY <1>2, <3>1, ChainFacts
    <2>2. \E x \in V(s) : \A y \in V(s) : x <= y
      BY <1>2, <2>1, LeastNat
    <2> HIDE DEF V
    <2> QED
      BY <2>2 DEF Min
  <1> HIDE DEF last, V
  <1>5. home # 0 => home = last /\ scopes[last].live /\ name \in Names(scopes[last])
    BY <1>3
  <1>6. home # 0 => /\ home \in V(s)
                    /\ scopes[home].live
                    /\ name \in Names(scopes[home])
                    /\ Chain(scopes, s) \subseteq V(s) \cup Chain(scopes, home)
    BY <1>2, <1>4, <1>5
  <1> QED
    BY <1>2, <1>6 DEF V

-----------------------------------------------------------------------------
(* The table of heap values.  A value points at a slot and a buffer of it. *)
ValueType ==
  {"VAL_NULL", "VAL_STRING", "VAL_INTEGER", "VAL_BOOLEAN", "VAL_FLOAT", "VAL_ARRAY", "VAL_FUNCTION"}

ValueIn(v, t) ==
  /\ v = Val(v.type, v.self_ptr, v.ref)
  /\ v.type \in ValueType
  /\ v.ref \in Int
  /\ v.self_ptr \in 0..Len(t.values)
  /\ v.type = "VAL_STRING" => v.ref \in 1..Len(t.texts) /\ v.self_ptr # 0
  /\ v.type \in {"VAL_NULL", "VAL_FUNCTION"} => v.self_ptr = 0

Free(t) == Range(t.head)

TableOK(t) ==
  /\ t = [values |-> t.values, head |-> t.head, texts |-> t.texts, freed |-> t.freed]
  /\ Sequence(t.values) /\ Sequence(t.head) /\ t.texts \in Seq(Seq(Nat))
  /\ Free(t) \subseteq 1..Len(t.values)
  /\ t.freed \subseteq 1..Len(t.texts)
  /\ \A k \in 1..Len(t.values) : t.values[k].type = "VAL_STRING" => t.values[k].ref \in 1..Len(t.texts)

(* Every free slot is on the list once, and empty.                         *)
HeadOK(t) == IsInjective(t.head) /\ \A k \in Free(t) : t.values[k].type = "VAL_NULL"

(* Values have been made in t, and nothing freed, until it was u.          *)
Grown(t, u) ==
  /\ TableOK(u)
  /\ Len(t.values) <= Len(u.values) /\ Len(t.texts) <= Len(u.texts)
  /\ Free(u) \subseteq Free(t)
  /\ u.freed = t.freed
  /\ \A k \in 1..Len(t.values) : k \notin Free(t) => u.values[k] = t.values[k]
  /\ HeadOK(t) => HeadOK(u)

(* The value v is one of those made.                                       *)
Fresh(t, u, v) ==
  /\ v.self_ptr \in 1..Len(u.values)
  /\ v.self_ptr \in Free(t) \/ v.self_ptr > Len(t.values)
  /\ HeadOK(t) => v.self_ptr \notin Free(u)
  /\ HeadOK(t) => u.values[v.self_ptr].type = v.type
  /\ v.type = "VAL_STRING" =>
       /\ v.ref \in 1..Len(u.texts) /\ v.ref > Len(t.texts)
       /\ HeadOK(t) => u.values[v.self_ptr].ref = v.ref

LEMMA TableLengths ==
  ASSUME NEW t, TableOK(t)
  PROVE  /\ Len(t.values) \in Nat /\ Len(t.head) \in Nat /\ Len(t.texts) \in Nat
         /\ DOMAIN t.values = 1..Len(t.values) /\ DOMAIN t.head = 1..Len(t.head)
         /\ DOMAIN t.texts = 1..Len(t.texts)
  <1>1. t.texts \in Seq(Seq(Nat))
    BY DEF TableOK
  <1> QED
    BY <1>1, SequenceIs DEF TableOK

LEMMA GrownSelf ==
  ASSUME NEW t, TableOK(t)
  PROVE  Grown(t, t)
  BY TableLengths DEF Grown

LEMMA GrownTwice ==
  ASSUME NEW t, NEW u, NEW w, TableOK(t), Grown(t, u), Grown(u, w)
  PROVE  Grown(t, w)
  <1>1. Len(t.values) \in Nat /\ Len(u.values) \in Nat /\ Len(w.values) \in Nat
    BY TableLengths DEF Grown
  <1>2. Len(t.texts) \in Nat /\ Len(u.texts) \in Nat /\ Len(w.texts) \in Nat
    BY TableLengths DEF Grown
  <1>3. ASSUME NEW k \in 1..Len(t.values), k \notin Free(t) PROVE w.values[k] = t.values[k]
    BY <1>1, <1>3 DEF Grown
  <1> QED
    BY <1>1, <1>2, <1>3 DEF Grown

LEMMA FreshLater ==
  ASSUME NEW t, NEW u, NEW w, NEW v, TableOK(t), Grown(t, u), Fresh(u, w, v), Grown(u, w)
  PROVE  Fresh(t, w, v)
  <1>1. Len(t.values) \in Nat /\ Len(u.values) \in Nat /\ Len(w.values) \in Nat
    BY TableLengths DEF Grown
  <1>2. Len(t.texts) \in Nat /\ Len(u.texts) \in Nat /\ Len(w.texts) \in Nat
    BY TableLengths DEF Grown
  <1> QED
    BY <1>1, <1>2 DEF Grown, Fresh

(* val_create_heap takes the first free slot, or a new one.                *)
LEMMA CreateIs ==
  ASSUME NEW t, TableOK(t), NEW type, NEW ref
  PROVE  LET u    == val_create_heap(t, type, ref)
             slot == NextSlot(t)
         IN  /\ u = [values |-> u.values, head |-> u.head, texts |-> t.texts, freed |-> t.freed]
             /\ Sequence(u.values) /\ Sequence(u.head)
             /\ slot \in 1..Len(u.values) /\ Len(t.values) <= Len(u.values)
             /\ slot \in Free(t) \/ slot > Len(t.values)
             /\ Free(u) \subseteq Free(t)
             /\ u.values[slot].type = type /\ u.values[slot].ref = ref
             /\ \A k \in 1..Len(u.values) : k # slot => k \in 1..Len(t.values) /\ u.values[k] = t.values[k]
             /\ HeadOK(t) => IsInjective(u.head) /\ slot \notin Free(u)
  <1> DEFINE u == val_create_heap(t, type, ref)
             slot == NextSlot(t)
             content == [type |-> type, nofree |-> FALSE, ref |-> ref]
  <1>0. /\ Sequence(t.values) /\ Sequence(t.head)
        /\ Len(t.values) \in Nat /\ Len(t.head) \in Nat /\ DOMAIN t.head = 1..Len(t.head)
        /\ content.type = type /\ content.ref = ref
    BY TableLengths DEF TableOK
  <1>1. CASE t.head = <<>>
    <2>1. u = [values |-> Append(t.values, content), head |-> t.head, texts |-> t.texts, freed |-> t.freed]
      BY <1>1 DEF val_create_heap, TableOK
    <2>2. slot = Len(t.values) + 1
      BY <1>1 DEF NextSlot
    <2> HIDE DEF u, content, slot
    <2>3. u.values = Append(t.values, content) /\ u.head = t.head /\ u.texts = t.texts /\ u.freed = t.freed
      BY <2>1
    <2>4. /\ Sequence(u.values)
          /\ Len(u.values) = Len(t.values) + 1
          /\ \A i \in 1..Len(t.values) : u.values[i] = t.values[i]
          /\ u.values[slot] = content
      BY <1>0, <2>2, <2>3, AppendIs
    <2>5. Free(u) = Free(t) /\ slot \notin Free(t)
      BY <1>0, <2>2, <2>3 DEF Free, TableOK
    <2>6. \A k \in 1..Len(u.values) : k # slot => k \in 1..Len(t.values) /\ u.values[k] = t.values[k]
      BY <1>0, <2>2, <2>4
    <2>7. slot \in 1..Len(u.values) /\ Len(t.values) <= Len(u.values) /\ slot > Len(t.values)
      BY <1>0, <2>2, <2>4
    <2>8. HeadOK(t) => IsInjective(u.head)
      BY <2>3 DEF HeadOK
    <2>9. u = [values |-> u.values, head |-> u.head, texts |-> t.texts, freed |-> t.freed]
      BY <2>1, <2>3
    <2>10. u.values[slot].type = type /\ u.values[slot].ref = ref
      BY <1>0, <2>4
    <2> QED
      BY <1>0, <2>3, <2>4, <2>5, <2>6, <2>7, <2>8, <2>9, <2>10 DEF u, slot
  <1>2. CASE t.head # <<>>
    <2>0. slot = t.head[1] /\ slot = Head(t.head) /\ Len(t.head) \in Nat \ {0}
      BY <1>0, <1>2, TailIs DEF NextSlot
    <2>1. slot \in Free(t) /\ slot \in 1..Len(t.values)
      BY <1>0, <2>0 DEF Free, Range, TableOK
    <2>2. u = [values |-> [t.values EXCEPT ![slot] = content], head |-> Tail(t.head),
               texts |-> t.texts, freed |-> t.freed]
      BY <1>2, <2>0 DEF val_create_heap, TableOK
    <2> HIDE DEF u, content, slot
    <2>3. u.values = [t.values EXCEPT ![slot] = content] /\ u.head = Tail(t.head)
      BY <2>2
    <2>4. /\ Sequence(u.values)
          /\ Len(u.values) = Len(t.values)
          /\ \A i \in 1..Len(t.values) : i # slot => u.values[i] = t.values[i]
          /\ u.values[slot] = content
      BY <1>0, <2>1, <2>3, ReplaceIs
    <2>5. /\ Sequence(u.head)
          /\ Len(u.head) = Len(t.head) - 1
          /\ \A i \in 1..(Len(t.head) - 1) : u.head[i] = t.head[i + 1]
      BY <1>0, <1>2, <2>3, TailIs
    <2>6. DOMAIN u.head = 1..(Len(t.head) - 1)
      BY <2>5, SequenceIs
    <2>7. \A i \in DOMAIN u.head : i + 1 \in DOMAIN t.head /\ u.head[i] = t.head[i + 1] /\ i + 1 # 1 /\ i \in Nat
      BY <1>0, <2>0, <2>5, <2>6
    <2>8. Free(u) \subseteq Free(t)
      BY <2>7 DEF Free, Range
    <2>9. HeadOK(t) => IsInjective(u.head) /\ slot \notin Free(u)
      <3>1. SUFFICES ASSUME HeadOK(t) PROVE IsInjective(u.head) /\ slot \notin Free(u)
        OBVIOUS
      <3>2. \A a, b \in DOMAIN t.head : t.head[a] = t.head[b] => a = b
        BY <3>1 DEF HeadOK, IsInjective
      <3>3. \A a, b \in DOMAIN u.head : u.head[a] = u.head[b] => a = b
        BY <2>7, <3>2
      <3>4. 1 \in DOMAIN t.head
        BY <1>0, <2>0
      <3>5. \A a \in DOMAIN u.head : u.head[a] # slot
        BY <2>0, <2>7, <3>2, <3>4
      <3> QED
        BY <3>3, <3>5 DEF Free, Range, IsInjective
    <2>10. u = [values |-> u.values, head |-> u.head, texts |-> t.texts, freed |-> t.freed]
      BY <2>2, <2>3
    <2>11. u.values[slot].type = type /\ u.values[slot].ref = ref
      BY <1>0, <2>4
    <2>12. slot \in 1..Len(u.values) /\ Len(t.values) <= Len(u.values)
      BY <1>0, <2>1, <2>4
    <2>13. \A k \in 1..Len(u.values) : k # slot => k \in 1..Len(t.values) /\ u.values[k] = t.values[k]
      BY <2>4
    <2> QED
      BY <2>1, <2>4, <2>5, <2>8, <2>9, <2>10, <2>11, <2>12, <2>13 DEF u, slot
  <1> QED
    BY <1>1, <1>2

(* What holds of a table in which a value has been made, the texts aside.  *)
LEMMA MadeIs ==
  ASSUME NEW t, TableOK(t), NEW type \in ValueType \ {"VAL_NULL", "VAL_FUNCTION"}, NEW ref \in Int,
         NEW texts \in Seq(Seq(Nat)), Len(t.texts) <= Len(texts),
         type = "VAL_STRING" => ref \in 1..Len(texts) /\ ref > Len(t.texts)
  PROVE  LET u == [val_create_heap(t, type, ref) EXCEPT !.texts = texts]
             v == Val(type, NextSlot(t), ref)
         IN  Grown(t, u) /\ Fresh(t, u, v) /\ ValueIn(v, u)
  <1> DEFINE c == val_create_heap(t, type, ref)
             u == [c EXCEPT !.texts = texts]
             slot == NextSlot(t)
             v == Val(type, slot, ref)
  <1>1. /\ c = [values |-> c.values, head |-> c.head, texts |-> t.texts, freed |-> t.freed]
        /\ Sequence(c.values) /\ Sequence(c.head)
        /\ slot \in 1..Len(c.values) /\ Len(t.values) <= Len(c.values)
        /\ slot \in Free(t) \/ slot > Len(t.values)
        /\ Free(c) \subseteq Free(t)
        /\ c.values[slot].type = type /\ c.values[slot].ref = ref
        /\ \A k \in 1..Len(c.values) : k # slot => k \in 1..Len(t.values) /\ c.values[k] = t.values[k]
        /\ HeadOK(t) => IsInjective(c.head) /\ slot \notin Free(c)
    BY CreateIs
  <1>2. /\ Len(t.values) \in Nat /\ Len(t.texts) \in Nat /\ Len(texts) \in Nat
        /\ Free(t) \subseteq 1..Len(t.values) /\ t.freed \subseteq 1..Len(t.texts)
    BY TableLengths DEF TableOK
  <1>3. Len(c.values) \in Nat
    BY <1>1, SequenceIs
  <1> HIDE DEF c, slot
  <1>4. u = [values |-> c.values, head |-> c.head, texts |-> texts, freed |-> t.freed]
    BY <1>1
  <1> HIDE DEF u
  <1>5. u.values = c.values /\ u.head = c.head /\ u.texts = texts /\ u.freed = t.freed /\ Free(u) = Free(c)
    BY <1>4 DEF Free
  <1>6. v.type = type /\ v.self_ptr = slot /\ v.ref = ref
    BY DEF Val
  <1>7. TableOK(u)
    <2>1. u = [values |-> u.values, head |-> u.head, texts |-> u.texts, freed |-> u.freed]
      BY <1>4, <1>5
    <2>2. Free(u) \subseteq 1..Len(u.values) /\ u.freed \subseteq 1..Len(u.texts)
      BY <1>1, <1>2, <1>3, <1>5
    <2>3. ASSUME NEW k \in 1..Len(u.values), u.values[k].type = "VAL_STRING"
          PROVE  u.values[k].ref \in 1..Len(u.texts)
      <3>1. CASE k = slot
        BY <1>1, <1>5, <2>3, <3>1
      <3>2. CASE k # slot
        <4>1. k \in 1..Len(t.values) /\ u.values[k] = t.values[k]
          BY <1>1, <1>5, <3>2
        <4>2. t.values[k].ref \in 1..Len(t.texts)
          BY <2>3, <4>1 DEF TableOK
        <4> QED
          BY <1>2, <1>5, <4>1, <4>2
      <3> QED
        BY <3>1, <3>2
    <2> QED
      BY <1>1, <1>5, <2>1, <2>2, <2>3 DEF TableOK
  <1>8. HeadOK(t) => HeadOK(u)
    <2>1. ASSUME HeadOK(t), NEW k \in Free(u) PROVE u.values[k].type = "VAL_NULL"
      <3>1. k # slot /\ k \in Free(t) /\ k \in 1..Len(c.values)
        BY <1>1, <1>2, <1>3, <1>5, <2>1
      <3> QED
        BY <1>1, <1>5, <2>1, <3>1 DEF HeadOK
    <2>2. HeadOK(t) => IsInjective(u.head)
      BY <1>1, <1>5
    <2> QED
      BY <2>1, <2>2 DEF HeadOK
  <1>9. Grown(t, u)
    <2>1. ASSUME NEW k \in 1..Len(t.values), k \notin Free(t) PROVE u.values[k] = t.values[k]
      <3>1. k # slot /\ k \in 1..Len(c.values)
        BY <1>1, <1>2, <1>3, <2>1
      <3> QED
        BY <1>1, <1>5, <3>1
    <2> QED
      BY <1>1, <1>5, <1>7, <1>8, <2>1 DEF Grown
  <1>10. Fresh(t, u, v)
    <2>1. v.self_ptr \in 1..Len(u.values) /\ (v.self_ptr \in Free(t) \/ v.self_ptr > Len(t.values))
      BY <1>1, <1>5, <1>6
    <2>2. u.values[v.self_ptr].type = v.type /\ u.values[v.self_ptr].ref = v.ref
      BY <1>1, <1>5, <1>6
    <2>3. HeadOK(t) => v.self_ptr \notin Free(u)
      BY <1>1, <1>5, <1>6
    <2>4. v.type = "VAL_STRING" => v.ref \in 1..Len(u.texts) /\ v.ref > Len(t.texts)
      BY <1>5, <1>6
    <2> QED
      BY <2>1, <2>2, <2>3, <2>4 DEF Fresh
  <1>11. ValueIn(v, u)
    <2>1. v = Val(v.type, v.self_ptr, v.ref)
      BY <1>6
    <2>2. v.self_ptr \in 0..Len(u.values) /\ v.self_ptr # 0
      BY <1>1, <1>3, <1>5, <1>6
    <2> HIDE DEF v
    <2> QED
      BY <1>5, <1>6, <2>1, <2>2 DEF ValueIn
  <1> QED
    BY <1>9, <1>10, <1>11 DEF u, v, c, slot

LEMMA NewStringIs ==
  ASSUME NEW t, TableOK(t), NEW text \in Seq(Nat)
  PROVE  LET made == NewString(t, text)
         IN  /\ Grown(t, made.tbl) /\ Fresh(t, made.tbl, made.val) /\ ValueIn(made.val, made.tbl)
             /\ made.val.type = "VAL_STRING"
             /\ Len(made.tbl.texts) = Len(t.texts) + 1
  <1> DEFINE ref == Len(t.texts) + 1
             texts == Append(t.texts, text)
             u == [val_create_heap(t, "VAL_STRING", ref) EXCEPT !.texts = texts]
             v == Val("VAL_STRING", NextSlot(t), ref)
             made == NewString(t, text)
  <1>1. /\ texts \in Seq(Seq(Nat)) /\ Len(texts) = Len(t.texts) + 1 /\ Len(t.texts) \in Nat
    BY TableLengths DEF TableOK
  <1>2. "VAL_STRING" \in ValueType \ {"VAL_NULL", "VAL_FUNCTION"} /\ ref \in Int
    BY <1>1 DEF ValueType
  <1> HIDE DEF texts
  <1>3. Len(t.texts) <= Len(texts) /\ ref \in 1..Len(texts) /\ ref > Len(t.texts)
    BY <1>1
  <1> HIDE DEF ref
  <1>4. Grown(t, u) /\ Fresh(t, u, v) /\ ValueIn(v, u)
    BY <1>1, <1>2, <1>3, MadeIs
  <1>5. u.texts = texts /\ v.type = "VAL_STRING"
    <2>1. val_create_heap(t, "VAL_STRING", ref) =
            [values |-> val_create_heap(t, "VAL_STRING", ref).values,
             head |-> val_create_heap(t, "VAL_STRING", ref).head, texts |-> t.texts, freed |-> t.freed]
      BY CreateIs
    <2> QED
      BY <2>1 DEF Val
  <1>6. made.tbl = u /\ made.val = v
    <2>1. [val_create_heap(t, "VAL_STRING", ref) EXCEPT !.texts = Append(@, text)] = u
      <3>1. val_create_heap(t, "VAL_STRING", ref) =
              [values |-> val_create_heap(t, "VAL_STRING", ref).values,
               head |-> val_create_heap(t, "VAL_STRING", ref).head, texts |-> t.texts, freed |-> t.freed]
        BY CreateIs
      <3>2. val_create_heap(t, "VAL_STRING", ref).texts = t.texts
        BY <3>1
      <3> QED
        BY <3>2 DEF texts
    <2> QED
      BY <2>1 DEF NewString, ref
  <1> HIDE DEF u, v
  <1>7. Len(made.tbl.texts) = Len(t.texts) + 1
    BY <1>1, <1>5, <1>6
  <1> HIDE DEF made
  <1> QED
    BY <1>4, <1>5, <1>6, <1>7 DEF made

LEMMA CopyDeepIs ==
  ASSUME NEW t, TableOK(t), NEW v, ValueIn(v, t), v.type # "VAL_FUNCTION"
  PROVE  LET copy == val_copy_deep(v, t)
         IN  /\ Grown(t, copy.tbl) /\ ValueIn(copy.val, copy.tbl)
             /\ copy.val.type = v.type
             /\ copy.val.self_ptr # 0 => Fresh(t, copy.tbl, copy.val)
             /\ v.type = "VAL_NULL" => copy.val = BLAZE_NULL
  <1> DEFINE copy == val_copy_deep(v, t)
  <1>0. Len(t.values) \in Nat /\ Len(t.texts) \in Nat
    BY TableLengths
  <1>1. CASE v.type = "VAL_NULL"
    <2>1. copy = [val |-> BLAZE_NULL, tbl |-> t]
      BY <1>1 DEF val_copy_deep
    <2>2. BLAZE_NULL.type = "VAL_NULL" /\ BLAZE_NULL.self_ptr = 0 /\ BLAZE_NULL.ref = 0
      BY DEF BLAZE_NULL, Val
    <2>3. ValueIn(BLAZE_NULL, t)
      BY <1>0, <2>2 DEF ValueIn, ValueType, BLAZE_NULL
    <2> QED
      BY <1>1, <2>1, <2>2, <2>3, GrownSelf
  <1>2. CASE v.type = "VAL_STRING"
    <2>1. copy = NewString(t, t.texts[v.ref])
      BY <1>2 DEF val_copy_deep
    <2>2. t.texts[v.ref] \in Seq(Nat)
      BY <1>2 DEF TableOK, ValueIn
    <2> HIDE DEF copy
    <2> QED
      BY <1>2, <2>1, <2>2, NewStringIs DEF copy
  <1>3. ASSUME NEW type \in ValueType \ {"VAL_NULL", "VAL_FUNCTION", "VAL_STRING"}, NEW ref \in Int,
               copy = [val |-> Val(type, NextSlot(t), ref), tbl |-> val_create_heap(t, type, ref)],
               v.type = type
        PROVE  /\ Grown(t, copy.tbl) /\ ValueIn(copy.val, copy.tbl)
               /\ copy.val.type = v.type
               /\ Fresh(t, copy.tbl, copy.val)
    <2> DEFINE c == val_create_heap(t, type, ref)
               w == Val(type, NextSlot(t), ref)
    <2>1. c = [values |-> c.values, head |-> c.head, texts |-> t.texts, freed |-> t.freed]
      BY CreateIs
    <2>2. [c EXCEPT !.texts = t.texts] = c
      <3> HIDE DEF c
      <3> QED
        BY <2>1
    <2>3. t.texts \in Seq(Seq(Nat)) /\ Len(t.texts) <= Len(t.texts)
      BY <1>0 DEF TableOK
    <2>4. Grown(t, [c EXCEPT !.texts = t.texts]) /\ Fresh(t, [c EXCEPT !.texts = t.texts], w)
          /\ ValueIn(w, [c EXCEPT !.texts = t.texts])
      BY <2>3, MadeIs
    <2>5. copy.tbl = c /\ copy.val = w /\ w.type = type
      BY <1>3 DEF Val
    <2> QED
      BY <1>3, <2>2, <2>4, <2>5
  <1>4. CASE v.type \in {"VAL_INTEGER", "VAL_BOOLEAN", "VAL_FLOAT"}
    <2>1. copy = [val |-> Val(v.type, NextSlot(t), v.ref), tbl |-> val_create_heap(t, v.type, v.ref)]
      BY <1>4 DEF val_copy_deep
    <2>2. v.type \in ValueType \ {"VAL_NULL", "VAL_FUNCTION", "VAL_STRING"} /\ v.ref \in Int
      BY <1>4 DEF ValueIn, ValueType
    <2> HIDE DEF copy
    <2> QED
      BY <1>3, <1>4, <2>1, <2>2 DEF copy
  <1>5. CASE v.type = "VAL_ARRAY"
    <2>1. copy = [val |-> Val("VAL_ARRAY", NextSlot(t), 0), tbl |-> val_create_heap(t, "VAL_ARRAY", 0)]
      BY <1>5 DEF val_copy_deep
    <2>2. "VAL_ARRAY" \in ValueType \ {"VAL_NULL", "VAL_FUNCTION", "VAL_STRING"} /\ 0 \in Int
      BY DEF ValueType
    <2> HIDE DEF copy
    <2> QED
      BY <1>3, <1>5, <2>1, <2>2 DEF copy
  <1> QED
    BY <1>1, <1>2, <1>4, <1>5 DEF ValueIn, ValueType

(* val_alloc_free empties a slot and puts it in front of the list.         *)
LEMMA FreeIs ==
  ASSUME NEW t, TableOK(t), NEW slot \in 1..Len(t.values)
  PROVE  LET u == val_alloc_free(slot, t)
         IN  /\ TableOK(u)
             /\ Len(u.values) = Len(t.values) /\ u.texts = t.texts
             /\ Free(u) = Free(t) \cup {slot}
             /\ u.values[slot].type = "VAL_NULL"
             /\ \A k \in 1..Len(t.values) : k # slot => u.values[k] = t.values[k]
             /\ t.freed \subseteq u.freed
             /\ \A r \in u.freed : r \in t.freed \/ (t.values[slot].type = "VAL_STRING" /\ t.values[slot].ref = r)
             /\ HeadOK(t) /\ slot \notin Free(t) => HeadOK(u)
  <1> DEFINE u == val_alloc_free(slot, t)
             empty == [type |-> "VAL_NULL", nofree |-> TRUE, ref |-> 0]
             buffer == IF t.values[slot].type = "VAL_STRING" /\ ~t.values[slot].nofree
                       THEN {t.values[slot].ref} ELSE {}
  <1>0. /\ Sequence(t.values) /\ Sequence(t.head) /\ empty.type = "VAL_NULL"
        /\ Len(t.values) \in Nat /\ Len(t.head) \in Nat /\ DOMAIN t.head = 1..Len(t.head)
    BY TableLengths DEF TableOK
  <1>1. u = [values |-> [t.values EXCEPT ![slot] = empty], head |-> <<slot>> \o t.head,
             texts |-> t.texts, freed |-> t.freed \cup buffer]
    <2>1. u = [t EXCEPT !.head = <<slot>> \o @, !.freed = @ \cup buffer, !.values[slot] = empty]
      BY Zenon DEF val_alloc_free
    <2> HIDE DEF u, empty, buffer
    <2> QED
      BY <2>1 DEF TableOK
  <1>2. \A r \in buffer : t.values[slot].type = "VAL_STRING" /\ r = t.values[slot].ref
    OBVIOUS
  <1>3. buffer \subseteq 1..Len(t.texts)
    BY <1>2 DEF TableOK
  <1> HIDE DEF u, empty, buffer
  <1>4. /\ u.values = [t.values EXCEPT ![slot] = empty]
        /\ u.head = <<slot>> \o t.head
        /\ u.texts = t.texts
        /\ u.freed = t.freed \cup buffer
    BY <1>1
  <1>5. /\ Sequence(u.values)
        /\ Len(u.values) = Len(t.values)
        /\ \A i \in 1..Len(t.values) : i # slot => u.values[i] = t.values[i]
        /\ u.values[slot] = empty
    <2> DEFINE values == t.values
               r == [values EXCEPT ![slot] = empty]
    <2>1. Sequence(values) /\ slot \in 1..Len(values) /\ u.values = r
      BY <1>0, <1>4
    <2> HIDE DEF values
    <2>2. /\ Sequence(r)
          /\ Len(r) = Len(values)
          /\ \A i \in 1..Len(values) : i # slot => r[i] = values[i]
          /\ r[slot] = empty
      BY <2>1, ReplaceIs
    <2> HIDE DEF r
    <2> QED
      BY <2>1, <2>2 DEF values
  <1>6. /\ Sequence(u.head)
        /\ Len(u.head) = Len(t.head) + 1
        /\ \A i \in 1..Len(t.head) : u.head[i + 1] = t.head[i]
        /\ u.head[1] = slot
    BY <1>0, <1>4, ConsIs
  <1>7. DOMAIN u.head = 1..(Len(t.head) + 1)
    BY <1>6, SequenceIs
  <1>8. ASSUME NEW i \in DOMAIN u.head, i # 1
        PROVE  i - 1 \in DOMAIN t.head /\ u.head[i] = t.head[i - 1]
    <2>1. i - 1 \in 1..Len(t.head) /\ (i - 1) + 1 = i
      BY <1>0, <1>7, <1>8
    <2> QED
      BY <1>0, <1>6, <2>1
  <1>9. ASSUME NEW i \in DOMAIN t.head
        PROVE  i + 1 \in DOMAIN u.head /\ u.head[i + 1] = t.head[i]
    BY <1>0, <1>6, <1>7
  <1>10. 1 \in DOMAIN u.head
    BY <1>0, <1>7
  <1>11. Free(u) = Free(t) \cup {slot}
    BY <1>6, <1>8, <1>9, <1>10 DEF Free, Range
  <1>12. HeadOK(t) /\ slot \notin Free(t) => HeadOK(u)
    <2>1. SUFFICES ASSUME HeadOK(t), slot \notin Free(t) PROVE HeadOK(u)
      OBVIOUS
    <2>2. \A a, b \in DOMAIN t.head : t.head[a] = t.head[b] => a = b
      BY <2>1 DEF HeadOK, IsInjective
    <2>3. \A a \in DOMAIN t.head : t.head[a] # slot
      BY <2>1 DEF Free, Range
    <2>4. ASSUME NEW a \in DOMAIN u.head, NEW b \in DOMAIN u.head, u.head[a] = u.head[b]
          PROVE  a = b
      <3>0. a \in Int /\ b \in Int
        BY <1>7
      <3>1. CASE a = 1 /\ b = 1
        BY <3>1
      <3>2. CASE a = 1 /\ b # 1
        BY <1>6, <1>8, <2>3, <2>4, <3>2
      <3>3. CASE a # 1 /\ b = 1
        BY <1>6, <1>8, <2>3, <2>4, <3>3
      <3>4. CASE a # 1 /\ b # 1
        <4>1. a - 1 = b - 1
          BY <1>8, <2>2, <2>4, <3>4
        <4> QED
          BY <3>0, <4>1
      <3> QED
        BY <3>1, <3>2, <3>3, <3>4
    <2>5. ASSUME NEW k \in Free(u) PROVE u.values[k].type = "VAL_NULL"
      <3>1. CASE k = slot
        BY <1>0, <1>5, <3>1
      <3>2. CASE k # slot
        <4>1. k \in Free(t) /\ k \in 1..Len(t.values)
          BY <1>11, <3>2 DEF TableOK
        <4> QED
          BY <1>5, <2>1, <3>2, <4>1 DEF HeadOK
      <3> QED
        BY <3>1, <3>2
    <2> QED
      BY <2>4, <2>5 DEF HeadOK, IsInjective
  <1>13. TableOK(u)
    <2>1. u = [values |-> u.values, head |-> u.head, texts |-> u.texts, freed |-> u.freed]
      BY <1>1, <1>4
    <2>2. Free(u) \subseteq 1..Len(u.values) /\ u.freed \subseteq 1..Len(u.texts)
      BY <1>3, <1>4, <1>5, <1>11 DEF TableOK
    <2>3. ASSUME NEW k \in 1..Len(u.values), u.values[k].type = "VAL_STRING"
          PROVE  u.values[k].ref \in 1..Len(u.texts)
      <3>1. k # slot
        BY <1>0, <1>5, <2>3
      <3>2. k \in 1..Len(t.values) /\ u.values[k] = t.values[k]
        BY <1>5, <3>1
      <3> QED
        BY <1>4, <2>3, <3>2 DEF TableOK
    <2>4. u.texts \in Seq(Seq(Nat))
      BY <1>4 DEF TableOK
    <2> QED
      BY <1>5, <1>6, <2>1, <2>2, <2>3, <2>4 DEF TableOK
  <1>14. u.values[slot].type = "VAL_NULL"
    BY <1>0, <1>5
  <1>15. t.freed \subseteq u.freed
         /\ \A r \in u.freed : r \in t.freed \/ (t.values[slot].type = "VAL_STRING" /\ t.values[slot].ref = r)
    BY <1>2, <1>4
  <1> QED
    BY <1>4, <1>5, <1>11, <1>12, <1>13, <1>14, <1>15 DEF u

(* The table u is t after the values of the names T of a scope were given  *)
(* back.                                                                   *)
SlotsOf(sc, T) == {sc.vals[n].value.self_ptr : n \in T} \ {0}

SlotsDistinct(sc, t) ==
  /\ SlotsOf(sc, Names(sc)) \cap Free(t) = {}
  /\ \A m, n \in Names(sc) :
       sc.vals[m].value.self_ptr # 0 /\ sc.vals[m].value.self_ptr = sc.vals[n].value.self_ptr => m = n

Released(sc, t, u, T) ==
  /\ TableOK(u)
  /\ Len(u.values) = Len(t.values) /\ u.texts = t.texts
  /\ Free(u) = Free(t) \cup SlotsOf(sc, T)
  /\ \A k \in 1..Len(t.values) : k \notin SlotsOf(sc, T) => u.values[k] = t.values[k]
  /\ \A k \in SlotsOf(sc, T) : u.values[k].type = "VAL_NULL"
  /\ t.freed \subseteq u.freed
  /\ \A r \in u.freed : r \in t.freed \/ \E k \in SlotsOf(sc, T) : t.values[k].type = "VAL_STRING" /\ t.values[k].ref = r
  /\ HeadOK(t) /\ SlotsDistinct(sc, t) => HeadOK(u)

LEMMA ReleaseOne ==
  ASSUME NEW t, TableOK(t), NEW sc, \A n \in Names(sc) : ValueIn(sc.vals[n].value, t),
         NEW T \in SUBSET Names(sc), NEW n \in Names(sc) \ T, NEW u, Released(sc, t, u, T)
  PROVE  Released(sc, t, FreeValue(sc.vals[n].value, u), T \cup {n})
  <1> DEFINE v == sc.vals[n].value
             slot == v.self_ptr
             w == FreeValue(v, u)
  <1>1. slot \in 0..Len(t.values) /\ (v.type = "VAL_NULL" => slot = 0)
    BY DEF ValueIn
  <1>2. CASE slot = 0
    <2>1. w = u
      BY <1>2 DEF FreeValue
    <2>2. SlotsOf(sc, T \cup {n}) = SlotsOf(sc, T)
      BY <1>2 DEF SlotsOf
    <2> HIDE DEF w
    <2> QED
      BY <2>1, <2>2 DEF Released, w
  <1>3. CASE slot # 0
    <2>1. w = val_alloc_free(slot, u)
      BY <1>1, <1>3 DEF FreeValue
    <2>2. SlotsOf(sc, T \cup {n}) = SlotsOf(sc, T) \cup {slot}
      BY <1>3 DEF SlotsOf
    <2>3. slot \in 1..Len(u.values)
      BY <1>1, <1>3, TableLengths DEF Released
    <2>4. /\ TableOK(w)
          /\ Len(w.values) = Len(u.values) /\ w.texts = u.texts
          /\ Free(w) = Free(u) \cup {slot}
          /\ w.values[slot].type = "VAL_NULL"
          /\ \A k \in 1..Len(u.values) : k # slot => w.values[k] = u.values[k]
          /\ u.freed \subseteq w.freed
          /\ \A r \in w.freed : r \in u.freed \/ (u.values[slot].type = "VAL_STRING" /\ u.values[slot].ref = r)
          /\ HeadOK(u) /\ slot \notin Free(u) => HeadOK(w)
      <3>1. TableOK(u)
        BY DEF Released
      <3> HIDE DEF w, slot
      <3> QED
        BY <2>1, <2>3, <3>1, FreeIs
    <2>5. SlotsDistinct(sc, t) => slot \notin Free(u)
      <3>1. SUFFICES ASSUME SlotsDistinct(sc, t) PROVE slot \notin Free(t) /\ slot \notin SlotsOf(sc, T)
        BY DEF Released
      <3>2. slot \in SlotsOf(sc, Names(sc))
        BY <1>3 DEF SlotsOf
      <3>3. \A m \in T : sc.vals[m].value.self_ptr # slot
        BY <1>3, <3>1 DEF SlotsDistinct
      <3> QED
        BY <3>1, <3>2, <3>3 DEF SlotsDistinct, SlotsOf
    <2> HIDE DEF w, slot
    <2>6. ASSUME NEW k \in 1..Len(t.values), k \notin SlotsOf(sc, T \cup {n}) PROVE w.values[k] = t.values[k]
      <3>1. k \in 1..Len(u.values) /\ k # slot /\ k \notin SlotsOf(sc, T)
        BY <2>2, <2>6 DEF Released
      <3> QED
        BY <2>4, <3>1 DEF Released
    <2>7. ASSUME NEW k \in SlotsOf(sc, T \cup {n}) PROVE w.values[k].type = "VAL_NULL"
      <3>1. CASE k = slot
        BY <2>4, <3>1
      <3>2. CASE k # slot
        <4>1. k \in SlotsOf(sc, T)
          BY <2>2, <2>7, <3>2
        <4>2. k \in 1..Len(u.values)
          BY <4>1 DEF Released, TableOK
        <4> QED
          BY <2>4, <3>2, <4>1, <4>2 DEF Released
      <3> QED
        BY <3>1, <3>2
    <2>8. ASSUME NEW r \in w.freed, r \notin t.freed
          PROVE  \E k \in SlotsOf(sc, T \cup {n}) : t.values[k].type = "VAL_STRING" /\ t.values[k].ref = r
      <3>1. CASE r \in u.freed
        BY <2>2, <2>8, <3>1 DEF Released
      <3>2. CASE r \notin u.freed
        <4>1. u.values[slot].type = "VAL_STRING" /\ u.values[slot].ref = r
          BY <2>4, <3>2
        <4>2. slot \notin SlotsOf(sc, T)
          BY <4>1 DEF Released
        <4>3. t.values[slot] = u.values[slot]
          BY <2>3, <4>2 DEF Released
        <4> QED
          BY <2>2, <4>1, <4>3
      <3> QED
        BY <3>1, <3>2
    <2>9. Free(w) = Free(t) \cup SlotsOf(sc, T \cup {n})
      BY <2>2, <2>4 DEF Released
    <2>10. HeadOK(t) /\ SlotsDistinct(sc, t) => HeadOK(w)
      BY <2>4, <2>5 DEF Released
    <2>11. Len(w.values) = Len(t.values) /\ w.texts = t.texts /\ t.freed \subseteq w.freed /\ TableOK(w)
      BY <2>4 DEF Released
    <2> QED
      BY <2>6, <2>7, <2>8, <2>9, <2>10, <2>11 DEF Released, w
  <1> QED
    BY <1>2, <1>3

(* Sets are folded from the smallest to the largest.                       *)
LEMMA SmallerSet ==
  ASSUME NEW S, IsFiniteSet(S), NEW s \in SUBSET S, NEW x \in s
  PROVE  /\ Cardinality(s) \in Nat \ {0}
         /\ s \ {x} \in SUBSET S
         /\ Cardinality(s \ {x}) = Cardinality(s) - 1
  <1>1. IsFiniteSet(s)
    BY FS_Subset
  <1>2. Cardinality(s) \in Nat /\ Cardinality(s \ {x}) = Cardinality(s) - 1
    BY <1>1, FS_RemoveElement, FS_CardinalityType
  <1>3. Cardinality(s) # 0
    BY <1>1, FS_EmptySet
  <1> QED
    BY <1>2, <1>3

(* scope_free gives back the values of all names.                          *)
LEMMA FreeValuesIs ==
  ASSUME NEW t, TableOK(t), NEW sc, IsFiniteSet(Names(sc)),
         \A n \in Names(sc) : ValueIn(sc.vals[n].value, t)
  PROVE  Released(sc, t, scope_free_values(sc, t), Names(sc))
  <1> DEFINE S == Names(sc)
             Pick(s) == CHOOSE x \in s : TRUE
             Body(w, s) == IF s = {} THEN t ELSE FreeValue(sc.vals[Pick(s)].value, w[s \ {Pick(s)}])
             F(w) == [s \in SUBSET S |-> Body(w, s)]
             iter == CHOOSE w : w = F(w)
             Upto(k) == {s \in SUBSET S : Cardinality(s) <= k}
             Bad == {k \in Nat : ~\E w : w = [s \in Upto(k) |-> Body(w, s)]}
  <1>1. scope_free_values(sc, t) = iter[S]
    BY DEF scope_free_values, FoldSet, MapThenFoldSet
  <1>2. IsFiniteSet(S) /\ \A s \in SUBSET S : Cardinality(s) \in Nat /\ (s # {} => Pick(s) \in s)
    BY FS_Subset, FS_CardinalityType
  <1> HIDE DEF S
  <1>3. ASSUME NEW s \in SUBSET S, s # {}
        PROVE  /\ Pick(s) \in s
               /\ s \ {Pick(s)} \in SUBSET S
               /\ Cardinality(s) \in Nat \ {0}
               /\ Cardinality(s \ {Pick(s)}) = Cardinality(s) - 1
    BY <1>2, <1>3, SmallerSet
  <1> HIDE DEF Pick
  <1>4. ASSUME NEW k \in Nat, NEW v, NEW w, NEW s \in Upto(k),
               \A r \in SUBSET S : Cardinality(r) < k => w[r] = v[r]
        PROVE  Body(w, s) = Body(v, s)
    <2>1. CASE s = {}
      BY <2>1
    <2>2. CASE s # {}
      <3>1. w[s \ {Pick(s)}] = v[s \ {Pick(s)}]
        BY <1>3, <1>4, <2>2
      <3> QED
        BY <2>2, <3>1
    <2> QED
      BY <2>1, <2>2
  <1> HIDE DEF Body
  <1>5. Bad = {}
    <2>1. SUFFICES ASSUME Bad # {} PROVE FALSE
      OBVIOUS
    <2>2. PICK k \in Bad : \A j \in Bad : k <= j
      <3>1. Bad \subseteq Nat
        OBVIOUS
      <3> HIDE DEF Bad
      <3> QED
        BY <2>1, <3>1, LeastNat
    <2>3. k \in Nat /\ ~\E w : w = [s \in Upto(k) |-> Body(w, s)]
      BY <2>2
    <2>4. CASE k = 0
      <3> DEFINE w == [s \in Upto(0) |-> Body(<<>>, s)]
      <3>1. ASSUME NEW s \in Upto(0) PROVE Body(<<>>, s) = Body(w, s)
        <4>1. \A r \in SUBSET S : ~(Cardinality(r) < 0)
          BY <1>2
        <4> HIDE DEF w
        <4> QED
          BY <1>4, <4>1
      <3>2. w = [s \in Upto(0) |-> Body(w, s)]
        BY <3>1
      <3> HIDE DEF w
      <3> QED
        BY <2>3, <2>4, <3>2
    <2>5. CASE k # 0
      <3> DEFINE j == k - 1
      <3>0. j \in Nat /\ ~(k <= j)
        BY <2>3, <2>5
      <3>1. j \in Nat /\ j \notin Bad
        <4> HIDE DEF Bad, j
        <4> QED
          BY <2>2, <3>0
      <3>2. PICK v : v = [s \in Upto(k - 1) |-> Body(v, s)]
        <4> HIDE DEF Upto
        <4> QED
          BY <3>1
      <3> DEFINE w == [s \in Upto(k) |-> IF s \in Upto(k - 1) THEN v[s] ELSE Body(v, s)]
      <3>3. \A r \in SUBSET S : Cardinality(r) < k => r \in Upto(k - 1) /\ r \in Upto(k)
        BY <1>2, <2>3
      <3>4. \A r \in SUBSET S : Cardinality(r) < k => w[r] = v[r]
        BY <3>3
      <3>5. \A s \in Upto(k) : w[s] = Body(v, s)
        <4>1. \A s \in Upto(k - 1) : v[s] = Body(v, s)
          <5> HIDE DEF Upto
          <5> QED
            BY <3>2
        <4> QED
          BY <4>1
      <3>6. DOMAIN w = Upto(k) /\ w = [s \in Upto(k) |-> w[s]]
        OBVIOUS
      <3> HIDE DEF w
      <3>7. \A s \in Upto(k) : w[s] = Body(w, s)
        BY <1>4, <2>3, <3>4, <3>5
      <3>8. w = [s \in Upto(k) |-> Body(w, s)]
        <4> HIDE DEF Upto
        <4> QED
          BY <3>6, <3>7
      <3> QED
        BY <2>3, <3>8
    <2> QED
      BY <2>4, <2>5
  <1>6. PICK w : w = F(w)
    <2>1. Cardinality(S) \in Nat /\ Upto(Cardinality(S)) = SUBSET S
      BY <1>2, FS_Subset, FS_CardinalityType
    <2>2. \E w : w = [s \in Upto(Cardinality(S)) |-> Body(w, s)]
      BY <1>5, <2>1
    <2> HIDE DEF Upto
    <2> QED
      BY <2>1, <2>2
  <1>7. iter = F(iter)
    <2> HIDE DEF F
    <2> QED
      BY <1>6
  <1> HIDE DEF iter
  <1>8. \A s \in SUBSET S : iter[s] = Body(iter, s)
    BY <1>7
  <1> DEFINE Wrong == {k \in Nat : \E s \in SUBSET S : Cardinality(s) = k /\ ~Released(sc, t, iter[s], s)}
  <1>9. Wrong = {}
    <2>1. SUFFICES ASSUME Wrong # {} PROVE FALSE
      OBVIOUS
    <2>2. PICK k \in Wrong : \A j \in Wrong : k <= j
      <3>1. Wrong \subseteq Nat
        OBVIOUS
      <3> HIDE DEF Wrong
      <3> QED
        BY <2>1, <3>1, LeastNat
    <2>3. PICK s \in SUBSET S : Cardinality(s) = k /\ ~Released(sc, t, iter[s], s)
      BY <2>2
    <2>4. k \in Nat
      BY <2>2
    <2>5. CASE s = {}
      <3>1. iter[s] = t
        BY <1>8, <2>5 DEF Body
      <3>2. SlotsOf(sc, {}) = {}
        BY DEF SlotsOf
      <3>3. Released(sc, t, t, {})
        BY <3>2 DEF Released
      <3> QED
        BY <2>3, <2>5, <3>1, <3>3
    <2>6. CASE s # {}
      <3> DEFINE n == Pick(s)
                 T == s \ {n}
      <3>1. n \in s /\ T \in SUBSET S /\ Cardinality(T) = k - 1 /\ k - 1 \in Nat
        BY <1>3, <2>3, <2>4, <2>6
      <3>2. Released(sc, t, iter[T], T)
        <4>1. k - 1 \notin Wrong
          BY <2>2, <2>4
        <4> HIDE DEF T
        <4> QED
          BY <3>1, <4>1
      <3>3. iter[s] = FreeValue(sc.vals[n].value, iter[T])
        BY <1>8, <2>6 DEF Body
      <3>4. s = T \cup {n} /\ n \in Names(sc) \ T /\ T \in SUBSET Names(sc)
        BY <2>3, <3>1 DEF S
      <3> HIDE DEF n, T
      <3>5. Released(sc, t, iter[s], s)
        <4> DEFINE u == iter[T]
        <4>1. Released(sc, t, u, T)
          BY <3>2
        <4> HIDE DEF u
        <4>2. Released(sc, t, FreeValue(sc.vals[n].value, u), T \cup {n})
          BY <3>4, <4>1, ReleaseOne
        <4> QED
          BY <3>3, <3>4, <4>2, Zenon DEF u
      <3> QED
        BY <2>3, <3>5
    <2> QED
      BY <2>5, <2>6
  <1>10. Released(sc, t, iter[S], S)
    <2>1. S \in SUBSET S /\ Cardinality(S) \in Nat
      BY <1>2
    <2> QED
      BY <1>9, <2>1
  <1> QED
    BY <1>1, <1>10 DEF S

-----------------------------------------------------------------------------
(* Scopes.  A scope that is changed stays where it is in the tree, and its *)
(* table stays where it is in memory while it is less than 4/5 full.       *)
ScopeShape(sc) ==
  sc = [kind |-> sc.kind, parent |-> sc.parent, live |-> sc.live, vals |-> sc.vals,
        capacity |-> sc.capacity, mode |-> sc.mode, unique_id |-> sc.unique_id,
        prev_unique_id |-> sc.prev_unique_id]

Roomy(sc) == ~(5 * Elements(sc) >= 4 * sc.capacity)

Like(a, b) ==
  /\ ScopeShape(b)
  /\ b.kind = a.kind /\ b.parent = a.parent /\ b.live = a.live /\ b.mode = a.mode
  /\ Roomy(a) => b.capacity = a.capacity
  /\ a.capacity \in Nat => b.capacity \in Nat

SameIds(a, b) == b.unique_id = a.unique_id /\ b.prev_unique_id = a.prev_unique_id

(* The scope b is a with the name bound.                                   *)
BoundIn(a, b, name, binding) ==
  /\ Like(a, b) /\ SameIds(a, b)
  /\ Names(b) = Names(a) \cup {name}
  /\ b.vals[name] = binding
  /\ \A n \in Names(a) : n # name => b.vals[n] = a.vals[n]

Binding(val, is_const) == [value |-> val, is_const |-> is_const]

LEMMA NewScopeIs ==
  ASSUME NEW kind, NEW parent
  PROVE  LET sc == NewScope(kind, parent)
         IN  /\ ScopeShape(sc)
             /\ sc.kind = kind /\ sc.parent = parent /\ sc.live = TRUE /\ sc.mode = "SC_DEFAULT"
             /\ sc.vals = <<>> /\ Names(sc) = {} /\ sc.capacity = DefaultSize
             /\ sc.unique_id = 0 /\ sc.prev_unique_id = 0
  BY DEF NewScope, ScopeShape, Names

LEMMA ReallocIs ==
  ASSUME NEW sc, ScopeShape(sc)
  PROVE  LET b == valmap_check_realloc(sc)
         IN  Like(sc, b) /\ SameIds(sc, b) /\ b.vals = sc.vals
  <1> DEFINE b == valmap_check_realloc(sc)
             d == [sc EXCEPT !.capacity = 2 * @]
             full == 5 * Elements(sc) >= 4 * sc.capacity
  <1>1. b = IF full THEN d ELSE sc
    BY DEF valmap_check_realloc
  <1>2. ScopeShape(d) /\ d.kind = sc.kind /\ d.parent = sc.parent /\ d.live = sc.live /\ d.mode = sc.mode
        /\ d.vals = sc.vals /\ d.unique_id = sc.unique_id /\ d.prev_unique_id = sc.prev_unique_id
        /\ d.capacity = 2 * sc.capacity
    BY DEF ScopeShape
  <1>3. Roomy(sc) => b = sc
    BY <1>1 DEF Roomy
  <1> HIDE DEF full, d
  <1> QED
    BY <1>1, <1>2, <1>3 DEF Like, SameIds

LEMMA LikeSelf ==
  ASSUME NEW sc, ScopeShape(sc)
  PROVE  Like(sc, sc) /\ SameIds(sc, sc)
  BY DEF Like, SameIds

(* Bind changes one name.                                                  *)
LEMMA BindIs ==
  ASSUME NEW sc, NEW a, Like(sc, a), SameIds(sc, a), a.vals = sc.vals, NEW name, NEW val, NEW is_const
  PROVE  BoundIn(sc, Bind(a, name, val, is_const), name, Binding(val, is_const))
  <1> DEFINE vals == [n \in {name} \cup DOMAIN a.vals |->
                       IF n = name THEN [value |-> val, is_const |-> is_const] ELSE a.vals[n]]
             b == Bind(a, name, val, is_const)
  <1>1. b = [a EXCEPT !.vals = vals]
    BY DEF Bind
  <1>2. DOMAIN vals = {name} \cup DOMAIN a.vals
        /\ vals[name] = [value |-> val, is_const |-> is_const]
        /\ \A n \in DOMAIN a.vals : n # name => vals[n] = a.vals[n]
    OBVIOUS
  <1> HIDE DEF vals
  <1>3. ScopeShape(a)
    BY DEF Like
  <1>4. b = [kind |-> a.kind, parent |-> a.parent, live |-> a.live, vals |-> vals,
             capacity |-> a.capacity, mode |-> a.mode, unique_id |-> a.unique_id,
             prev_unique_id |-> a.prev_unique_id]
    BY <1>1, <1>3 DEF ScopeShape
  <1> HIDE DEF b
  <1>5. ScopeShape(b) /\ b.vals = vals /\ b.kind = a.kind /\ b.parent = a.parent /\ b.live = a.live
        /\ b.mode = a.mode /\ b.capacity = a.capacity /\ SameIds(a, b)
    BY <1>4 DEF ScopeShape, SameIds
  <1>6. Like(sc, b) /\ SameIds(sc, b)
    BY <1>5 DEF Like, SameIds
  <1>7. Names(b) = Names(sc) \cup {name} /\ b.vals[name] = Binding(val, is_const)
        /\ \A n \in Names(sc) : n # name => b.vals[n] = sc.vals[n]
    BY <1>2, <1>5 DEF Names, Binding
  <1> QED
    BY <1>6, <1>7 DEF BoundIn, b

LEMMA DeclareIs ==
  ASSUME NEW sc, ScopeShape(sc), NEW name, NEW val, NEW is_const
  PROVE  BoundIn(sc, scope_declare_identifier(sc, name, val, is_const), name, Binding(val, is_const))
  <1> DEFINE a == valmap_check_realloc(sc)
  <1>1. Like(sc, a) /\ SameIds(sc, a) /\ a.vals = sc.vals
    BY ReallocIs
  <1> HIDE DEF a
  <1>2. BoundIn(sc, Bind(a, name, val, is_const), name, Binding(val, is_const))
    BY <1>1, BindIs
  <1> QED
    BY <1>2 DEF scope_declare_identifier, a

(* A name that is bound gets the new value and stays constant or not.      *)
LEMMA OverwriteIs ==
  ASSUME NEW sc, NEW a, Like(sc, a), SameIds(sc, a), a.vals = sc.vals, NEW name \in Names(sc),
         sc.vals[name] = Binding(sc.vals[name].value, sc.vals[name].is_const), NEW val
  PROVE  BoundIn(sc, [a EXCEPT !.vals[name].value = val], name, Binding(val, sc.vals[name].is_const))
  <1> DEFINE vals == [sc.vals EXCEPT ![name].value = val]
             b == [a EXCEPT !.vals[name].value = val]
  <1>1. ScopeShape(a)
    BY DEF Like
  <1>2. b = [kind |-> a.kind, parent |-> a.parent, live |-> a.live, vals |-> vals,
             capacity |-> a.capacity, mode |-> a.mode, unique_id |-> a.unique_id,
             prev_unique_id |-> a.prev_unique_id]
    BY <1>1 DEF ScopeShape
  <1>3. DOMAIN vals = DOMAIN sc.vals /\ \A n \in DOMAIN sc.vals : n # name => vals[n] = sc.vals[n]
    OBVIOUS
  <1>4. vals[name] = [sc.vals[name] EXCEPT !.value = val]
    BY DEF Names
  <1>5. vals[name] = Binding(val, sc.vals[name].is_const)
    BY <1>4 DEF Binding
  <1> HIDE DEF b, vals
  <1>6. ScopeShape(b) /\ b.vals = vals /\ b.kind = a.kind /\ b.parent = a.parent /\ b.live = a.live
        /\ b.mode = a.mode /\ b.capacity = a.capacity /\ SameIds(a, b)
    BY <1>2 DEF ScopeShape, SameIds
  <1>7. Like(sc, b) /\ SameIds(sc, b)
    BY <1>6 DEF Like, SameIds
  <1>8. Names(b) = Names(sc) \cup {name}
    BY <1>3, <1>6 DEF Names
  <1>9. b.vals[name] = Binding(val, sc.vals[name].is_const)
        /\ \A n \in Names(sc) : n # name => b.vals[n] = sc.vals[n]
    BY <1>3, <1>5, <1>6 DEF Names
  <1> QED
    BY <1>7, <1>8, <1>9 DEF BoundIn, b

LEMMA SetDefaultIs ==
  ASSUME NEW sc, ScopeShape(sc), NEW name, NEW val, NEW is_const,
         name \in Names(sc) => sc.vals[name] = Binding(sc.vals[name].value, sc.vals[name].is_const)
  PROVE  BoundIn(sc, valmap_set_default(sc, name, val, is_const), name,
                 Binding(val, IF name \in Names(sc) THEN sc.vals[name].is_const ELSE is_const))
  <1> DEFINE a == valmap_check_realloc(sc)
  <1>1. Like(sc, a) /\ SameIds(sc, a) /\ a.vals = sc.vals
    BY ReallocIs
  <1>2. valmap_set_default(sc, name, val, is_const) =
          IF name \in Names(sc) THEN [a EXCEPT !.vals[name].value = val] ELSE Bind(a, name, val, is_const)
    BY DEF valmap_set_default
  <1> HIDE DEF a
  <1>3. CASE name \in Names(sc)
    <2>1. BoundIn(sc, [a EXCEPT !.vals[name].value = val], name, Binding(val, sc.vals[name].is_const))
      BY <1>1, <1>3, OverwriteIs
    <2> QED
      BY <1>2, <1>3, <2>1
  <1>4. CASE name \notin Names(sc)
    <2>1. BoundIn(sc, Bind(a, name, val, is_const), name, Binding(val, is_const))
      BY <1>1, BindIs
    <2> QED
      BY <1>2, <1>4, <2>1
  <1> QED
    BY <1>3, <1>4

(* The scopes after a name was bound in scope s, when others may have      *)
(* grown.                                                                  *)
Binds(a, b, s, name, binding) ==
  /\ Sequence(b) /\ Len(b) = Len(a)
  /\ \A t \in 1..Len(a) : t # s => Like(a[t], b[t]) /\ SameIds(a[t], b[t]) /\ b[t].vals = a[t].vals
  /\ BoundIn(a[s], b[s], name, binding)

LEMMA ReplaceScope ==
  ASSUME NEW a, Sequence(a), NEW s \in 1..Len(a), NEW e, NEW name, NEW binding,
         \A t \in 1..Len(a) : ScopeShape(a[t]), BoundIn(a[s], e, name, binding)
  PROVE  Binds(a, [a EXCEPT ![s] = e], s, name, binding)
  <1> DEFINE r == [a EXCEPT ![s] = e]
  <1>1. Sequence(r) /\ Len(r) = Len(a) /\ r[s] = e /\ \A i \in 1..Len(a) : i # s => r[i] = a[i]
    BY ONLY Sequence(a), s \in 1..Len(a), ReplaceIs
  <1> HIDE DEF r
  <1>2. \A t \in 1..Len(a) : t # s => Like(a[t], r[t]) /\ SameIds(a[t], r[t]) /\ r[t].vals = a[t].vals
    BY <1>1, LikeSelf
  <1>3. Binds(a, r, s, name, binding)
    BY <1>1, <1>2 DEF Binds
  <1> QED
    BY <1>3 DEF r

LEMMA AssignIs ==
  ASSUME NEW a, Tree(a), \A t \in 1..Len(a) : ScopeShape(a[t]), NEW s \in 1..Len(a), NEW name, NEW val,
         scope_resolve_identifier(a, s, name) \in Visited(a, s, name) \cap (1..Len(a)),
         LET home == scope_resolve_identifier(a, s, name)
         IN  name \in Names(a[home]) /\ a[home].vals[name] = Binding(a[home].vals[name].value, a[home].vals[name].is_const)
  PROVE  LET home == scope_resolve_identifier(a, s, name)
         IN  Binds(a, scope_assign_identifier(a, s, name, val), home, name,
                   Binding(val, a[home].vals[name].is_const))
  <1> DEFINE home == scope_resolve_identifier(a, s, name)
             visited == Visited(a, s, name)
             grown == [t \in DOMAIN a |-> IF t \in visited THEN valmap_check_realloc(a[t]) ELSE a[t]]
             last == [grown[home] EXCEPT !.vals[name].value = val]
             r == [grown EXCEPT ![home] = last]
             b == scope_assign_identifier(a, s, name, val)
  <1>0. Sequence(a) /\ Len(a) \in Nat /\ DOMAIN a = 1..Len(a)
    BY SequenceIs DEF Tree
  <1>1. b = [grown EXCEPT ![home].vals[name].value = val]
    BY DEF scope_assign_identifier
  <1>2. home \in visited /\ home \in 1..Len(a)
    OBVIOUS
  <1>3. b = r
    <2>1. home \in DOMAIN grown
      BY <1>0, <1>2
    <2> HIDE DEF grown, home
    <2> QED
      BY <1>1, <2>1
  <1>4. \A t \in 1..Len(a) : grown[t] = IF t \in visited THEN valmap_check_realloc(a[t]) ELSE a[t]
    BY <1>0
  <1>5. Sequence(grown) /\ Len(grown) = Len(a)
    <2>1. DOMAIN grown = 1..Len(a) /\ grown = [t \in DOMAIN grown |-> grown[t]]
      BY <1>0
    <2> HIDE DEF grown
    <2>2. grown = [t \in 1..Len(a) |-> grown[t]]
      BY <2>1
    <2> QED
      BY <1>0, <2>2, DomainIs
  <1> HIDE DEF grown, visited, home
  <1>6. ASSUME NEW t \in 1..Len(a)
        PROVE  Like(a[t], grown[t]) /\ SameIds(a[t], grown[t]) /\ grown[t].vals = a[t].vals
    BY <1>4, ReallocIs, LikeSelf
  <1>7. BoundIn(a[home], last, name, Binding(val, a[home].vals[name].is_const))
    BY <1>2, <1>6, OverwriteIs DEF home
  <1> HIDE DEF last
  <1>8. Sequence(r) /\ Len(r) = Len(grown) /\ r[home] = last /\ \A t \in 1..Len(grown) : t # home => r[t] = grown[t]
    BY <1>2, <1>5, ReplaceIs
  <1> HIDE DEF r, b
  <1>9. Binds(a, b, home, name, Binding(val, a[home].vals[name].is_const))
    BY <1>3, <1>5, <1>6, <1>7, <1>8 DEF Binds
  <1> QED
    BY <1>9 DEF b, home

LEMMA FreeScopeIs ==
  ASSUME NEW a, Sequence(a), NEW s \in 1..Len(a)
  PROVE  LET r == scope_free(a, s)
         IN  /\ Sequence(r) /\ Len(r) = Len(a)
             /\ \A t \in 1..Len(a) : t # s => r[t] = a[t]
             /\ ScopeShape(r[s]) /\ r[s].kind = a[s].kind /\ r[s].parent = a[s].parent
             /\ r[s].live = FALSE /\ r[s].mode = "SC_DEFAULT" /\ Names(r[s]) = {}
             /\ r[s].capacity = DefaultSize
  <1> DEFINE e == [NewScope(a[s].kind, a[s].parent) EXCEPT !.live = FALSE]
             r == [a EXCEPT ![s] = e]
  <1>1. Sequence(r) /\ Len(r) = Len(a) /\ r[s] = e /\ \A i \in 1..Len(a) : i # s => r[i] = a[i]
    <2> HIDE DEF e
    <2> QED
      BY ONLY Sequence(a), s \in 1..Len(a), ReplaceIs
  <1>2. scope_free(a, s) = r
    BY DEF scope_free
  <1>3. ScopeShape(e) /\ e.kind = a[s].kind /\ e.parent = a[s].parent
        /\ e.live = FALSE /\ e.mode = "SC_DEFAULT" /\ e.vals = <<>> /\ e.capacity = DefaultSize
    <2> DEFINE k == a[s].kind
               p == a[s].parent
               n == NewScope(k, p)
               dead == FALSE
               d == [n EXCEPT !.live = dead]
    <2>1. /\ ScopeShape(n)
          /\ n.kind = k /\ n.parent = p /\ n.mode = "SC_DEFAULT" /\ n.vals = <<>>
          /\ n.capacity = DefaultSize
      <3> HIDE DEF k, p
      <3> QED
        BY DEF NewScope, ScopeShape
    <2> HIDE DEF n, dead
    <2>2. ScopeShape(d) /\ d.kind = n.kind /\ d.parent = n.parent /\ d.live = dead
          /\ d.mode = n.mode /\ d.vals = n.vals /\ d.capacity = n.capacity
      BY <2>1 DEF ScopeShape
    <2>3. e = d
      BY DEF n, dead
    <2> HIDE DEF e, d
    <2> QED
      BY <2>1, <2>2, <2>3 DEF dead
  <1> HIDE DEF e, r
  <1>4. Names(e) = {}
    BY <1>3 DEF Names
  <1> QED
    BY <1>1, <1>2, <1>3, <1>4
=============================================================================
