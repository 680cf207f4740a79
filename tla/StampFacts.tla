------------------------------ MODULE StampFacts -------------------------------
(***************************************************************************)
(* What the proofs about lists and stamps rest on: FlattenSeq unfolded     *)
(* from its end, and the stamps that a list owes when its command k has    *)
(* left t of its own.                                                      *)
(***************************************************************************)
EXTENDS ScaCommands, Induction

--------------------------------------------------------------------------------
(* FlattenSeq.                                                             *)

(* The equation of its recursive function, for the first n of s. *)
Concat(s, t) == s \o t

Flattens(f, s, n) == f = [i \in 1..n |-> IF i = 1 THEN s[i] ELSE Concat(f[i-1], s[i])]

(* The function that FlattenSeq defines by recursion exists. *)
LEMMA FlattenFunction ==
  ASSUME NEW s, NEW n \in Nat
  PROVE  \E f : Flattens(f, s, n)
<1> DEFINE S == {k \in Nat : \E f : Flattens(f, s, k)}
<1>1. 0 \in S
  <2>1. Flattens([i \in {} |-> 0], s, 0)
    BY DEF Flattens
  <2> QED BY <2>1
<1>2. ASSUME NEW k \in S PROVE k + 1 \in S
  <2>1. PICK f : Flattens(f, s, k)
    OBVIOUS
  <2> DEFINE g == [i \in 1..(k+1) |->
                     IF i = 1 THEN s[i] ELSE IF i = k + 1 THEN Concat(f[k], s[i]) ELSE f[i]]
  <2>2. \A i \in 1..k : f[i] = g[i]
    BY <2>1 DEF Flattens
  <2>3. ASSUME NEW i \in 1..(k+1)
        PROVE  g[i] = IF i = 1 THEN s[i] ELSE Concat(g[i-1], s[i])
    <3>1. CASE i = 1
      BY <3>1
    <3>2. CASE i = k + 1 /\ i # 1
      <4>1. g[i] = Concat(f[k], s[i])
        BY <3>2
      <4>2. k \in 1..k /\ i - 1 = k
        BY <3>2
      <4> HIDE DEF g
      <4> QED BY <4>1, <4>2, <2>2, <3>2
    <3>3. CASE i # 1 /\ i # k + 1
      <4>1. i \in 1..k /\ i - 1 \in 1..k
        BY <3>3
      <4>2. f[i] = Concat(f[i-1], s[i])
        BY <2>1, <3>3, <4>1 DEF Flattens
      <4> HIDE DEF g
      <4> QED BY <4>1, <4>2, <2>2, <3>3
    <3> QED BY <3>1, <3>2, <3>3
  <2>4. Flattens(g, s, k + 1)
    BY <2>3 DEF Flattens
  <2> QED BY <2>4
<1>3. S = Nat
  BY <1>1, <1>2, NatInd
<1> QED BY <1>3

(* One step of that function. *)
LEMMA FlattensStep ==
  ASSUME NEW f, NEW s, NEW n \in Nat, Flattens(f, s, n), NEW i \in 1..n
  PROVE  f[i] = IF i = 1 THEN s[i] ELSE Concat(f[i-1], s[i])
  BY DEF Flattens

(* FlattenSeq takes the value of that function at the end of the sequence. *)
LEMMA FlattenIs ==
  ASSUME NEW n \in Nat \ {0}, NEW s, Len(s) = n
  PROVE  \E f : Flattens(f, s, n) /\ Seqs!FlattenSeq(s) = f[n]
<1> DEFINE F == CHOOSE f : Flattens(f, s, n)
<1>1. Flattens(F, s, n)
  BY FlattenFunction
<1>2. Seqs!FlattenSeq(s) = F[n]
  BY DEF Seqs!FlattenSeq, Flattens, Concat
<1> HIDE DEF F
<1> QED BY <1>1, <1>2

(* One sequence more is appended behind the others. *)
LEMMA FlattenSnoc ==
  ASSUME NEW T, NEW a \in Seq(Seq(T)), NEW b \in Seq(Seq(T)),
         Len(b) = Len(a) + 1, \A i \in 1..Len(a) : a[i] = b[i]
  PROVE  Seqs!FlattenSeq(b) = Seqs!FlattenSeq(a) \o b[Len(b)]
<1> DEFINE n == Len(a)
<1>0. n \in Nat /\ Len(b) = n + 1 /\ b[n+1] \in Seq(T)
  OBVIOUS
<1>1. PICK g : Flattens(g, b, n + 1) /\ Seqs!FlattenSeq(b) = g[n+1]
  <2>1. n + 1 \in Nat \ {0} /\ Len(b) = n + 1
    BY <1>0
  <2> HIDE DEF n
  <2> QED BY <2>1, FlattenIs
<1>2. CASE n = 0
  <2>1. a = <<>> /\ Seqs!FlattenSeq(a) = a
    BY <1>2 DEF Seqs!FlattenSeq
  <2>2. g[n+1] = b[1]
    BY <1>1, <1>2 DEF Flattens
  <2> QED BY <1>0, <1>1, <1>2, <2>1, <2>2
<1>3. CASE n > 0
  <2>0. n \in Nat \ {0} /\ Len(a) = n
    BY <1>0, <1>3
  <2> HIDE DEF n
  <2>1. PICK f : Flattens(f, a, n) /\ Seqs!FlattenSeq(a) = f[n]
    BY <2>0, FlattenIs
  <2> DEFINE S == {k \in Nat : k \in 1..n => f[k] = g[k]}
  <2>2. 0 \in S
    OBVIOUS
  <2>3. ASSUME NEW k \in S PROVE k + 1 \in S
    <3> SUFFICES ASSUME k + 1 \in 1..n PROVE f[k+1] = g[k+1]
      OBVIOUS
    <3>1. a[k+1] = b[k+1]
      BY DEF n
    <3>2. CASE k = 0
      BY <3>1, <3>2, <2>1, <1>1, <1>0 DEF Flattens
    <3>3. CASE k > 0
      <4>1. f[k] = g[k]
        BY <3>3, <1>0
      <4>2. f[k+1] = Concat(f[k], a[k+1])
        <5>1. k + 1 \in 1..n /\ k + 1 # 1 /\ (k + 1) - 1 = k
          BY <3>3
        <5> QED BY <5>1, <2>1, <1>0, FlattensStep
      <4>3. g[k+1] = Concat(g[k], b[k+1])
        <5>1. k + 1 \in 1..(n + 1) /\ k + 1 # 1 /\ (k + 1) - 1 = k /\ n + 1 \in Nat
          BY <3>3, <1>0
        <5>2. g[k+1] = IF k + 1 = 1 THEN b[k+1] ELSE Concat(g[(k+1)-1], b[k+1])
          <6> DEFINE m == n + 1
          <6>1. m \in Nat /\ k + 1 \in 1..m /\ Flattens(g, b, m)
            BY <5>1, <1>1
          <6> HIDE DEF m
          <6> QED BY <6>1, FlattensStep
        <5> QED BY <5>1, <5>2
      <4> QED BY <4>1, <4>2, <4>3, <3>1
    <3> QED BY <3>2, <3>3
  <2>4. S = Nat
    BY <2>2, <2>3, NatInd
  <2>5. f[n] = g[n]
    BY <2>4, <1>0, <1>3
  <2>6. g[n+1] = Concat(g[n], b[n+1])
    BY <1>0, <1>1, <1>3 DEF Flattens
  <2> QED BY <1>0, <1>1, <2>1, <2>5, <2>6 DEF Concat
<1> QED BY <1>0, <1>2, <1>3

--------------------------------------------------------------------------------
(* Stamps.                                                                 *)

(* How many stamps a command takes, for each kind of command. *)
LEMMA WidthOf ==
  ASSUME NEW c \in Command
  PROVE  /\ Width(c) \in Nat
         /\ c.cmd = "MEASURE" => Width(c) = c.repeat
         /\ c.cmd \in {"READ", "WRITE"} => Width(c) = 2 * c.repeat
         /\ c.cmd \notin {"MEASURE", "READ", "WRITE"} => Width(c) = 0
  BY DEF Command, Width, Primitive

(* What the assumption on the command lists says of one of them: it is not *)
(* empty, and EXIT stands at its end and nowhere else.                     *)
LEMMA ListFacts ==
  ASSUME NEW l \in CmdLists
  PROVE  /\ l \in Seq(Command)
         /\ Len(l) \in Nat \ {0}
         /\ \A k \in 1..Len(l) : l[k] \in Command
         /\ \A k \in 1..Len(l) : l[k].cmd = "EXIT" <=> k = Len(l)
  BY CmdListsAssumption DEF ExitTerminated

(* A command leaves stamps, as many as its width. *)
LEMMA StampOfType ==
  ASSUME NEW c \in Command, NEW n \in Nat
  PROVE  StampOf(c, n) \in Stamp
  BY DEF StampOf, Stamp, Command, Target

LEMMA StampsOfType ==
  ASSUME NEW c \in Command
  PROVE  StampsOf(c) \in Seq(Stamp) /\ Len(StampsOf(c)) = Width(c)
<1>1. Width(c) \in Nat
  BY WidthOf
<1>2. \A k \in 1..Width(c) : StampOf(c, k - 1) \in Stamp
  BY <1>1, StampOfType
<1> QED BY <1>1, <1>2 DEF StampsOf

(* The stamps of the first commands of a list, command by command. *)
LEMMA StampsOfFirstSteps ==
  ASSUME NEW l \in Seq(Command)
  PROVE  /\ StampsOfFirst(l, 0) = <<>>
         /\ \A n \in 1..Len(l) :
              StampsOfFirst(l, n) = StampsOfFirst(l, n - 1) \o StampsOf(l[n])
<1> DEFINE ofFirst(n) == [k \in 1..n |-> StampsOf(l[k])]
<1>1. StampsOfFirst(l, 0) = <<>>
  BY DEF StampsOfFirst, Seqs!FlattenSeq
<1>2. ASSUME NEW n \in 0..Len(l) PROVE ofFirst(n) \in Seq(Seq(Stamp)) /\ Len(ofFirst(n)) = n
  <2>1. \A k \in 1..n : StampsOf(l[k]) \in Seq(Stamp)
    BY StampsOfType
  <2> QED BY <2>1
<1>3. ASSUME NEW n \in 1..Len(l)
      PROVE  StampsOfFirst(l, n) = StampsOfFirst(l, n - 1) \o StampsOf(l[n])
  <2>1. /\ ofFirst(n) \in Seq(Seq(Stamp)) /\ Len(ofFirst(n)) = n
        /\ ofFirst(n - 1) \in Seq(Seq(Stamp)) /\ Len(ofFirst(n - 1)) = n - 1
    BY <1>2
  <2>2. \A k \in 1..(n - 1) : ofFirst(n - 1)[k] = ofFirst(n)[k]
    OBVIOUS
  <2>3. ofFirst(n)[n] = StampsOf(l[n])
    OBVIOUS
  <2> DEFINE a == ofFirst(n - 1)
             b == ofFirst(n)
  <2>4. /\ a \in Seq(Seq(Stamp)) /\ b \in Seq(Seq(Stamp))
        /\ Len(b) = n /\ Len(b) = Len(a) + 1 /\ \A k \in 1..Len(a) : a[k] = b[k]
    BY <2>1, <2>2
  <2>5. StampsOfFirst(l, n) = Seqs!FlattenSeq(b) /\ StampsOfFirst(l, n - 1) = Seqs!FlattenSeq(a)
    BY DEF StampsOfFirst
  <2>6. b[n] = StampsOf(l[n])
    BY <2>3
  <2> HIDE DEF a, b
  <2>7. Seqs!FlattenSeq(b) = Seqs!FlattenSeq(a) \o b[n]
    BY <2>4, FlattenSnoc
  <2> QED BY <2>5, <2>6, <2>7
<1> QED BY <1>1, <1>3

LEMMA ConcatType ==
  ASSUME NEW s \in Seq(Stamp), NEW t \in Seq(Stamp)
  PROVE  s \o t \in Seq(Stamp) /\ Len(s \o t) = Len(s) + Len(t)
  OBVIOUS

LEMMA ConcatAssoc ==
  ASSUME NEW s \in Seq(Stamp), NEW t \in Seq(Stamp), NEW u \in Seq(Stamp)
  PROVE  (s \o t) \o u = s \o (t \o u)
  OBVIOUS

LEMMA SameStamps ==
  ASSUME NEW s \in Seq(Stamp), NEW t \in Seq(Stamp), Len(s) = Len(t),
         \A k \in 1..Len(s) : s[k] = t[k]
  PROVE  s = t
  OBVIOUS

LEMMA StampsOfFirstType ==
  ASSUME NEW l \in Seq(Command), NEW n \in 0..Len(l)
  PROVE  StampsOfFirst(l, n) \in Seq(Stamp)
<1> DEFINE S == {k \in Nat : k <= Len(l) => StampsOfFirst(l, k) \in Seq(Stamp)}
<1>1. 0 \in S
  <2>1. StampsOfFirst(l, 0) = <<>>
    BY StampsOfFirstSteps
  <2>2. <<>> \in Seq(Stamp)
    OBVIOUS
  <2> QED BY <2>1, <2>2
<1>2. ASSUME NEW k \in S PROVE k + 1 \in S
  <2> SUFFICES ASSUME k + 1 <= Len(l) PROVE StampsOfFirst(l, k + 1) \in Seq(Stamp)
    OBVIOUS
  <2>1. StampsOfFirst(l, k) \in Seq(Stamp) /\ k + 1 \in 1..Len(l)
    OBVIOUS
  <2>2. StampsOfFirst(l, k + 1) = StampsOfFirst(l, k) \o StampsOf(l[k+1])
    BY <2>1, StampsOfFirstSteps
  <2>3. StampsOf(l[k+1]) \in Seq(Stamp)
    BY <2>1, StampsOfType
  <2> QED BY <2>1, <2>2, <2>3, ConcatType
<1>3. S = Nat
  BY <1>1, <1>2, NatInd
<1> QED BY <1>3

(* The stamps that have been taken form a sequence of stamps. *)
LEMMA StampsUpToType ==
  ASSUME NEW l \in Seq(Command), NEW p \in 0..Len(l), NEW t \in Nat
  PROVE  StampsUpTo(l, p, t) \in Seq(Stamp)
<1>1. CASE p = 0
  <2>1. <<>> \in Seq(Stamp)
    OBVIOUS
  <2> QED BY <1>1, <2>1 DEF StampsUpTo
<1>2. CASE p # 0
  <2> DEFINE own == [k \in 1..t |-> StampOf(l[p], k - 1)]
  <2>1. own \in Seq(Stamp)
    <3>1. \A k \in 1..t : StampOf(l[p], k - 1) \in Stamp
      BY <1>2, StampOfType
    <3> QED BY <3>1
  <2>2. StampsOfFirst(l, p - 1) \in Seq(Stamp)
    BY <1>2, StampsOfFirstType
  <2>3. StampsUpTo(l, p, t) = StampsOfFirst(l, p - 1) \o own
    BY <1>2 DEF StampsUpTo
  <2> HIDE DEF own
  <2> QED BY <2>1, <2>2, <2>3, ConcatType
<1> QED BY <1>1, <1>2

(* A stamp appended to a concatenation is appended to its second part. *)
LEMMA AppendConcat ==
  ASSUME NEW s \in Seq(Stamp), NEW t \in Seq(Stamp), NEW e \in Stamp
  PROVE  Append(s \o t, e) = s \o Append(t, e)
<1>1. Append(s \o t, e) \in Seq(Stamp) /\ s \o Append(t, e) \in Seq(Stamp)
  OBVIOUS
<1>2. Len(Append(s \o t, e)) = Len(s \o Append(t, e))
  OBVIOUS
<1>3. ASSUME NEW k \in 1..Len(Append(s \o t, e))
      PROVE  Append(s \o t, e)[k] = (s \o Append(t, e))[k]
  OBVIOUS
<1> QED BY <1>1, <1>2, <1>3

(* Taking a stamp of the current command, or asking for the next command   *)
(* when the current one has left its stamps.                               *)
LEMMA StampTaken ==
  ASSUME NEW l \in Seq(Command), NEW p \in 1..Len(l), NEW t \in Nat
  PROVE  StampsUpTo(l, p, t + 1) = Append(StampsUpTo(l, p, t), StampOf(l[p], t))
<1> DEFINE own(n) == [k \in 1..n |-> StampOf(l[p], k - 1)]
<1>1. ASSUME NEW n \in Nat PROVE own(n) \in Seq(Stamp)
  <2>1. \A k \in 1..n : StampOf(l[p], k - 1) \in Stamp
    BY StampOfType
  <2> QED BY <2>1
<1>2. own(t + 1) = Append(own(t), StampOf(l[p], t))
  OBVIOUS
<1>3. StampsOfFirst(l, p - 1) \in Seq(Stamp) /\ StampOf(l[p], t) \in Stamp
  BY StampsOfFirstType, StampOfType
<1>4. p # 0
  OBVIOUS
<1>5. \A n : StampsUpTo(l, p, n) = StampsOfFirst(l, p - 1) \o own(n)
  BY <1>4 DEF StampsUpTo
<1>6. own(t) \in Seq(Stamp)
  BY <1>1
<1> HIDE DEF own
<1>7. Append(StampsOfFirst(l, p - 1) \o own(t), StampOf(l[p], t))
        = StampsOfFirst(l, p - 1) \o Append(own(t), StampOf(l[p], t))
  <2> DEFINE a == StampsOfFirst(l, p - 1)
             b == own(t)
             e == StampOf(l[p], t)
  <2>1. a \in Seq(Stamp) /\ b \in Seq(Stamp) /\ e \in Stamp
    BY <1>3, <1>6
  <2> HIDE DEF a, b, e
  <2>2. Append(a \o b, e) = a \o Append(b, e)
    BY <2>1, AppendConcat
  <2> QED BY <2>2 DEF a, b, e
<1> QED BY <1>2, <1>5, <1>7

LEMMA CommandFetched ==
  ASSUME NEW l \in Seq(Command), NEW p \in 0..(Len(l) - 1),
         NEW t, t = IF p = 0 THEN 0 ELSE Width(l[p])
  PROVE  StampsUpTo(l, p + 1, 0) = StampsUpTo(l, p, t)
<1>1. StampsUpTo(l, p + 1, 0) = StampsOfFirst(l, p)
  <2>1. StampsOfFirst(l, p) \in Seq(Stamp)
    BY StampsOfFirstType
  <2>2. StampsUpTo(l, p + 1, 0) = StampsOfFirst(l, p) \o <<>>
    BY DEF StampsUpTo
  <2> QED BY <2>1, <2>2
<1>2. CASE p = 0
  BY <1>1, <1>2, StampsOfFirstSteps DEF StampsUpTo
<1>3. CASE p # 0
  <2>1. StampsOfFirst(l, p) = StampsOfFirst(l, p - 1) \o StampsOf(l[p])
    BY <1>3, StampsOfFirstSteps
  <2> QED BY <1>1, <1>3, <2>1 DEF StampsUpTo, StampsOf
<1> QED BY <1>2, <1>3

(* The stamps of a list that is served to its end. *)
LEMMA ListServed ==
  ASSUME NEW l \in Seq(Command), NEW p, p = Len(l), p > 0
  PROVE  StampsUpTo(l, p, Width(l[p])) = Expected(l)
<1>1. p # 0 /\ p \in 1..Len(l)
  OBVIOUS
<1>2. StampsOfFirst(l, p) = StampsOfFirst(l, p - 1) \o StampsOf(l[p])
  BY <1>1, StampsOfFirstSteps
<1> QED BY <1>1, <1>2 DEF StampsUpTo, StampsOf, Expected

(* Fewer commands leave a prefix of the stamps of more. *)
LEMMA StampsOfFirstExtend ==
  ASSUME NEW l \in Seq(Command), NEW p \in 0..Len(l), NEW n \in p..Len(l)
  PROVE  \E rest \in Seq(Stamp) : StampsOfFirst(l, n) = StampsOfFirst(l, p) \o rest
<1> DEFINE Extends(k) ==
             \E rest \in Seq(Stamp) : StampsOfFirst(l, k) = StampsOfFirst(l, p) \o rest
           S == {k \in Nat : p + k <= Len(l) => Extends(p + k)}
<1>0. p \in Nat /\ Len(l) \in Nat /\ StampsOfFirst(l, p) \in Seq(Stamp)
  BY StampsOfFirstType
<1>1. 0 \in S
  <2>1. StampsOfFirst(l, p) = StampsOfFirst(l, p) \o <<>> /\ <<>> \in Seq(Stamp)
    BY <1>0
  <2>2. p + 0 = p
    BY <1>0
  <2> QED BY <2>1, <2>2
<1>2. ASSUME NEW k \in S PROVE k + 1 \in S
  <2> SUFFICES ASSUME p + (k + 1) <= Len(l) PROVE Extends(p + (k + 1))
    <3> HIDE DEF Extends
    <3> QED OBVIOUS
  <2>1. p + k \in 0..Len(l) /\ p + (k + 1) \in 1..Len(l) /\ (p + (k + 1)) - 1 = p + k /\ p + k <= Len(l)
    BY <1>0
  <2>2. PICK rest \in Seq(Stamp) : StampsOfFirst(l, p + k) = StampsOfFirst(l, p) \o rest
    BY <2>1
  <2> DEFINE own == StampsOf(l[p + (k + 1)])
  <2>3. own \in Seq(Stamp)
    BY <2>1, StampsOfType
  <2>4. StampsOfFirst(l, p + (k + 1)) = StampsOfFirst(l, p + k) \o own
    BY <2>1, StampsOfFirstSteps
  <2> HIDE DEF own
  <2>5. (StampsOfFirst(l, p) \o rest) \o own = StampsOfFirst(l, p) \o (rest \o own)
    <3> DEFINE a == StampsOfFirst(l, p)
    <3>1. a \in Seq(Stamp)
      BY <1>0
    <3> HIDE DEF a
    <3>2. (a \o rest) \o own = a \o (rest \o own)
      BY <2>3, <3>1, ConcatAssoc
    <3> QED BY <3>2 DEF a
  <2>6. rest \o own \in Seq(Stamp)
    BY <2>3, ConcatType
  <2> QED BY <2>2, <2>4, <2>5, <2>6
<1>3. S = Nat
  <2> HIDE DEF Extends
  <2> QED BY <1>1, <1>2, NatInd
<1>4. n - p \in Nat /\ p + (n - p) = n /\ n <= Len(l)
  BY <1>0
<1> HIDE DEF Extends
<1>5. Extends(n)
  BY <1>3, <1>4
<1> QED BY <1>5 DEF Extends

(* What has been taken at any moment is a prefix of what is expected.      *)
LEMMA StampsUpToPrefix ==
  ASSUME NEW l \in Seq(Command), NEW p \in 0..Len(l),
         NEW t \in Nat, p > 0 => t <= Width(l[p])
  PROVE  \E rest \in Seq(Stamp) : Expected(l) = StampsUpTo(l, p, t) \o rest
<1>1. CASE p = 0
  <2>1. Expected(l) \in Seq(Stamp)
    BY StampsOfFirstType DEF Expected
  <2>2. Expected(l) = <<>> \o Expected(l)
    BY <2>1
  <2> QED BY <1>1, <2>1, <2>2 DEF StampsUpTo
<1>2. CASE p # 0
  <2> DEFINE own  == [k \in 1..t |-> StampOf(l[p], k - 1)]
             owed == [k \in 1..(Width(l[p]) - t) |-> StampOf(l[p], t + k - 1)]
             before == StampsOfFirst(l, p - 1)
  <2>0. l[p] \in Command /\ Width(l[p]) \in Nat /\ t <= Width(l[p])
    BY <1>2, WidthOf
  <2>1. own \in Seq(Stamp)
    <3>1. \A k \in 1..t : StampOf(l[p], k - 1) \in Stamp
      BY <2>0, StampOfType
    <3> QED BY <3>1
  <2>2. owed \in Seq(Stamp)
    <3>1. \A k \in 1..(Width(l[p]) - t) : StampOf(l[p], t + k - 1) \in Stamp
      BY <2>0, StampOfType
    <3>2. Width(l[p]) - t \in Nat
      BY <2>0
    <3> QED BY <3>1, <3>2
  <2>3. StampsOf(l[p]) = own \o owed
    <3>1. /\ StampsOf(l[p]) \in Seq(Stamp) /\ Len(StampsOf(l[p])) = Width(l[p])
          /\ \A k \in 1..Width(l[p]) : StampsOf(l[p])[k] = StampOf(l[p], k - 1)
      BY <2>0, StampsOfType DEF StampsOf
    <3>2. Len(own) = t /\ Len(owed) = Width(l[p]) - t
      BY <2>0
    <3>3. own \o owed \in Seq(Stamp) /\ Len(own \o owed) = Width(l[p])
      <4> HIDE DEF own, owed
      <4> QED BY <2>0, <2>1, <2>2, <3>2, ConcatType
    <3>4. ASSUME NEW k \in 1..Width(l[p]) PROVE (own \o owed)[k] = StampOf(l[p], k - 1)
      <4>1. (own \o owed)[k] = IF k <= t THEN own[k] ELSE owed[k - t]
        <5> HIDE DEF own, owed
        <5> QED BY <2>0, <2>1, <2>2, <3>2
      <4>2. CASE k <= t
        BY <4>1, <4>2
      <4>3. CASE k > t
        <5>1. k - t \in 1..(Width(l[p]) - t) /\ t + (k - t) - 1 = k - 1
          BY <4>3, <2>0
        <5>2. owed[k - t] = StampOf(l[p], t + (k - t) - 1)
          BY <5>1
        <5> QED BY <4>1, <4>3, <5>1, <5>2, <2>0
      <4> QED BY <4>2, <4>3, <2>0
    <3> DEFINE a == StampsOf(l[p])
               b == own \o owed
               w == Width(l[p])
    <3>5. /\ a \in Seq(Stamp) /\ b \in Seq(Stamp) /\ Len(a) = w /\ Len(b) = w /\ w \in Nat
          /\ \A k \in 1..w : a[k] = b[k]
      BY <3>1, <3>3, <3>4, <2>0
    <3> HIDE DEF a, b, w
    <3>6. a = b
      BY <3>5, SameStamps
    <3> QED BY <3>6 DEF a, b
  <2>4. before \in Seq(Stamp)
    BY <1>2, StampsOfFirstType
  <2>5. StampsUpTo(l, p, t) = before \o own
    BY <1>2 DEF StampsUpTo
  <2>6. StampsOfFirst(l, p) = before \o StampsOf(l[p])
    <3>1. p \in 1..Len(l)
      BY <1>2
    <3> QED BY <3>1, StampsOfFirstSteps
  <2>7. PICK rest \in Seq(Stamp) : Expected(l) = StampsOfFirst(l, p) \o rest
    <3>1. p \in 0..Len(l) /\ Len(l) \in p..Len(l)
      OBVIOUS
    <3> QED BY <3>1, StampsOfFirstExtend DEF Expected
  <2> HIDE DEF own, owed, before
  <2>8. owed \o rest \in Seq(Stamp)
    BY <2>2, ConcatType
  <2>9. (before \o (own \o owed)) \o rest = (before \o own) \o (owed \o rest)
    <3>1. rest \in Seq(Stamp) /\ own \o owed \in Seq(Stamp)
      BY <2>1, <2>2, ConcatType
    <3>2. (before \o (own \o owed)) \o rest = before \o ((own \o owed) \o rest)
      BY <2>4, <3>1, ConcatAssoc
    <3>3. (own \o owed) \o rest = own \o (owed \o rest)
      BY <2>1, <2>2, ConcatAssoc
    <3>4. (before \o own) \o (owed \o rest) = before \o (own \o (owed \o rest))
      BY <2>1, <2>4, <2>8, ConcatAssoc
    <3> QED BY <3>2, <3>3, <3>4
  <2> QED BY <2>3, <2>5, <2>6, <2>7, <2>8, <2>9
<1> QED BY <1>1, <1>2
================================================================================
