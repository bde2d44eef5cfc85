--------------------------- MODULE OSLoginProofs ---------------------------
(***************************************************************************)
(* Theorems about what OS Login gives sshd.  OSLoginConfig: for files of   *)
(* any length and content that the agent may find, any flags, edits,       *)
(* faults and crashes.  What the loops over lines compute is shown by      *)
(* induction over the lines: the inputs of which a claim holds are taken   *)
(* as a set.  SSHTrustedCA: for any number of sshd processes, any capacity *)
(* of the pipe and any number of failures.                                 *)
(***************************************************************************)
EXTENDS OSLoginConfig, SSHTrustedCA, SequenceTheorems, WellFoundedInduction, TLAPS

-----------------------------------------------------------------------------
(* Induction.                                                              *)

\* A set of numbers that is not empty has a least one.
LEMMA LeastNumber ==
    ASSUME NEW T \in SUBSET Nat, T # {}
    PROVE  \E x \in T : \A y \in T : x <= y
<1>1. IsWellFoundedOn(OpToRel(<, Nat), Nat)
  BY NatLessThanWellFounded
<1>2. PICK x \in T : \A y \in T : ~(<<y, x>> \in OpToRel(<, Nat))
  BY <1>1, WFMin, Zenon
<1>3. \A y \in T : ~(y < x)
  BY <1>2, Zenon DEF OpToRel
<1> QED BY <1>3

\* A set that holds 0, and with a number the next, holds them all.
LEMMA NumberInduction ==
    ASSUME NEW T, 0 \in T, \A n \in Nat : n \in T => n + 1 \in T
    PROVE  Nat \subseteq T
<1> SUFFICES ASSUME Nat \ T # {} PROVE FALSE
  OBVIOUS
<1>1. PICK x \in Nat \ T : \A y \in Nat \ T : x <= y
  BY LeastNumber
<1>2. x - 1 \in Nat /\ x - 1 \in T
  BY <1>1
<1> QED BY <1>1, <1>2

\* A set that holds the empty sequence, and with a sequence every one that is longer
\* by an element, holds all sequences.
LEMMA SequenceInduction ==
    ASSUME NEW L, NEW T, <<>> \in T,
           \A q \in Seq(L), e \in L : q \in T => Append(q, e) \in T
    PROVE  Seq(L) \subseteq T
<1> DEFINE N == {n \in Nat : \A q \in Seq(L) : Len(q) = n => q \in T}
<1>1. 0 \in N
  BY EmptySeq
<1>2. ASSUME NEW n \in Nat, n \in N PROVE n + 1 \in N
  <2> SUFFICES ASSUME NEW q \in Seq(L), Len(q) = n + 1 PROVE q \in T
    OBVIOUS
  <2>1. PICK p \in Seq(L), e \in L : q = Append(p, e)
    <3>1. q # <<>>
      OBVIOUS
    <3> QED BY <3>1, SequenceEmptyOrAppend
  <2>2. Len(p) = n
    BY <2>1
  <2>3. p \in T
    BY <1>2, <2>2
  <2> QED BY <2>1, <2>3
<1>3. Nat \subseteq N
  <2> HIDE DEF N
  <2> QED BY <1>1, <1>2, NumberInduction
<1> QED BY <1>3

-----------------------------------------------------------------------------
(* A loop over a sequence: f[n] is its state after n elements.             *)

IsLoop(step, start, q, f) ==
    f[0] = start /\ \A n \in 1..Len(q) : f[n] = step[<<f[n - 1], q[n]>>]

IsLonger(q, r) == Len(q) \in Nat /\ Len(r) = Len(q) + 1 /\ \A n \in 1..Len(q) : r[n] = q[n]
IsNext(step, q, r, f, g) == g[Len(r)] = step[<<f[Len(q)], r[Len(r)]>>]

\* Every loop has its states.
LEMMA LoopExists ==
    ASSUME NEW S, NEW L, NEW step \in [S \X L -> S], NEW start \in S, NEW q \in Seq(L)
    PROVE  \E f \in [0..Len(q) -> S] : IsLoop(step, start, q, f)
<1> DEFINE Upto(m) ==
        \E f \in [0..m -> S] : f[0] = start /\ \A n \in 1..m : f[n] = step[<<f[n - 1], q[n]>>]
<1> DEFINE T == {m \in Nat : m <= Len(q) => Upto(m)}
<1>1. 0 \in T
  <2>1. [n \in 0..0 |-> start] \in [0..0 -> S]
    OBVIOUS
  <2>2. [n \in 0..0 |-> start][0] = start /\ \A n \in 1..0 : FALSE
    OBVIOUS
  <2>3. Upto(0)
    BY <2>1, <2>2
  <2> QED BY <2>3
<1>2. ASSUME NEW m \in Nat, m \in T PROVE m + 1 \in T
  <2> SUFFICES ASSUME m + 1 <= Len(q) PROVE Upto(m + 1)
    OBVIOUS
  <2>1. PICK f \in [0..m -> S] : f[0] = start /\ \A n \in 1..m : f[n] = step[<<f[n - 1], q[n]>>]
    BY <1>2
  <2>2. q[m + 1] \in L /\ f[m] \in S
    OBVIOUS
  <2> DEFINE g == [n \in 0..(m + 1) |-> IF n <= m THEN f[n] ELSE step[<<f[m], q[m + 1]>>]]
  <2>3. g \in [0..(m + 1) -> S]
    BY <2>2
  <2>4. g[0] = start
    BY <2>1
  <2>5. ASSUME NEW n \in 1..(m + 1) PROVE g[n] = step[<<g[n - 1], q[n]>>]
    <3>1. n - 1 \in 0..m /\ g[n - 1] = f[n - 1]
      OBVIOUS
    <3>2. CASE n <= m
      BY <2>1, <3>1, <3>2
    <3>3. CASE n = m + 1
      <4>1. g[n] = step[<<f[m], q[m + 1]>>] /\ n - 1 = m
        BY <3>3
      <4> QED BY <3>1, <3>3, <4>1
    <3> QED BY <3>2, <3>3
  <2> QED BY <2>3, <2>4, <2>5
<1>3. Nat \subseteq T
  <2> HIDE DEF T
  <2> QED BY <1>1, <1>2, NumberInduction
<1> QED BY <1>3 DEF IsLoop

\* A loop over a longer sequence first does what the loop over the shorter one does.
LEMMA LoopLonger ==
    ASSUME NEW step, NEW start, NEW q, NEW r, NEW f, NEW g,
           IsLonger(q, r), IsLoop(step, start, q, f), IsLoop(step, start, r, g)
    PROVE  IsNext(step, q, r, f, g)
<1> USE DEF IsLonger, IsNext
<1> DEFINE T == {m \in Nat : m <= Len(q) => f[m] = g[m]}
<1>1. 0 \in T
  BY DEF IsLoop
<1>2. ASSUME NEW m \in Nat, m \in T PROVE m + 1 \in T
  <2> SUFFICES ASSUME m + 1 <= Len(q) PROVE f[m + 1] = g[m + 1]
    OBVIOUS
  <2>1. m + 1 \in 1..Len(q) /\ m + 1 \in 1..Len(r) /\ (m + 1) - 1 = m
    OBVIOUS
  <2>2. f[m + 1] = step[<<f[m], q[m + 1]>>]
    BY <2>1 DEF IsLoop
  <2>3. g[m + 1] = step[<<g[m], r[m + 1]>>]
    BY <2>1 DEF IsLoop
  <2>4. r[m + 1] = q[m + 1] /\ f[m] = g[m]
    BY <1>2, <2>1
  <2> QED BY <2>2, <2>3, <2>4
<1>3. Nat \subseteq T
  <2> HIDE DEF T
  <2> QED BY <1>1, <1>2, NumberInduction
<1>4. f[Len(q)] = g[Len(q)]
  BY <1>3
<1>5. Len(r) \in 1..Len(r) /\ Len(r) - 1 = Len(q)
  OBVIOUS
<1> QED BY <1>4, <1>5 DEF IsLoop

-----------------------------------------------------------------------------
(* The loop of filterGoogleLines().                                        *)

States == [google : BOOLEAN, block : BOOLEAN, out : Seq(Lines)]
FilterStep == [x \in States \X Lines |-> FilterLine(x[1], x[2])]

\* A line leads from a state to a state.
LEMMA FilterLineType ==
    ASSUME NEW s \in States, NEW line \in Lines PROVE FilterLine(s, line) \in States
<1> DEFINE keep == [s EXCEPT !.out = Append(@, line)]
<1>1. keep \in States
  BY DEF States
<1>2. [s EXCEPT !.google = TRUE] \in States /\ [s EXCEPT !.google = FALSE] \in States
  BY DEF States
<1>3. [s EXCEPT !.block = FALSE, !.google = FALSE] \in States /\ [s EXCEPT !.block = TRUE] \in States
  BY DEF States
<1> QED BY <1>1, <1>2, <1>3 DEF FilterLine

\* FilterLoop() is the end of a loop, through states.
LEMMA FilterLoopStates ==
    ASSUME NEW q \in Seq(Lines)
    PROVE  \E f \in [0..Len(q) -> States] :
              IsLoop(FilterStep, FilterStart, q, f) /\ FilterLoop(q) = f[Len(q)]
<1> DEFINE Body(h) == [n \in 0..Len(q) |-> IF n = 0 THEN FilterStart ELSE FilterLine(h[n - 1], q[n])]
<1>1. FilterStep \in [States \X Lines -> States] /\ FilterStart \in States
  <2>1. FilterStart \in States
    BY DEF FilterStart, States
  <2>2. \A x \in States \X Lines : FilterLine(x[1], x[2]) \in States
    BY FilterLineType
  <2> QED BY <2>1, <2>2 DEF FilterStep
<1>2. \A s \in States, line \in Lines : FilterStep[<<s, line>>] = FilterLine(s, line)
  BY DEF FilterStep
<1>3. PICK f \in [0..Len(q) -> States] : IsLoop(FilterStep, FilterStart, q, f)
  BY <1>1, LoopExists
<1>4. f = Body(f)
  <2>1. DOMAIN Body(f) = 0..Len(q) /\ DOMAIN f = 0..Len(q)
    OBVIOUS
  <2>2. ASSUME NEW n \in 1..Len(q) PROVE f[n] = FilterLine(f[n - 1], q[n])
    <3>1. f[n - 1] \in States /\ q[n] \in Lines
      OBVIOUS
    <3> QED BY <1>2, <1>3, <3>1 DEF IsLoop
  <2>3. ASSUME NEW n \in 0..Len(q) PROVE f[n] = Body(f)[n]
    BY <1>3, <2>2 DEF IsLoop
  <2> QED BY <2>1, <2>3
<1> DEFINE g == CHOOSE h : h = Body(h)
<1>5. g = Body(g)
  <2> HIDE DEF Body
  <2> QED BY <1>4
<1>6. FilterLoop(q) = g[Len(q)]
  BY DEF FilterLoop
<1> HIDE DEF g
<1>7. DOMAIN g = 0..Len(q) /\ g[0] = FilterStart
  BY <1>5
<1>8. \A n \in 1..Len(q) : g[n] = FilterLine(g[n - 1], q[n])
  BY <1>5
<1> DEFINE T == {m \in Nat : m <= Len(q) => g[m] \in States}
<1>9. Nat \subseteq T
  <2>1. 0 \in T
    BY <1>1, <1>7
  <2>2. ASSUME NEW m \in Nat, m \in T PROVE m + 1 \in T
    <3> SUFFICES ASSUME m + 1 <= Len(q) PROVE g[m + 1] \in States
      OBVIOUS
    <3>1. g[m] \in States /\ q[m + 1] \in Lines /\ g[m + 1] = FilterLine(g[m], q[m + 1])
      BY <1>8, <2>2
    <3> QED BY <3>1, FilterLineType
  <2> HIDE DEF T
  <2> QED BY <2>1, <2>2, NumberInduction
<1>10. g \in [0..Len(q) -> States]
  <2>1. \A n \in 0..Len(q) : g[n] \in States
    BY <1>9
  <2>2. g = [n \in 0..Len(q) |-> g[n]]
    BY <1>5, <1>7
  <2> QED BY <2>1, <2>2
<1>11. IsLoop(FilterStep, FilterStart, q, g)
  <2> SUFFICES ASSUME NEW n \in 1..Len(q) PROVE g[n] = FilterStep[<<g[n - 1], q[n]>>]
    BY <1>7 DEF IsLoop
  <2>1. g[n - 1] \in States /\ q[n] \in Lines
    BY <1>10
  <2> QED BY <1>2, <1>8, <2>1
<1> QED BY <1>6, <1>10, <1>11

\* What the loop does, by the last line.
LEMMA FilterLoopAppend ==
    /\ FilterLoop(<<>>) = FilterStart
    /\ \A q \in Seq(Lines) : FilterLoop(q) \in States
    /\ \A q \in Seq(Lines), line \in Lines :
          FilterLoop(Append(q, line)) = FilterLine(FilterLoop(q), line)
<1>1. FilterLoop(<<>>) = FilterStart
  <2>1. <<>> \in Seq(Lines) /\ Len(<<>>) = 0
    OBVIOUS
  <2> QED BY <2>1, FilterLoopStates DEF IsLoop
<1>2. ASSUME NEW q \in Seq(Lines) PROVE FilterLoop(q) \in States
  BY FilterLoopStates
<1>3. ASSUME NEW q \in Seq(Lines), NEW line \in Lines
      PROVE  FilterLoop(Append(q, line)) = FilterLine(FilterLoop(q), line)
  <2>1. PICK f \in [0..Len(q) -> States] :
            IsLoop(FilterStep, FilterStart, q, f) /\ FilterLoop(q) = f[Len(q)]
    BY FilterLoopStates
  <2>2. PICK r \in Seq(Lines) : r = Append(q, line)
    OBVIOUS
  <2>3. Len(r) = Len(q) + 1 /\ r[Len(r)] = line /\ \A n \in 1..Len(q) : r[n] = q[n]
    BY <2>2
  <2>4. PICK g \in [0..Len(r) -> States] :
            IsLoop(FilterStep, FilterStart, r, g) /\ FilterLoop(r) = g[Len(r)]
    BY FilterLoopStates
  <2>5. g[Len(r)] = FilterStep[<<f[Len(q)], line>>]
    <3>1. IsLonger(q, r)
      BY <2>3 DEF IsLonger
    <3>2. IsNext(FilterStep, q, r, f, g)
      BY <2>1, <2>4, <3>1, LoopLonger, Zenon
    <3> QED BY <2>3, <3>2 DEF IsNext
  <2>6. FilterStep[<<FilterLoop(q), line>>] = FilterLine(FilterLoop(q), line)
    BY <1>2 DEF FilterStep
  <2> QED BY <2>1, <2>2, <2>4, <2>5, <2>6
<1> QED BY <1>1, <1>2, <1>3
-----------------------------------------------------------------------------
(* The lines of a kind.                                                    *)

NoLines == <<>>
OnlyStep(S) == [x \in Seq(Lines) \X Lines |-> KeepIn(S, x[1], x[2])]

\* Only() is the end of a loop, through sequences of lines.
LEMMA OnlyStates ==
    ASSUME NEW S, NEW q \in Seq(Lines)
    PROVE  \E f \in [0..Len(q) -> Seq(Lines)] :
              IsLoop(OnlyStep(S), NoLines, q, f) /\ Only(S, q) = f[Len(q)]
<1> DEFINE Body(h) ==
        [n \in 0..Len(q) |->
            IF n = 0 THEN NoLines ELSE KeepIn(S, h[n - 1], q[n])]
<1>1. \A p \in Seq(Lines), line \in Lines :
        OnlyStep(S)[<<p, line>>] = KeepIn(S, p, line) /\ KeepIn(S, p, line) \in Seq(Lines)
  BY DEF OnlyStep, KeepIn
<1>2. PICK f \in [0..Len(q) -> Seq(Lines)] : IsLoop(OnlyStep(S), NoLines, q, f)
  <2>1. PICK step : step = OnlyStep(S)
    OBVIOUS
  <2>2. step \in [Seq(Lines) \X Lines -> Seq(Lines)]
    BY <2>1 DEF OnlyStep, KeepIn
  <2>3. NoLines \in Seq(Lines)
    BY DEF NoLines
  <2> QED BY <2>1, <2>2, <2>3, LoopExists
<1>3. f[0] = NoLines /\ \A n \in 1..Len(q) : f[n] = OnlyStep(S)[<<f[n - 1], q[n]>>]
  BY <1>2 DEF IsLoop
<1>4. f = Body(f)
  <2>1. DOMAIN Body(f) = 0..Len(q) /\ DOMAIN f = 0..Len(q)
    OBVIOUS
  <2>2. ASSUME NEW n \in 1..Len(q)
        PROVE  f[n] = KeepIn(S, f[n - 1], q[n])
    <3>1. f[n - 1] \in Seq(Lines) /\ q[n] \in Lines
      OBVIOUS
    <3> QED BY <1>1, <1>3, <3>1
  <2>3. ASSUME NEW n \in 0..Len(q) PROVE f[n] = Body(f)[n]
    <3>1. CASE n = 0
      BY <1>3, <3>1
    <3>2. CASE n \in 1..Len(q)
      BY <2>2, <3>2
    <3> QED BY <3>1, <3>2
  <2> QED BY <2>1, <2>3
<1> DEFINE g == CHOOSE h : h = Body(h)
<1>5. g = Body(g)
  <2> HIDE DEF Body
  <2> QED BY <1>4
<1>6. Only(S, q) = g[Len(q)]
  BY DEF Only, NoLines
<1> HIDE DEF g
<1>7. DOMAIN g = 0..Len(q) /\ g[0] = NoLines
  BY <1>5
<1>8. \A n \in 1..Len(q) : g[n] = KeepIn(S, g[n - 1], q[n])
  BY <1>5
<1> DEFINE T == {m \in Nat : m <= Len(q) => g[m] \in Seq(Lines)}
<1>9. Nat \subseteq T
  <2>1. 0 \in T
    BY <1>7 DEF NoLines
  <2>2. ASSUME NEW m \in Nat, m \in T PROVE m + 1 \in T
    <3> SUFFICES ASSUME m + 1 <= Len(q) PROVE g[m + 1] \in Seq(Lines)
      OBVIOUS
    <3>1. /\ g[m] \in Seq(Lines) /\ q[m + 1] \in Lines
          /\ g[m + 1] = KeepIn(S, g[m], q[m + 1])
      BY <1>8, <2>2
    <3> QED BY <1>1, <3>1
  <2> HIDE DEF T
  <2> QED BY <2>1, <2>2, NumberInduction
<1>10. g \in [0..Len(q) -> Seq(Lines)]
  <2>1. \A n \in 0..Len(q) : g[n] \in Seq(Lines)
    BY <1>9
  <2>2. g = [n \in 0..Len(q) |-> g[n]]
    BY <1>5, <1>7
  <2> QED BY <2>1, <2>2
<1>11. IsLoop(OnlyStep(S), NoLines, q, g)
  <2> SUFFICES ASSUME NEW n \in 1..Len(q) PROVE g[n] = OnlyStep(S)[<<g[n - 1], q[n]>>]
    BY <1>7 DEF IsLoop
  <2>1. g[n - 1] \in Seq(Lines) /\ q[n] \in Lines
    BY <1>10
  <2> QED BY <1>1, <1>8, <2>1
<1> QED BY <1>6, <1>10, <1>11

\* What Only() keeps, by the last line.
LEMMA OnlyAppend ==
    ASSUME NEW S
    PROVE  /\ Only(S, <<>>) = <<>>
           /\ \A q \in Seq(Lines) : Only(S, q) \in Seq(Lines)
           /\ \A q \in Seq(Lines), line \in Lines :
                Only(S, Append(q, line)) = KeepIn(S, Only(S, q), line)
<1>1. Only(S, <<>>) = <<>>
  <2>1. <<>> \in Seq(Lines) /\ Len(<<>>) = 0
    BY EmptySeq
  <2>2. PICK q \in Seq(Lines) : q = <<>> /\ Len(q) = 0
    BY <2>1
  <2>3. PICK f \in [0..Len(q) -> Seq(Lines)] :
            IsLoop(OnlyStep(S), NoLines, q, f) /\ Only(S, q) = f[Len(q)]
    BY OnlyStates
  <2>4. Only(S, q) = NoLines
    BY <2>2, <2>3 DEF IsLoop
  <2> QED BY <2>2, <2>4 DEF NoLines
<1>2. ASSUME NEW q \in Seq(Lines) PROVE Only(S, q) \in Seq(Lines)
  BY OnlyStates
<1>3. ASSUME NEW q \in Seq(Lines), NEW line \in Lines
      PROVE  Only(S, Append(q, line)) = KeepIn(S, Only(S, q), line)
  <2>1. PICK f \in [0..Len(q) -> Seq(Lines)] :
            IsLoop(OnlyStep(S), NoLines, q, f) /\ Only(S, q) = f[Len(q)]
    BY OnlyStates
  <2>2. PICK r \in Seq(Lines) : r = Append(q, line)
    OBVIOUS
  <2>3. Len(r) = Len(q) + 1 /\ r[Len(r)] = line /\ \A n \in 1..Len(q) : r[n] = q[n]
    BY <2>2
  <2>4. PICK g \in [0..Len(r) -> Seq(Lines)] :
            IsLoop(OnlyStep(S), NoLines, r, g) /\ Only(S, r) = g[Len(r)]
    BY OnlyStates
  <2>5. g[Len(r)] = OnlyStep(S)[<<f[Len(q)], line>>]
    <3>1. IsLonger(q, r)
      BY <2>3 DEF IsLonger
    <3>2. IsNext(OnlyStep(S), q, r, f, g)
      BY <2>1, <2>4, <3>1, LoopLonger, Zenon
    <3> QED BY <2>3, <3>2 DEF IsNext
  <2>6. OnlyStep(S)[<<Only(S, q), line>>] = KeepIn(S, Only(S, q), line)
    BY <1>2 DEF OnlyStep
  <2> QED BY <2>1, <2>2, <2>4, <2>5, <2>6
<1> QED BY <1>1, <1>2, <1>3
\* An element is added to the second of two sequences.
LEMMA ConcatAppend ==
    ASSUME NEW L, NEW a \in Seq(L), NEW b \in Seq(L), NEW e \in L
    PROVE  a \o Append(b, e) = Append(a \o b, e)
<1>1. Append(b, e) = b \o <<e>> /\ <<e>> \in Seq(L)
  BY AppendIsConcat
<1>2. a \o b \in Seq(L) /\ Append(a \o b, e) = (a \o b) \o <<e>>
  BY ConcatProperties, AppendIsConcat
<1>3. a \o (b \o <<e>>) = (a \o b) \o <<e>>
  BY <1>1, ConcatAssociative
<1> QED BY <1>1, <1>2, <1>3

\* Lines that are put together are kept together.
LEMMA OnlyConcat ==
    ASSUME NEW S, NEW a \in Seq(Lines), NEW b \in Seq(Lines)
    PROVE  Only(S, a \o b) = Only(S, a) \o Only(S, b)
<1> DEFINE T == {q \in Seq(Lines) : Only(S, a \o q) = Only(S, a) \o Only(S, q)}
<1>1. <<>> \in T
  <2>1. Only(S, a) \in Seq(Lines) /\ Only(S, <<>>) = <<>>
    BY OnlyAppend
  <2>2. a \o <<>> = a /\ Only(S, a) \o <<>> = Only(S, a)
    BY <2>1, ConcatEmptySeq
  <2> QED BY <2>1, <2>2, EmptySeq
<1>2. ASSUME NEW q \in Seq(Lines), NEW e \in Lines, q \in T PROVE Append(q, e) \in T
  <2>1. Append(q, e) \in Seq(Lines) /\ a \o q \in Seq(Lines) /\ a \o Append(q, e) = Append(a \o q, e)
    BY ConcatAppend, ConcatProperties, AppendProperties
  <2>2. Only(S, a) \in Seq(Lines) /\ Only(S, q) \in Seq(Lines)
    BY OnlyAppend
  <2>3. Only(S, Append(a \o q, e)) = KeepIn(S, Only(S, a) \o Only(S, q), e)
    <3>1. Only(S, Append(a \o q, e)) = KeepIn(S, Only(S, a \o q), e)
      BY <2>1, OnlyAppend, Zenon
    <3> QED BY <1>2, <3>1
  <2>4. Only(S, Append(q, e)) = KeepIn(S, Only(S, q), e)
    BY OnlyAppend
  <2>5. CASE e \in S
    <3>1. Only(S, a) \o Append(Only(S, q), e) = Append(Only(S, a) \o Only(S, q), e)
      <4>1. PICK x \in Seq(Lines), y \in Seq(Lines) : x = Only(S, a) /\ y = Only(S, q)
        BY <2>2
      <4>2. x \o Append(y, e) = Append(x \o y, e)
        BY ConcatAppend
      <4> QED BY <4>1, <4>2
    <3> QED BY <2>1, <2>3, <2>4, <2>5, <3>1, Zenon DEF KeepIn
  <2>6. CASE e \notin S
    BY <2>1, <2>2, <2>3, <2>4, <2>6 DEF KeepIn
  <2> QED BY <2>5, <2>6
<1>3. Seq(Lines) \subseteq T
  <2> HIDE DEF T
  <2> QED BY <1>1, <1>2, SequenceInduction
<1> QED BY <1>3

\* Nothing is kept of lines of other kinds.
LEMMA OnlyNone ==
    ASSUME NEW S, NEW b \in Seq(Lines \ S)
    PROVE  Only(S, b) = <<>>
<1> DEFINE T == {q \in Seq(Lines) : Only(S, q) = <<>>}
<1>1. <<>> \in T
  BY OnlyAppend, EmptySeq
<1>2. ASSUME NEW q \in Seq(Lines \ S), NEW e \in Lines \ S, q \in T PROVE Append(q, e) \in T
  <2>1. q \in Seq(Lines) /\ Append(q, e) \in Seq(Lines)
    BY <1>2, AppendProperties
  <2>2. Only(S, Append(q, e)) = KeepIn(S, Only(S, q), e)
    BY <2>1, OnlyAppend
  <2> QED BY <1>2, <2>1, <2>2 DEF KeepIn
<1>3. Seq(Lines \ S) \subseteq T
  <2> HIDE DEF T
  <2> QED BY <1>1, <1>2, SequenceInduction
<1> QED BY <1>3
-----------------------------------------------------------------------------
(* What the filter leaves of the agent's lines and of others.              *)

Plain == UserLines \cup {""}

\* The loop is outside of what is marked.
Outside(o) == [google |-> FALSE, block |-> FALSE, out |-> o]

\* Lines that are not the agent's stay.
LEMMA FilterPlain ==
    ASSUME NEW q \in Seq(Lines), NEW o \in Seq(Lines), FilterLoop(q) = Outside(o), NEW b \in Seq(Plain)
    PROVE  FilterLoop(q \o b) = Outside(o \o b)
<1> DEFINE T == {p \in Seq(Lines) : FilterLoop(q \o p) = Outside(o \o p)}
<1>1. <<>> \in T
  BY ConcatEmptySeq, EmptySeq
<1>2. ASSUME NEW p \in Seq(Plain), NEW e \in Plain, p \in T PROVE Append(p, e) \in T
  <2>1. e \in Lines /\ e \notin {"C", "S", "E"}
    BY ConfigAssumption DEF Plain, Lines, AgentLines
  <2>2. /\ Append(p, e) \in Seq(Lines) /\ q \o p \in Seq(Lines) /\ o \o p \in Seq(Lines)
        /\ q \o Append(p, e) = Append(q \o p, e) /\ o \o Append(p, e) = Append(o \o p, e)
    BY <1>2, <2>1, ConcatAppend, ConcatProperties, AppendProperties
  <2>3. FilterLoop(Append(q \o p, e)) = FilterLine(FilterLoop(q \o p), e)
    BY <2>1, <2>2, FilterLoopAppend, Zenon
  <2>4. PICK x \in Seq(Lines) : x = o \o p
    BY <2>2
  <2>5. FilterLine(Outside(x), e) = Outside(Append(x, e))
    BY <2>1 DEF FilterLine, Outside
  <2>6. FilterLoop(q \o p) = Outside(x)
    BY <1>2, <2>4
  <2>7. FilterLoop(q \o Append(p, e)) = Outside(o \o Append(p, e))
    BY <2>2, <2>3, <2>4, <2>5, <2>6, Zenon
  <2> QED BY <2>2, <2>7
<1>3. Seq(Plain) \subseteq T
  <2> HIDE DEF T
  <2> QED BY <1>1, <1>2, SequenceInduction
<1> QED BY <1>3

\* A block goes.
LEMMA FilterBlock ==
    ASSUME NEW q \in Seq(Lines), NEW o \in Seq(Lines), FilterLoop(q) = Outside(o),
           NEW b \in Seq(AgentLines \ {"E"})
    PROVE  FilterLoop(q \o Block(b)) = Outside(o)
<1> DEFINE In == [google |-> FALSE, block |-> TRUE, out |-> o]
<1>1. PICK r \in Seq(Lines) : r = Append(q, "S")
  BY AppendProperties DEF Lines, AgentLines
<1>2. FilterLoop(r) = In
  <2>1. FilterLoop(r) = FilterLine(Outside(o), "S")
    BY <1>1, FilterLoopAppend DEF Lines, AgentLines
  <2>2. FilterLine(Outside(o), "S") = In
    BY DEF FilterLine, Outside
  <2> QED BY <2>1, <2>2
<1> DEFINE T == {p \in Seq(Lines) : FilterLoop(r \o p) = In}
<1>3. <<>> \in T
  BY <1>2, ConcatEmptySeq, EmptySeq
<1>4. ASSUME NEW p \in Seq(AgentLines \ {"E"}), NEW e \in AgentLines \ {"E"}, p \in T
      PROVE  Append(p, e) \in T
  <2>1. e \in Lines
    BY DEF Lines
  <2>2. Append(p, e) \in Seq(Lines) /\ r \o p \in Seq(Lines) /\ r \o Append(p, e) = Append(r \o p, e)
    BY <1>4, <2>1, ConcatAppend, ConcatProperties, AppendProperties
  <2>3. FilterLoop(Append(r \o p, e)) = FilterLine(In, e)
    <3>1. FilterLoop(Append(r \o p, e)) = FilterLine(FilterLoop(r \o p), e)
      BY <2>1, <2>2, FilterLoopAppend, Zenon
    <3> QED BY <1>4, <3>1
  <2>4. FilterLine(In, e) = In
    BY DEF FilterLine
  <2> QED BY <2>2, <2>3, <2>4
<1>5. Seq(AgentLines \ {"E"}) \subseteq T
  <2> HIDE DEF T
  <2> QED BY <1>3, <1>4, SequenceInduction
<1>6. b \in Seq(Lines) /\ FilterLoop(r \o b) = In
  BY <1>5
<1>7. q \o Block(b) = Append(r \o b, "E") /\ r \o b \in Seq(Lines)
  BY <1>1, <1>6 DEF Block
<1>8. FilterLoop(q \o Block(b)) = FilterLine(In, "E")
  <2>1. "E" \in Lines
    BY DEF Lines, AgentLines
  <2>2. FilterLoop(Append(r \o b, "E")) = FilterLine(FilterLoop(r \o b), "E")
    BY <1>7, <2>1, FilterLoopAppend, Zenon
  <2> QED BY <1>6, <1>7, <2>2
<1> QED BY <1>8 DEF FilterLine, Outside

\* A comment goes, with the line it marks.
LEMMA FilterComment ==
    ASSUME NEW q \in Seq(Lines), NEW o \in Seq(Lines), FilterLoop(q) = Outside(o)
    PROVE  FilterLoop(q \o <<"C", "video">>) = Outside(o)
<1>1. "C" \in Lines /\ "video" \in Lines
  BY DEF Lines, AgentLines
<1>2. PICK r \in Seq(Lines) : r = Append(q, "C")
  BY <1>1, AppendProperties
<1>3. FilterLoop(r) = FilterLine(Outside(o), "C")
  BY <1>1, <1>2, FilterLoopAppend
<1>4. FilterLoop(Append(r, "video")) = FilterLine(FilterLoop(r), "video")
  BY <1>1, <1>2, FilterLoopAppend
<1>5. q \o <<"C", "video">> = Append(r, "video")
  BY <1>1, <1>2
<1>6. FilterLine(FilterLine(Outside(o), "C"), "video") = Outside(o)
  BY DEF FilterLine, Outside
<1> QED BY <1>3, <1>4, <1>5, <1>6

\* A line above the others stays, and changes nothing for them.
LEMMA FilterAbove ==
    ASSUME NEW line \in UserLines, NEW q \in Seq(Lines)
    PROVE  FilterLoop(<<line>> \o q) = [FilterLoop(q) EXCEPT !.out = <<line>> \o @]
<1> DEFINE Above(s) == [s EXCEPT !.out = <<line>> \o @]
<1> DEFINE T == {p \in Seq(Lines) : FilterLoop(<<line>> \o p) = Above(FilterLoop(p))}
<1>1. <<line>> \in Seq(Lines) /\ line \in Lines /\ line \notin {"C", "S", "E"}
  <2>1. line \in Lines /\ line \notin {"C", "S", "E"}
    BY ConfigAssumption DEF Lines, AgentLines
  <2> QED BY <2>1
<1>2. <<>> \in T
  <2>1. FilterLoop(<<>>) = FilterStart
    BY FilterLoopAppend
  <2>2. <<line>> \o <<>> = Append(<<>>, line) /\ <<>> \in Seq(Lines)
    BY <1>1
  <2>3. FilterLoop(Append(<<>>, line)) = FilterLine(FilterStart, line)
    BY <1>1, <2>1, <2>2, FilterLoopAppend
  <2>4. FilterLine(FilterStart, line) = Above(FilterStart)
    BY <1>1, <2>2 DEF FilterLine, FilterStart
  <2> QED BY <2>1, <2>2, <2>3, <2>4
<1>3. ASSUME NEW p \in Seq(Lines), NEW e \in Lines, p \in T PROVE Append(p, e) \in T
  <2>1. /\ Append(p, e) \in Seq(Lines) /\ <<line>> \o p \in Seq(Lines)
        /\ <<line>> \o Append(p, e) = Append(<<line>> \o p, e)
    BY <1>1, ConcatAppend, ConcatProperties, AppendProperties
  <2>2. FilterLoop(Append(<<line>> \o p, e)) = FilterLine(FilterLoop(<<line>> \o p), e)
    BY <2>1, FilterLoopAppend, Zenon
  <2>3. PICK s \in States : s = FilterLoop(p)
    BY FilterLoopAppend
  <2>4. FilterLine(Above(s), e) = Above(FilterLine(s, e))
    <3>1. s.out \in Seq(Lines) /\ <<line>> \o Append(s.out, e) = Append(<<line>> \o s.out, e)
      BY <1>1, ConcatAppend DEF States
    <3> QED BY <3>1 DEF FilterLine, States
  <2>5. FilterLoop(Append(p, e)) = FilterLine(s, e)
    BY <2>3, FilterLoopAppend
  <2> QED BY <1>3, <2>1, <2>2, <2>3, <2>4, <2>5
<1>4. Seq(Lines) \subseteq T
  <2> HIDE DEF T
  <2> QED BY <1>2, <1>3, SequenceInduction
<1> QED BY <1>4
-----------------------------------------------------------------------------
(* What the agent writes: lines of its own, the filtered ones, and lines   *)
(* of its own again.                                                       *)

\* The filter takes the agent's lines t away, wherever they are put.
Gone(t) ==
    /\ t \in Seq(AgentLines)
    /\ \A q \in Seq(Lines), o \in Seq(Lines) :
          FilterLoop(q) = Outside(o) => FilterLoop(q \o t) = Outside(o)

Top(file, f) ==
    CASE ~f.enable \/ file = "group" -> <<>>
      [] f.enable /\ file = "sshd" -> SSHHeader(f)
      [] f.enable /\ file = "pam" -> Block(When(f.twofactor, <<"pam_login">>) \o <<"pam_group">>)
Bottom(file, f) ==
    CASE ~f.enable -> <<>>
      [] f.enable /\ file = "sshd" -> SSHFooter(f)
      [] f.enable /\ file = "pam" -> Block(<<"pam_mkhomedir">>)
      [] f.enable /\ file = "group" -> <<"C", "video">>

Written(t, g, b) == Joined(t \o (g \o b))
OwnLines(t, b) == Only(AgentLines, t) \o Only(AgentLines, b)

\* Nothing, a block, and a marked line are taken away.
LEMMA GoneLines ==
    /\ Gone(<<>>) /\ Gone(<<"C", "video">>)
    /\ \A b \in Seq(AgentLines \ {"E"}) : Gone(Block(b))
<1>1. Gone(<<>>)
  BY ConcatEmptySeq, EmptySeq DEF Gone
<1>2. Gone(<<"C", "video">>)
  <2>1. <<"C", "video">> \in Seq(AgentLines)
    BY DEF AgentLines
  <2> QED BY <2>1, FilterComment, Zenon DEF Gone
<1>3. ASSUME NEW b \in Seq(AgentLines \ {"E"}) PROVE Gone(Block(b))
  <2>1. b \in Seq(AgentLines) /\ <<"S">> \in Seq(AgentLines) /\ <<"E">> \in Seq(AgentLines)
    BY DEF AgentLines
  <2>2. Block(b) \in Seq(AgentLines)
    BY <2>1 DEF Block
  <2> QED BY <2>2, FilterBlock, Zenon DEF Gone
<1> QED BY <1>1, <1>2, <1>3

\* The agent's lines of each file.
LEMMA AgentLinesGone ==
    ASSUME NEW file \in Files, NEW f \in Flags
    PROVE  Gone(Top(file, f)) /\ Gone(Bottom(file, f))
<1> DEFINE A == AgentLines \ {"E"}
<1>1. /\ <<>> \in Seq(A) /\ <<"ca">> \in Seq(A) /\ <<"keys">> \in Seq(A) /\ <<"keys_sk">> \in Seq(A)
      /\ <<"2fa">> \in Seq(A) /\ <<"include">> \in Seq(A) /\ <<"match">> \in Seq(A)
      /\ <<"pam_login">> \in Seq(A) /\ <<"pam_group">> \in Seq(A) /\ <<"pam_mkhomedir">> \in Seq(A)
  BY DEF AgentLines
<1> HIDE DEF A
<1>2. \A x \in Seq(A), y \in Seq(A) : x \o y \in Seq(A)
  BY ConcatProperties
<1>3. \A x \in Seq(A), cond \in BOOLEAN : When(cond, x) \in Seq(A)
  BY <1>1 DEF When
<1>4. f.enable \in BOOLEAN /\ f.twofactor \in BOOLEAN /\ f.skey \in BOOLEAN /\ f.reqCerts \in BOOLEAN
  BY DEF Flags
<1>5. Gone(SSHHeader(f))
  <2> DEFINE ca == When(CertAuthentication /\ ~f.skey, <<"ca">>)
             keys == <<IF f.skey THEN "keys_sk" ELSE "keys">>
             auth == IF f.reqCerts /\ ~f.skey THEN <<"ca">> ELSE ca \o keys
             two == When(f.twofactor, <<"2fa">>)
  <2>1. ca \in Seq(A) /\ two \in Seq(A)
    BY <1>1, <1>3, <1>4, ConfigAssumption
  <2>2. keys \in Seq(A)
    BY <1>1
  <2>3. auth \in Seq(A)
    BY <1>1, <1>2, <2>1, <2>2, Zenon
  <2>4. auth \o two \in Seq(A)
    BY <1>2, <2>1, <2>3, Zenon
  <2>5. SSHHeader(f) = Block(auth \o two)
    BY DEF SSHHeader
  <2> HIDE DEF auth, two
  <2> QED BY <2>4, <2>5, GoneLines DEF A
<1>6. Gone(SSHFooter(f))
  <2>1. <<"include">> \o When(f.twofactor, <<"match">>) \in Seq(A)
    BY <1>1, <1>2, <1>3, <1>4, Zenon
  <2> QED BY <2>1, GoneLines, Zenon DEF SSHFooter, A
<1>7. Gone(Block(When(f.twofactor, <<"pam_login">>) \o <<"pam_group">>))
  <2>1. When(f.twofactor, <<"pam_login">>) \o <<"pam_group">> \in Seq(A)
    BY <1>1, <1>2, <1>3, <1>4, Zenon
  <2> QED BY <2>1, GoneLines, Zenon DEF A
<1>8. Gone(Block(<<"pam_mkhomedir">>))
  BY <1>1, GoneLines, Zenon DEF A
<1>9. Gone(Top(file, f))
  BY <1>4, <1>5, <1>7, GoneLines, Zenon DEF Top, Files
<1>10. Gone(Bottom(file, f))
  BY <1>4, <1>6, <1>8, GoneLines, Zenon DEF Bottom, Files
<1> QED BY <1>9, <1>10

\* The proposed contents, of every file.
LEMMA UpdateIsWritten ==
    ASSUME NEW file \in Files, NEW f \in Flags, NEW lines, FilterGoogleLines(lines) \in Seq(Lines)
    PROVE  Update(file, lines, f) = Written(Top(file, f), FilterGoogleLines(lines), Bottom(file, f))
<1>1. f.enable \in BOOLEAN
  BY DEF Flags
<1>2. PICK g \in Seq(Lines) : g = FilterGoogleLines(lines)
  OBVIOUS
<1>3. <<>> \o (g \o <<>>) = g
  BY ConcatEmptySeq
<1>4. Top(file, f) \in Seq(Lines) /\ Bottom(file, f) \in Seq(Lines)
  <2>1. Top(file, f) \in Seq(AgentLines) /\ Bottom(file, f) \in Seq(AgentLines)
    BY AgentLinesGone, Zenon DEF Gone
  <2>2. AgentLines \subseteq Lines
    BY DEF Lines
  <2> QED BY <2>1, <2>2, SeqMonotonic
<1>5. (Top(file, f) \o g) \o Bottom(file, f) = Top(file, f) \o (g \o Bottom(file, f))
  BY <1>4, ConcatAssociative
<1>6. CASE ~f.enable
  <2>1. Top(file, f) = <<>> /\ Bottom(file, f) = <<>>
    BY <1>6, Zenon DEF Top, Bottom
  <2>2. Update(file, lines, f) = Joined(g)
    <3>1. g \o <<>> = g
      BY ConcatEmptySeq
    <3> QED BY <1>2, <1>6, <3>1
            DEF Update, UpdateSSHConfig, UpdatePAMsshdPamless, UpdateGroupConf, When, Files
  <2> QED BY <1>2, <1>3, <2>1, <2>2, Zenon DEF Written
<1>7. CASE f.enable /\ file = "sshd"
  <2>1. Top(file, f) = SSHHeader(f) /\ Bottom(file, f) = SSHFooter(f)
    BY <1>7, Zenon DEF Top, Bottom
  <2>2. Update(file, lines, f) = Joined((SSHHeader(f) \o g) \o SSHFooter(f))
    BY <1>2, <1>7, Zenon DEF Update, UpdateSSHConfig
  <2> QED BY <1>2, <1>5, <2>1, <2>2, Zenon DEF Written
<1>8. CASE f.enable /\ file = "pam"
  <2> DEFINE top == Block(When(f.twofactor, <<"pam_login">>) \o <<"pam_group">>)
  <2>1. Top(file, f) = top /\ Bottom(file, f) = Block(<<"pam_mkhomedir">>)
    BY <1>8, Zenon DEF Top, Bottom
  <2>2. Update(file, lines, f) = Joined((top \o g) \o Block(<<"pam_mkhomedir">>))
    BY <1>2, <1>8, Zenon DEF Update, UpdatePAMsshdPamless
  <2> QED BY <1>2, <1>5, <2>1, <2>2, Zenon DEF Written
<1>9. CASE f.enable /\ file = "group"
  <2>1. Top(file, f) = <<>> /\ Bottom(file, f) = <<"C", "video">>
    BY <1>9, Zenon DEF Top, Bottom
  <2>2. Update(file, lines, f) = Joined(g \o <<"C", "video">>)
    BY <1>2, <1>9, Zenon DEF Update, UpdateGroupConf, When
  <2>3. <<>> \o (g \o <<"C", "video">>) = g \o <<"C", "video">>
    <3>1. g \o Bottom(file, f) \in Seq(Lines)
      BY <1>4, ConcatProperties
    <3> QED BY <2>1, <3>1, ConcatEmptySeq
  <2> QED BY <1>2, <2>1, <2>2, <2>3, Zenon DEF Written
<1> QED BY <1>1, <1>6, <1>7, <1>8, <1>9 DEF Files
\* The last element, and the others.
LEMMA LastOfAppend ==
    ASSUME NEW L, NEW q \in Seq(L), NEW e \in L, NEW w, w = Append(q, e)
    PROVE  w \in Seq(L) /\ w # <<>> /\ Last(w) = e /\ Front(w) = q
<1>1. w \in Seq(L) /\ w # <<>> /\ Len(w) = Len(q) + 1 /\ w[Len(q) + 1] = e
  BY AppendProperties
<1>2. \A i \in 1..Len(q) : w[i] = q[i]
  BY AppendProperties
<1>3. PICK f : f = Front(w)
  OBVIOUS
<1>4. f \in Seq(L) /\ Len(f) = Len(q) /\ \A i \in 1..Len(q) : f[i] = w[i]
  <2>1. f = SubSeq(w, 1, Len(q))
    BY <1>1, <1>3 DEF Front
  <2>2. \A i \in 1..Len(q) : w[i] \in L
    BY <1>1
  <2> QED BY <2>1, <2>2, SubSeqProperties
<1>5. f = q
  BY <1>2, <1>4, SeqEqual
<1> QED BY <1>1, <1>3, <1>5 DEF Last

\* A sequence of elements of a set.
LEMMA SeqOfElements ==
    ASSUME NEW L, NEW q \in Seq(L), NEW M
    PROVE  ToSet(q) \subseteq M <=> q \in Seq(M)
<1>1. ToSet(q) \subseteq M <=> \A i \in 1..Len(q) : q[i] \in M
  BY DEF ToSet
<1>2. ASSUME \A i \in 1..Len(q) : q[i] \in M PROVE q \in Seq(M)
  BY <1>2
<1>3. ASSUME q \in Seq(M) PROVE \A i \in 1..Len(q) : q[i] \in M
  BY <1>3
<1> QED BY <1>1, <1>2, <1>3

\* Of a clean file the filter leaves others' lines, all that the loop left.
LEMMA FilteredLines ==
    ASSUME NEW lines \in Seq(Lines), Clean(lines)
    PROVE  /\ FilterGoogleLines(lines) \in Seq(Plain)
           /\ Only(UserLines, FilterGoogleLines(lines)) = Only(UserLines, FilterLoop(lines).out)
<1>1. PICK o \in Seq(Lines) : o = FilterLoop(lines).out
  BY FilterLoopAppend DEF States
<1>2. ToSet(o) \subseteq Plain
  BY <1>1 DEF Clean, Plain
<1>3. o \in Seq(Plain)
  BY <1>2, SeqOfElements
<1>4. CASE o # <<>> /\ Last(o) = ""
  <2>1. PICK p \in Seq(Plain), e \in Plain : o = Append(p, e)
    BY <1>3, <1>4, SequenceEmptyOrAppend
  <2>2. e = "" /\ Front(o) = p
    BY <1>4, <2>1, LastOfAppend
  <2>3. p \in Seq(Lines) /\ "" \in Lines /\ "" \notin UserLines
    <3>1. "" \in Lines /\ "" \notin UserLines /\ Plain \subseteq Lines
      BY ConfigAssumption DEF Plain, Lines
    <3> QED BY <3>1, SeqMonotonic
  <2>4. Only(UserLines, o) = Only(UserLines, p)
    <3>1. Only(UserLines, o) = KeepIn(UserLines, Only(UserLines, p), "")
      BY <2>1, <2>2, <2>3, OnlyAppend, Zenon
    <3> QED BY <2>3, <3>1 DEF KeepIn
  <2> QED BY <1>1, <1>4, <2>2, <2>4 DEF FilterGoogleLines
<1>5. CASE ~(o # <<>> /\ Last(o) = "")
  BY <1>1, <1>3, <1>5 DEF FilterGoogleLines
<1> QED BY <1>4, <1>5

\* The same of one line more.
LEMMA OnlyLonger ==
    ASSUME NEW S, NEW q \in Seq(Lines), NEW line \in Lines, NEW w, w = Append(q, line)
    PROVE  Only(S, w) = KeepIn(S, Only(S, q), line)
BY OnlyAppend, Zenon

\* An empty line is of no other kind.
LEMMA OnlyBlank ==
    ASSUME NEW S, "" \notin S, NEW q \in Seq(Lines), NEW w, w = Append(q, "")
    PROVE  Only(S, w) = Only(S, q)
<1>1. "" \in Lines
  BY DEF Lines
<1>2. Only(S, w) = KeepIn(S, Only(S, q), "")
  BY <1>1, OnlyAppend, Zenon
<1> QED BY <1>2, Zenon DEF KeepIn

\* A line, and two.
LEMMA ShortSequences ==
    ASSUME NEW e, NEW d
    PROVE  \A q : q = Append(<<>>, e) => q = <<e>> /\ Append(q, d) = <<e, d>>
<1> DEFINE L == {e, d}
<1>1. <<>> \in Seq(L) /\ <<e>> \in Seq(L) /\ e \in L /\ d \in L
  BY EmptySeq
<1>2. Append(<<>>, e) = <<>> \o <<e>> /\ <<>> \o <<e>> = <<e>>
  BY <1>1, AppendIsConcat, ConcatEmptySeq
<1>3. Append(<<e>>, d) = <<e, d>>
  <2>1. PICK w : w = Append(<<e>>, d)
    OBVIOUS
  <2>2. w \in Seq(L) /\ Len(w) = 2 /\ w[1] = e /\ w[2] = d
    BY <1>1, <2>1, AppendProperties
  <2>3. PICK v : v = <<e, d>>
    OBVIOUS
  <2>4. v \in Seq(L) /\ Len(v) = 2 /\ v[1] = e /\ v[2] = d
    BY <2>3
  <2>5. \A i \in 1..2 : w[i] = v[i]
    BY <2>2, <2>4
  <2>6. w = v
    BY <2>2, <2>4, <2>5, SeqEqual
  <2> QED BY <2>1, <2>3, <2>6
<1> QED BY <1>2, <1>3, Zenon

\* What the agent has written is well marked, and the agent would write it again; of
\* others' lines it holds those that were put there, of its own those above and below.
LEMMA WrittenLines ==
    ASSUME NEW t, NEW b, Gone(t), Gone(b), NEW g \in Seq(Plain), NEW w, w = Written(t, g, b)
    PROVE  /\ w \in Seq(Lines) \ {<<>>} /\ WellMarked(w)
           /\ Written(t, FilterGoogleLines(w), b) = w
           /\ Only(UserLines, w) = Only(UserLines, g)
           /\ Only(UserLines, FilterLoop(w).out) = Only(UserLines, g)
           /\ Only(AgentLines, w) = OwnLines(t, b)
<1> DEFINE r == t \o (g \o b)
<1>1. /\ Plain \subseteq Lines /\ AgentLines \subseteq Lines /\ "" \in Lines /\ "" \in Plain
      /\ Plain \cap AgentLines = {} /\ "" \notin UserLines /\ "" \notin AgentLines
      /\ UserLines \cap AgentLines = {}
  BY ConfigAssumption DEF Plain, Lines, AgentLines
<1>2. t \in Seq(AgentLines) /\ b \in Seq(AgentLines)
  BY Zenon DEF Gone
<1>3. t \in Seq(Lines) /\ b \in Seq(Lines) /\ g \in Seq(Lines)
  BY <1>1, <1>2, SeqMonotonic
<1>4. g \o b \in Seq(Lines) /\ r \in Seq(Lines) /\ t \o g \in Seq(Lines) /\ r = (t \o g) \o b
  <2>1. g \o b \in Seq(Lines) /\ t \o g \in Seq(Lines)
    BY <1>3, ConcatProperties
  <2>2. r \in Seq(Lines)
    BY <1>3, <2>1, ConcatProperties
  <2>3. (t \o g) \o b = t \o (g \o b)
    BY <1>3, ConcatAssociative
  <2> QED BY <2>1, <2>2, <2>3
<1>5. FilterLoop(r) = Outside(g)
  <2>1. <<>> \in Seq(Lines) /\ FilterLoop(<<>>) = Outside(<<>>)
    BY FilterLoopAppend, EmptySeq DEF FilterStart, Outside
  <2>2. FilterLoop(<<>> \o t) = Outside(<<>>)
    BY <2>1, Zenon DEF Gone
  <2>3. <<>> \o t = t /\ <<>> \o g = g
    BY <1>3, ConcatEmptySeq
  <2>4. FilterLoop(t \o g) = Outside(g)
    <3>1. FilterLoop(t) = Outside(<<>>)
      BY <2>2, <2>3
    <3>2. FilterLoop(t \o g) = Outside(<<>> \o g)
      BY <1>3, <2>1, <3>1, FilterPlain, Zenon
    <3> QED BY <2>3, <3>2
  <2> QED BY <1>3, <1>4, <2>4, Zenon DEF Gone
<1>6. ASSUME NEW S PROVE Only(S, r) = Only(S, t) \o (Only(S, g) \o Only(S, b))
  <2>1. Only(S, g \o b) = Only(S, g) \o Only(S, b)
    BY <1>3, OnlyConcat
  <2>2. Only(S, r) = Only(S, t) \o Only(S, g \o b)
    BY <1>3, <1>4, OnlyConcat
  <2> QED BY <2>1, <2>2
<1>7. Only(UserLines, r) = Only(UserLines, g)
  <2>1. t \in Seq(Lines \ UserLines) /\ b \in Seq(Lines \ UserLines)
    <3>1. AgentLines \subseteq Lines \ UserLines
      BY <1>1
    <3> QED BY <1>2, <3>1, SeqMonotonic
  <2>2. Only(UserLines, t) = <<>> /\ Only(UserLines, b) = <<>>
    BY <2>1, OnlyNone
  <2>3. Only(UserLines, g) \in Seq(Lines)
    BY <1>3, OnlyAppend
  <2>4. <<>> \o (Only(UserLines, g) \o <<>>) = Only(UserLines, g)
    BY <2>3, ConcatEmptySeq
  <2> QED BY <1>6, <2>2, <2>4
<1>8. Only(AgentLines, r) = Only(AgentLines, t) \o Only(AgentLines, b)
  <2>1. g \in Seq(Lines \ AgentLines)
    <3>1. Plain \subseteq Lines \ AgentLines
      BY <1>1
    <3> QED BY <3>1, SeqMonotonic
  <2>2. Only(AgentLines, g) = <<>>
    BY <2>1, OnlyNone
  <2>3. Only(AgentLines, b) \in Seq(Lines)
    BY <1>3, OnlyAppend
  <2>4. <<>> \o Only(AgentLines, b) = Only(AgentLines, b)
    BY <2>3, ConcatEmptySeq
  <2> QED BY <1>6, <2>2, <2>4
<1> HIDE DEF r
<1>9. Clean(r)
  <2>1. FilterLoop(r).out = g /\ ~FilterLoop(r).google /\ ~FilterLoop(r).block
    BY <1>5 DEF Outside
  <2>2. ToSet(g) \subseteq UserLines \cup {""}
    BY SeqOfElements DEF Plain
  <2> QED BY <2>1, <2>2 DEF Clean
<1>10. CASE r # <<>>
  <2>1. w = Append(r, "")
    BY <1>10 DEF Written, Joined, r
  <2>2. w \in Seq(Lines) /\ w # <<>> /\ Last(w) = "" /\ Front(w) = r
    <3>1. r \in Seq(Lines) /\ "" \in Lines /\ w = Append(r, "")
      BY <1>1, <1>4, <2>1, Zenon
    <3> QED BY <3>1, LastOfAppend, Zenon
  <2>3. PICK o : o = Append(g, "")
    OBVIOUS
  <2>4. o \in Seq(Plain) /\ o # <<>> /\ Last(o) = "" /\ Front(o) = g
    BY <1>1, <2>3, LastOfAppend
  <2>5. FilterLoop(w) = Outside(o)
    <3>1. FilterLoop(w) = FilterLine(Outside(g), "")
      BY <1>1, <1>4, <1>5, <2>1, FilterLoopAppend
    <3> QED BY <2>3, <3>1 DEF FilterLine, Outside
  <2>6. FilterLoop(w).out = o /\ ~FilterLoop(w).google /\ ~FilterLoop(w).block
    BY <2>5 DEF Outside
  <2>7. FilterGoogleLines(w) = g
    BY <2>4, <2>6 DEF FilterGoogleLines
  <2>8. Clean(w)
    <3>1. ToSet(o) \subseteq UserLines \cup {""}
      BY <2>4, SeqOfElements DEF Plain
    <3> QED BY <2>6, <3>1 DEF Clean
  <2>9. ASSUME NEW S, "" \notin S PROVE Only(S, w) = Only(S, r) /\ Only(S, o) = Only(S, g)
    BY <1>3, <1>4, <2>1, <2>3, <2>9, OnlyBlank, Zenon
  <2>10. WellMarked(w)
    BY <1>9, <2>2, <2>8 DEF WellMarked
  <2>11. Only(UserLines, w) = Only(UserLines, g) /\ Only(UserLines, o) = Only(UserLines, g)
    BY <1>1, <1>7, <2>9
  <2>12. Only(AgentLines, w) = OwnLines(t, b)
    BY <1>1, <1>8, <2>9 DEF OwnLines
  <2> QED BY <2>2, <2>6, <2>7, <2>10, <2>11, <2>12
<1>11. CASE r = <<>>
  <2>1. t = <<>> /\ g = <<>> /\ b = <<>>
    BY <1>3, <1>4, <1>11, ConcatEqualIffEmpty DEF r
  <2>2. PICK o : o = Append(<<>>, "")
    OBVIOUS
  <2>3. w = Append(o, "") /\ o = <<"">>
    <3>1. w = <<"", "">>
      BY <1>11, Zenon DEF Written, Joined, r
    <3> QED BY <2>2, <3>1, ShortSequences, Zenon
  <2>4. <<>> \in Seq(Lines) /\ <<>> \in Seq(Plain)
    BY EmptySeq
  <2>5. o \in Seq(Plain) /\ o \in Seq(Lines) /\ o # <<>>
    BY <1>1, <2>2, <2>4, LastOfAppend
  <2>6. w \in Seq(Plain) /\ w \in Seq(Lines) /\ w # <<>> /\ Last(w) = "" /\ Front(w) = o
    <3>1. w \in Seq(Plain) /\ w # <<>> /\ Last(w) = "" /\ Front(w) = o
      <4>1. o \in Seq(Plain) /\ "" \in Plain /\ w = Append(o, "")
        BY <1>1, <2>3, <2>5, Zenon
      <4> QED BY <4>1, LastOfAppend, Zenon
    <3>2. w \in Seq(Lines)
      BY <1>1, <3>1, SeqMonotonic
    <3> QED BY <3>1, <3>2
  <2>7. FilterLoop(o) = Outside(o)
    <3>1. FilterLoop(o) = FilterLine(FilterStart, "")
      BY <1>1, <2>2, <2>4, FilterLoopAppend
    <3>2. FilterStart = Outside(<<>>) /\ FilterLine(Outside(<<>>), "") = Outside(Append(<<>>, ""))
      BY DEF FilterLine, FilterStart, Outside
    <3> QED BY <2>2, <3>1, <3>2
  <2>8. FilterLoop(w) = Outside(w)
    <3>1. FilterLoop(w) = FilterLine(Outside(o), "")
      BY <1>1, <2>3, <2>5, <2>7, FilterLoopAppend
    <3>2. FilterLine(Outside(o), "") = Outside(Append(o, ""))
      BY DEF FilterLine, Outside
    <3> QED BY <2>3, <3>1, <3>2
  <2>9. Clean(o) /\ Clean(w)
    <3>1. ToSet(o) \subseteq UserLines \cup {""} /\ ToSet(w) \subseteq UserLines \cup {""}
      BY <2>5, <2>6, SeqOfElements DEF Plain
    <3>2. FilterLoop(o).out = o /\ ~FilterLoop(o).google /\ ~FilterLoop(o).block
      BY <2>7 DEF Outside
    <3>3. FilterLoop(w).out = w /\ ~FilterLoop(w).google /\ ~FilterLoop(w).block
      BY <2>8 DEF Outside
    <3> QED BY <3>1, <3>2, <3>3 DEF Clean
  <2>10. FilterLoop(w).out = w /\ FilterGoogleLines(w) = o
    <3>1. FilterLoop(w).out = w
      BY <2>8 DEF Outside
    <3> QED BY <2>6, <3>1 DEF FilterGoogleLines
  <2>11. Written(t, o, b) = w
    <3>1. <<>> \o (o \o <<>>) = o
      BY <2>5, ConcatEmptySeq
    <3>2. Joined(o) = w
      BY <2>3, <2>5 DEF Joined
    <3> QED BY <2>1, <3>1, <3>2 DEF Written
  <2>12. ASSUME NEW S, "" \notin S PROVE Only(S, w) = <<>>
    <3>1. Only(S, o) = Only(S, <<>>) /\ Only(S, w) = Only(S, o)
      BY <2>2, <2>3, <2>4, <2>5, <2>12, OnlyBlank, Zenon
    <3>2. Only(S, <<>>) = <<>>
      BY OnlyAppend
    <3> QED BY <3>1, <3>2
  <2>13. Only(UserLines, g) = <<>> /\ Only(AgentLines, t) = <<>> /\ Only(AgentLines, b) = <<>>
    BY <2>1, OnlyAppend
  <2>14. WellMarked(w)
    BY <2>6, <2>9 DEF WellMarked
  <2>15. <<>> \o <<>> = <<>>
    BY <2>4, ConcatEmptySeq
  <2>16. Only(UserLines, w) = <<>> /\ Only(AgentLines, w) = OwnLines(t, b)
    BY <1>1, <2>12, <2>13, <2>15 DEF OwnLines
  <2> QED BY <2>6, <2>10, <2>11, <2>13, <2>14, <2>16
<1> QED BY <1>10, <1>11
-----------------------------------------------------------------------------
(* The inductive invariant.                                                *)

\* A file of which the agent can tell its own lines.
IsFile(lines) == lines \in Seq(Lines) \ {<<>>} /\ WellMarked(lines)

\* Others' lines of a file are part, and none of them is between the agent's.
Holds(lines, part) ==
    Only(UserLines, lines) = part /\ Only(UserLines, FilterLoop(lines).out) = part

\* The agent's lines are those of the flags.
Marked(file, lines, f) == AgentPart(lines) = AgentPart(Update(file, <<"">>, f))

\* The agent would write what the file holds.
Stable(file, lines, f) == Update(file, lines, f) = lines

\* What the file holds, or is about to.
Current(file) == IF pc = <<"write", file>> THEN proposed ELSE conf[file]

At(file) == {<<"open", file>>, <<"write", file>>}

\* Where Set() has done with the file.
Passed(file) ==
    CASE file = "sshd" -> {Done} \cup At("nss") \cup At("pam") \cup At("group")
      [] file = "pam" -> {Done} \cup At("group")
      [] file = "group" -> {Done}

NSSFollows(f) == nss # (IF f.enable THEN "none" ELSE "ours")

Applied(file, f) ==
    Marked(file, conf[file], f) /\ (edits = 0 => Stable(file, conf[file], f))

TypeInv ==
    /\ flags \in Flags /\ newFlags \in Flags /\ oldFlags \in Flags
    /\ firstRun \in BOOLEAN
    /\ pc \in {Idle, Done} \cup At("nss") \cup ({"open", "write"} \X Files)
    /\ nss \in {"none", "ours", "foreign", "lost"}
    /\ edits \in Nat /\ faults \in Nat
    /\ DOMAIN conf = Files /\ conf = [file \in Files |-> conf[file]]
    /\ DOMAIN userPart = Files /\ userPart = [file \in Files |-> userPart[file]]

FilesInv == \A file \in Files : IsFile(conf[file])

ProposedInv ==
    \A file \in Files :
        pc = <<"write", file>> =>
            /\ IsFile(proposed)
            /\ Marked(file, proposed, newFlags) /\ Stable(file, proposed, newFlags)

LinesInv == \A file \in Files : file \in torn \/ Holds(Current(file), userPart[file])

\* nsswitch.conf has no lines only between its truncation and the write, or when the
\* write never came; what is about to be written follows the flags.
NSSInv ==
    /\ nss = "lost" => "nss" \in torn \/ pc = <<"write", "nss">>
    /\ pc = <<"write", "nss">> =>
        \E suffix \in {"none", "ours", "foreign"} :
            proposed = <<suffix>> /\ suffix # (IF newFlags.enable THEN "none" ELSE "ours")

ProgressInv ==
    faults = 0 =>
        /\ \A file \in Files : pc \in Passed(file) => Applied(file, newFlags)
        /\ pc \in {Done} \cup At("pam") \cup At("group") => NSSFollows(newFlags)

SettledInv ==
    faults = 0 /\ pc = Idle /\ ~firstRun =>
        (\A file \in Files : Applied(file, oldFlags)) /\ NSSFollows(oldFlags)

Inv == TypeInv /\ FilesInv /\ ProposedInv /\ LinesInv /\ NSSInv /\ ProgressInv /\ SettledInv
-----------------------------------------------------------------------------
(* Writing a file, and editing it.                                         *)

\* Where the loop ends outside of what is marked, with others' lines, is a clean file.
LEMMA CleanOutside ==
    ASSUME NEW q, NEW o \in Seq(Plain), FilterLoop(q) = Outside(o)
    PROVE  Clean(q)
<1>1. FilterLoop(q).out = o /\ ~FilterLoop(q).google /\ ~FilterLoop(q).block
  BY DEF Outside
<1>2. ToSet(o) \subseteq UserLines \cup {""}
  BY SeqOfElements DEF Plain
<1> QED BY <1>1, <1>2 DEF Clean

\* An empty file has no line of anybody.
LEMMA EmptyFile ==
    ASSUME NEW lines, lines = <<"">>
    PROVE  IsFile(lines) /\ Clean(lines)
<1>1. PICK e : e = <<>>
  OBVIOUS
<1>2. e \in Seq(Lines) /\ "" \in Lines
  BY <1>1, EmptySeq DEF Lines
<1>3. lines = Append(e, "")
  BY <1>1, ShortSequences, Zenon
<1>4. lines \in Seq(Lines) /\ lines # <<>> /\ Last(lines) = "" /\ Front(lines) = e
  BY <1>2, <1>3, LastOfAppend, Zenon
<1>5. FilterLoop(e) = Outside(e)
  BY <1>1, FilterLoopAppend DEF FilterStart, Outside
<1>6. FilterLoop(lines) = Outside(lines)
  <2>1. FilterLoop(lines) = FilterLine(Outside(e), "")
    BY <1>2, <1>3, <1>5, FilterLoopAppend, Zenon
  <2>2. FilterLine(Outside(e), "") = Outside(Append(e, ""))
    BY DEF FilterLine, Outside
  <2> QED BY <1>3, <2>1, <2>2
<1>7. Clean(e)
  <2>1. e \in Seq(Plain)
    BY <1>1, EmptySeq
  <2> QED BY <1>5, <2>1, CleanOutside, Zenon
<1>8. Clean(lines)
  <2>1. e \in Seq(Plain) /\ "" \in Plain
    BY <1>1, EmptySeq DEF Plain
  <2>2. lines \in Seq(Plain)
    BY <1>3, <2>1, LastOfAppend, Zenon
  <2> QED BY <1>6, <2>2, CleanOutside, Zenon
<1> QED BY <1>4, <1>7, <1>8 DEF IsFile, WellMarked

\* The contents proposed for a file keep others' lines, hold the agent's lines of the
\* flags, and would be proposed again.
LEMMA UpdateLines ==
    ASSUME NEW file \in Files, NEW f \in Flags, NEW lines \in Seq(Lines), Clean(lines),
           NEW u, u = Update(file, lines, f)
    PROVE  /\ IsFile(u) /\ Marked(file, u, f) /\ Stable(file, u, f)
           /\ Holds(u, Only(UserLines, FilterLoop(lines).out))
<1>1. PICK t, b : t = Top(file, f) /\ b = Bottom(file, f)
  OBVIOUS
<1>2. Gone(t) /\ Gone(b)
  BY <1>1, AgentLinesGone
<1>3. Plain \subseteq Lines
  BY DEF Plain, Lines
<1>4. ASSUME NEW q \in Seq(Lines), Clean(q)
      PROVE  /\ FilterGoogleLines(q) \in Seq(Plain)
             /\ Update(file, q, f) = Written(t, FilterGoogleLines(q), b)
             /\ AgentPart(Update(file, q, f)) = OwnLines(t, b)
  <2>1. FilterGoogleLines(q) \in Seq(Plain)
    BY <1>4, FilteredLines
  <2>2. FilterGoogleLines(q) \in Seq(Lines)
    BY <1>3, <2>1, SeqMonotonic
  <2>3. Update(file, q, f) = Written(t, FilterGoogleLines(q), b)
    BY <1>1, <2>2, UpdateIsWritten, Zenon
  <2>4. AgentPart(Update(file, q, f)) = OwnLines(t, b)
    <3>1. PICK g \in Seq(Plain) : g = FilterGoogleLines(q)
      BY <2>1
    <3>2. PICK w : w = Written(t, g, b)
      OBVIOUS
    <3>3. Only(AgentLines, w) = OwnLines(t, b)
      BY <1>2, <3>2, WrittenLines
    <3> QED BY <2>3, <3>1, <3>2, <3>3 DEF AgentPart
  <2> QED BY <2>1, <2>3, <2>4
<1>5. PICK g \in Seq(Plain) : g = FilterGoogleLines(lines)
  BY <1>4
<1>6. u = Written(t, g, b)
  BY <1>4, <1>5
<1>7. /\ u \in Seq(Lines) \ {<<>>} /\ WellMarked(u)
      /\ Written(t, FilterGoogleLines(u), b) = u
      /\ Only(UserLines, u) = Only(UserLines, g)
      /\ Only(UserLines, FilterLoop(u).out) = Only(UserLines, g)
  <2>1. Gone(t) /\ Gone(b) /\ g \in Seq(Plain) /\ u = Written(t, g, b)
    BY <1>2, <1>6
  <2> QED BY <2>1, WrittenLines, SMTT(30)
<1>8. Stable(file, u, f)
  <2>1. Clean(u)
    BY <1>7 DEF WellMarked
  <2> QED BY <1>4, <1>7, <2>1 DEF Stable
<1>9. Marked(file, u, f)
  <2>1. PICK e : e = <<"">>
    OBVIOUS
  <2>2. e \in Seq(Lines) /\ Clean(e)
    BY <2>1, EmptyFile DEF IsFile
  <2> QED BY <1>4, <2>1, <2>2 DEF Marked
<1>10. Only(UserLines, g) = Only(UserLines, FilterLoop(lines).out)
  BY <1>5, FilteredLines
<1> QED BY <1>7, <1>8, <1>9, <1>10 DEF IsFile, Holds
\* Of a clean file the loop ends outside of what is marked, with others' lines.
LEMMA CleanIsOutside ==
    ASSUME NEW q \in Seq(Lines), Clean(q)
    PROVE  \E o \in Seq(Plain) : FilterLoop(q) = Outside(o) /\ FilterLoop(q).out = o
<1>1. PICK s \in States : s = FilterLoop(q)
  BY FilterLoopAppend
<1>2. s.out \in Seq(Lines) /\ ToSet(s.out) \subseteq Plain /\ s.google = FALSE /\ s.block = FALSE
  BY <1>1 DEF Clean, States, Plain
<1>3. s.out \in Seq(Plain)
  BY <1>2, SeqOfElements
<1>4. s = Outside(s.out)
  BY <1>2 DEF States, Outside
<1> QED BY <1>1, <1>3, <1>4

Above(line, q) == <<line>> \o q

\* A line alone.
LEMMA OnlyOne ==
    ASSUME NEW line \in UserLines, NEW a, a = <<line>>
    PROVE  /\ a \in Seq(Lines) /\ a \in Seq(Plain) /\ line \in Lines /\ line # ""
           /\ Only(UserLines, a) = a /\ Only(AgentLines, a) = <<>>
<1>1. line \in Lines /\ line \in Plain /\ line \notin AgentLines /\ line # "" /\ Plain \subseteq Lines
  BY ConfigAssumption DEF Lines, Plain
<1>2. PICK e : e = <<>>
  OBVIOUS
<1>3. e \in Seq(Plain) /\ e \in Seq(Lines)
  BY <1>2, EmptySeq
<1>4. a = Append(e, line)
  BY <1>2, ShortSequences, Zenon
<1>5. a \in Seq(Plain) /\ a \in Seq(Lines)
  <2>1. a \in Seq(Plain)
    BY <1>1, <1>3, <1>4, LastOfAppend, Zenon
  <2> QED BY <1>1, <2>1, SeqMonotonic
<1>6. Only(UserLines, e) = e /\ Only(AgentLines, e) = e
  BY <1>2, OnlyAppend
<1>7. Only(UserLines, a) = KeepIn(UserLines, e, line)
  <2>1. Only(UserLines, a) = KeepIn(UserLines, Only(UserLines, e), line)
    BY <1>1, <1>3, <1>4, OnlyLonger, Zenon
  <2> QED BY <1>6, <2>1, Zenon
<1>8. Only(AgentLines, a) = KeepIn(AgentLines, e, line)
  <2>1. Only(AgentLines, a) = KeepIn(AgentLines, Only(AgentLines, e), line)
    BY <1>1, <1>3, <1>4, OnlyLonger, Zenon
  <2> QED BY <1>6, <2>1, Zenon
<1>9. Only(UserLines, a) = a
  BY <1>4, <1>7, Zenon DEF KeepIn
<1>10. Only(AgentLines, a) = <<>>
  BY <1>1, <1>2, <1>8, Zenon DEF KeepIn
<1> QED BY <1>1, <1>5, <1>9, <1>10

\* A line above a clean file.
LEMMA CleanAbove ==
    ASSUME NEW line \in UserLines, NEW q \in Seq(Lines), Clean(q), NEW e, e = Above(line, q)
    PROVE  /\ e \in Seq(Lines) /\ Clean(e)
           /\ Only(UserLines, e) = Above(line, Only(UserLines, q))
           /\ Only(AgentLines, e) = Only(AgentLines, q)
           /\ Only(UserLines, FilterLoop(e).out) = Above(line, Only(UserLines, FilterLoop(q).out))
<1>1. PICK a : a = <<line>>
  OBVIOUS
<1>2. /\ a \in Seq(Lines) /\ a \in Seq(Plain)
      /\ Only(UserLines, a) = a /\ Only(AgentLines, a) = <<>>
  BY <1>1, OnlyOne
<1>3. PICK o \in Seq(Plain) : FilterLoop(q) = Outside(o) /\ FilterLoop(q).out = o
  BY CleanIsOutside
<1>4. PICK p : p = a \o o
  OBVIOUS
<1>5. FilterLoop(e) = Outside(p)
  <2>1. FilterLoop(e) = [Outside(o) EXCEPT !.out = a \o @]
    BY <1>1, <1>3, FilterAbove, Zenon DEF Above
  <2> QED BY <1>4, <2>1 DEF Outside
<1>6. p \in Seq(Plain)
  BY <1>2, <1>4, ConcatProperties
<1>7. e = a \o q /\ e \in Seq(Lines)
  <2>1. e = a \o q
    BY <1>1, Zenon DEF Above
  <2> QED BY <1>2, <2>1, ConcatProperties
<1>8. Clean(e)
  BY <1>5, <1>6, CleanOutside, Zenon
<1>9. o \in Seq(Lines)
  <2>1. Plain \subseteq Lines
    BY DEF Plain, Lines
  <2> QED BY <2>1, SeqMonotonic
<1>10. ASSUME NEW S, NEW x \in Seq(Lines) PROVE Only(S, a \o x) = Only(S, a) \o Only(S, x)
  BY <1>2, OnlyConcat
<1>11. Only(UserLines, e) = Above(line, Only(UserLines, q))
  BY <1>1, <1>2, <1>7, <1>10, Zenon DEF Above
<1>12. Only(UserLines, p) = Above(line, Only(UserLines, o))
  BY <1>1, <1>2, <1>4, <1>9, <1>10, Zenon DEF Above
<1>13. FilterLoop(e).out = p
  BY <1>5 DEF Outside
<1>14. Only(AgentLines, e) = Only(AgentLines, q)
  <2>1. Only(AgentLines, e) = <<>> \o Only(AgentLines, q)
    BY <1>2, <1>7, <1>10, Zenon
  <2>2. Only(AgentLines, q) \in Seq(Lines)
    BY OnlyAppend
  <2>3. <<>> \o Only(AgentLines, q) = Only(AgentLines, q)
    BY <2>2, ConcatEmptySeq
  <2> QED BY <2>1, <2>3, Zenon
<1>15. Only(UserLines, FilterLoop(e).out) = Above(line, Only(UserLines, FilterLoop(q).out))
  BY <1>3, <1>12, <1>13, Zenon
<1> QED BY <1>7, <1>8, <1>11, <1>14, <1>15, Zenon

\* An administrator adds a line at the top.
LEMMA EditAbove ==
    ASSUME NEW line \in UserLines, NEW lines, IsFile(lines), NEW e, e = Above(line, lines)
    PROVE  /\ IsFile(e) /\ AgentPart(e) = AgentPart(lines)
           /\ \A part : Holds(lines, part) => Holds(e, Above(line, part))
<1>1. lines \in Seq(Lines) /\ lines # <<>> /\ Clean(lines) /\ (Last(lines) = "" => Clean(Front(lines)))
  BY DEF IsFile, WellMarked
<1>2. /\ e \in Seq(Lines) /\ Clean(e) /\ Only(AgentLines, e) = Only(AgentLines, lines)
      /\ Only(UserLines, e) = Above(line, Only(UserLines, lines))
      /\ Only(UserLines, FilterLoop(e).out) = Above(line, Only(UserLines, FilterLoop(lines).out))
  BY <1>1, CleanAbove
<1>3. PICK p \in Seq(Lines), x \in Lines : lines = Append(p, x)
  BY <1>1, SequenceEmptyOrAppend
<1>4. Last(lines) = x /\ Front(lines) = p
  BY <1>3, LastOfAppend
<1>5. PICK a : a = <<line>>
  OBVIOUS
<1>6. PICK r : r = a \o p
  OBVIOUS
<1>7. a \in Seq(Lines) /\ r \in Seq(Lines)
  <2>1. a \in Seq(Lines)
    BY <1>5, OnlyOne
  <2> QED BY <1>6, <2>1, ConcatProperties
<1>8. e = Append(r, x)
  <2>1. a \o Append(p, x) = Append(a \o p, x)
    BY <1>7, ConcatAppend
  <2> QED BY <1>3, <1>5, <1>6, <2>1, Zenon DEF Above
<1>9. e # <<>> /\ Last(e) = x /\ Front(e) = r
  BY <1>7, <1>8, LastOfAppend, Zenon
<1>10. Clean(p) => Clean(r)
  <2>1. r = Above(line, p)
    BY <1>5, <1>6, Zenon DEF Above
  <2> QED BY <2>1, CleanAbove, Zenon
<1>11. IsFile(e)
  BY <1>1, <1>2, <1>4, <1>9, <1>10 DEF IsFile, WellMarked
<1> QED BY <1>2, <1>11, Zenon DEF AgentPart, Holds
\* The filter keeps a line that is not the agent's, after a clean part.
LEMMA CleanBelow ==
    ASSUME NEW q \in Seq(Lines), Clean(q), NEW x \in Plain, NEW e, e = Append(q, x)
    PROVE  /\ e \in Seq(Lines) /\ e # <<>> /\ Last(e) = x /\ Front(e) = q /\ Clean(e)
           /\ Only(UserLines, FilterLoop(e).out) = KeepIn(UserLines, Only(UserLines, FilterLoop(q).out), x)
<1>1. x \in Lines /\ x \notin {"C", "S", "E"} /\ Plain \subseteq Lines
  BY ConfigAssumption DEF Plain, Lines, AgentLines
<1>2. e \in Seq(Lines) /\ e # <<>> /\ Last(e) = x /\ Front(e) = q
  BY <1>1, LastOfAppend, Zenon
<1>3. PICK o \in Seq(Plain) : FilterLoop(q) = Outside(o) /\ FilterLoop(q).out = o
  BY CleanIsOutside
<1>4. PICK p : p = Append(o, x)
  OBVIOUS
<1>5. o \in Seq(Lines) /\ p \in Seq(Plain)
  <2>1. o \in Seq(Lines)
    BY <1>1, SeqMonotonic
  <2>2. p \in Seq(Plain)
    BY <1>4, LastOfAppend, Zenon
  <2> QED BY <2>1, <2>2
<1>6. FilterLoop(e) = Outside(p)
  <2>1. FilterLoop(e) = FilterLine(Outside(o), x)
    BY <1>1, <1>3, FilterLoopAppend, Zenon
  <2>2. FilterLine(Outside(o), x) = Outside(Append(o, x))
    BY <1>1 DEF FilterLine, Outside
  <2> QED BY <1>4, <2>1, <2>2, Zenon
<1>7. Clean(e)
  BY <1>5, <1>6, CleanOutside, Zenon
<1>8. Only(UserLines, p) = KeepIn(UserLines, Only(UserLines, o), x)
  <2>1. o \in Seq(Lines) /\ x \in Lines /\ p = Append(o, x)
    BY <1>1, <1>4, <1>5
  <2> QED BY <2>1, OnlyLonger, Zenon
<1>9. FilterLoop(e).out = p
  <2> QED BY <1>6 DEF Outside
<1> QED BY <1>2, <1>3, <1>7, <1>8, <1>9, Zenon

\* A line at the end, and one with a newline.
LEMMA LinesAtEnd ==
    ASSUME NEW line \in UserLines, NEW p \in Seq(Lines)
    PROVE  p \o <<line>> = Append(p, line) /\ p \o <<line, "">> = Append(Append(p, line), "")
<1>1. PICK a : a = <<line>>
  OBVIOUS
<1>2. a \in Seq(Lines) /\ line \in Lines
  BY <1>1, OnlyOne
<1>3. p \o <<line>> = Append(p, line)
  BY <1>2, AppendIsConcat
<1>4. <<line, "">> = Append(a, "")
  BY <1>1, ShortSequences, Zenon
<1>5. PICK d \in Lines : d = ""
  BY DEF Lines
<1>6. p \o Append(a, d) = Append(p \o a, d)
  BY <1>2, ConcatAppend
<1> QED BY <1>1, <1>3, <1>4, <1>5, <1>6, Zenon

\* An administrator adds a line at the bottom, with or without a newline.
LEMMA EditBelow ==
    ASSUME NEW line \in UserLines, NEW lines, IsFile(lines), Last(lines) = "",
           NEW e, e \in {Front(lines) \o <<line>>, Front(lines) \o <<line, "">>}
    PROVE  /\ IsFile(e) /\ AgentPart(e) = AgentPart(lines)
           /\ \A part : Holds(lines, part) => Holds(e, Append(part, line))
<1>1. lines \in Seq(Lines) /\ lines # <<>> /\ Clean(lines) /\ Clean(Front(lines))
  BY DEF IsFile, WellMarked
<1>2. PICK p \in Seq(Lines), x \in Lines : lines = Append(p, x)
  BY <1>1, SequenceEmptyOrAppend
<1>3. x = "" /\ Front(lines) = p
  BY <1>2, LastOfAppend
<1>4. /\ line \in Lines /\ line \in Plain /\ line # "" /\ line \notin AgentLines
      /\ "" \in Lines /\ "" \in Plain /\ "" \notin UserLines /\ "" \notin AgentLines
  BY ConfigAssumption DEF Plain, Lines, AgentLines
<1>5. Clean(p) /\ lines = Append(p, "")
  BY <1>1, <1>2, <1>3
<1>6. PICK m : m = Append(p, line)
  OBVIOUS
<1>7. PICK n : n = Append(m, "")
  OBVIOUS
<1>8. e \in {m, n}
  <2>1. p \in Seq(Lines) /\ line \in UserLines
    OBVIOUS
  <2>2. p \o <<line>> = Append(p, line) /\ p \o <<line, "">> = Append(Append(p, line), "")
    BY <2>1, LinesAtEnd, Zenon
  <2> QED BY <1>3, <1>6, <1>7, <2>1, <2>2, Zenon
<1> DEFINE U(q) == Only(UserLines, FilterLoop(q).out)
<1>9. U(lines) = KeepIn(UserLines, U(p), "")
  BY <1>4, <1>5, CleanBelow, Zenon
<1>10. /\ m \in Seq(Lines) /\ m # <<>> /\ Last(m) = line /\ Front(m) = p /\ Clean(m)
       /\ U(m) = KeepIn(UserLines, U(p), line)
  BY <1>4, <1>5, <1>6, CleanBelow, Zenon
<1>11. /\ n \in Seq(Lines) /\ n # <<>> /\ Last(n) = "" /\ Front(n) = m /\ Clean(n)
       /\ U(n) = KeepIn(UserLines, U(m), "")
  BY <1>4, <1>7, <1>10, CleanBelow, Zenon
<1> HIDE DEF U
<1>12. U(m) = Append(U(lines), line) /\ U(n) = U(m)
  BY <1>4, <1>9, <1>10, <1>11, Zenon DEF KeepIn
<1>13. p \in Seq(Lines) /\ line \in Lines /\ m = Append(p, line)
  BY <1>4, <1>6
<1>14. Only(UserLines, m) = Append(Only(UserLines, lines), line) /\ Only(UserLines, n) = Only(UserLines, m)
  <2>1. Only(UserLines, lines) = Only(UserLines, p)
    BY <1>4, <1>5, OnlyBlank, Zenon
  <2>2. Only(UserLines, n) = Only(UserLines, m)
    BY <1>4, <1>7, <1>10, OnlyBlank, Zenon
  <2>3. Only(UserLines, m) = KeepIn(UserLines, Only(UserLines, p), line)
    BY <1>13, OnlyLonger, Zenon
  <2> QED BY <2>1, <2>2, <2>3, Zenon DEF KeepIn
<1>15. Only(AgentLines, m) = Only(AgentLines, lines) /\ Only(AgentLines, n) = Only(AgentLines, lines)
  <2>1. Only(AgentLines, lines) = Only(AgentLines, p)
    BY <1>4, <1>5, OnlyBlank, Zenon
  <2>2. Only(AgentLines, n) = Only(AgentLines, m)
    BY <1>4, <1>7, <1>10, OnlyBlank, Zenon
  <2>3. Only(AgentLines, m) = KeepIn(AgentLines, Only(AgentLines, p), line)
    BY <1>13, OnlyLonger, Zenon
  <2> QED BY <1>4, <2>1, <2>2, <2>3, Zenon DEF KeepIn
<1>16. IsFile(m) /\ IsFile(n)
  BY <1>4, <1>10, <1>11, Zenon DEF IsFile, WellMarked
<1>17. CASE e = m
  BY <1>12, <1>14, <1>15, <1>16, <1>17, Zenon DEF AgentPart, Holds, U
<1>18. CASE e = n
  BY <1>12, <1>14, <1>15, <1>16, <1>18, Zenon DEF AgentPart, Holds, U
<1> QED BY <1>8, <1>17, <1>18
-----------------------------------------------------------------------------
(* The steps.                                                              *)

\* The agent starts.
LEMMA InitInv == Init => Inv
<1> SUFFICES ASSUME Init PROVE Inv
  OBVIOUS
<1>1. PICK lines \in InitialFiles : conf = [file \in Files |-> lines]
  BY DEF Init
<1>2. IsFile(lines)
  BY ConfigAssumption, FilesAssumption DEF IsFile
<1>3. Holds(lines, Only(UserLines, lines))
  BY FilesAssumption DEF Holds
<1>4. NoFlags \in Flags
  BY DEF NoFlags, Flags
<1>5. TypeInv
  BY <1>1, <1>4, ConfigAssumption DEF Init, TypeInv, Idle, Done
<1>6. FilesInv
  BY <1>1, <1>2 DEF FilesInv
<1>7. \A file \in Files : pc # <<"write", file>>
  BY DEF Init, Idle
<1>8. LinesInv
  BY <1>1, <1>3, <1>7 DEF Init, LinesInv, Current
<1>9. ProposedInv
  BY <1>7 DEF ProposedInv
<1>10. ProgressInv
  BY DEF Init, ProgressInv, Passed, At, Idle, Done, Files
<1>11. SettledInv
  BY DEF Init, SettledInv
<1>12. NSSInv
  BY DEF Init, NSSInv, Idle
<1> QED BY <1>5, <1>6, <1>8, <1>9, <1>10, <1>11, <1>12 DEF Inv

\* A step that touches none of this.
LEMMA QuietInv ==
    ASSUME Inv, flags' \in Flags,
           UNCHANGED <<newFlags, oldFlags, firstRun, conf, nss, pc, proposed, userPart, torn, edits, faults>>
    PROVE  Inv'
BY DEF Inv, TypeInv, FilesInv, ProposedInv, LinesInv, NSSInv, ProgressInv, SettledInv, Current, Applied, NSSFollows

\* An administrator's edit.
LEMMA EditInv ==
    ASSUME Inv, NEW file \in Files, NEW line \in UserLines, EditFile(file, line)
    PROVE  Inv'
<1> USE DEF Inv
<1>1. /\ pc = Idle /\ edits' = edits + 1 /\ edits' # 0
      /\ UNCHANGED <<flags, newFlags, oldFlags, firstRun, nss, pc, proposed, torn, faults>>
  <2>1. edits \in Nat
    BY DEF TypeInv
  <2>2. /\ pc = Idle /\ edits' = edits + 1
        /\ UNCHANGED <<flags, newFlags, oldFlags, firstRun, nss, pc, proposed, torn, faults>>
    BY Zenon DEF EditFile, mdVars
  <2> QED BY <2>1, <2>2
<1>2. PICK e, part :
        /\ conf' = [conf EXCEPT ![file] = e] /\ userPart' = [userPart EXCEPT ![file] = part]
        /\ IsFile(e) /\ AgentPart(e) = AgentPart(conf[file])
        /\ Holds(conf[file], userPart[file]) => Holds(e, part)
  <2>1. IsFile(conf[file])
    BY DEF FilesInv
  <2>2. CASE /\ conf' = [conf EXCEPT ![file] = <<line>> \o @]
             /\ userPart' = [userPart EXCEPT ![file] = <<line>> \o @]
    <3>1. PICK e : e = Above(line, conf[file])
      OBVIOUS
    <3>2. PICK part : part = Above(line, userPart[file])
      OBVIOUS
    <3>3. IsFile(e) /\ AgentPart(e) = AgentPart(conf[file])
      BY <2>1, <3>1, EditAbove, Zenon
    <3>4. Holds(conf[file], userPart[file]) => Holds(e, part)
      BY <2>1, <3>1, <3>2, EditAbove, Zenon
    <3>5. conf' = [conf EXCEPT ![file] = e] /\ userPart' = [userPart EXCEPT ![file] = part]
      BY <2>2, <3>1, <3>2 DEF Above
    <3> QED BY <3>3, <3>4, <3>5
  <2>3. CASE /\ Last(conf[file]) = ""
             /\ \E end \in {<<line>>, <<line, "">>} : conf' = [conf EXCEPT ![file] = Front(@) \o end]
             /\ userPart' = [userPart EXCEPT ![file] = Append(@, line)]
    <3>1. PICK e : e \in {Front(conf[file]) \o <<line>>, Front(conf[file]) \o <<line, "">>}
                   /\ conf' = [conf EXCEPT ![file] = e]
      BY <2>3
    <3>2. PICK part : part = Append(userPart[file], line)
      OBVIOUS
    <3>3. IsFile(e) /\ AgentPart(e) = AgentPart(conf[file])
      BY <2>1, <2>3, <3>1, EditBelow, Zenon
    <3>4. Holds(conf[file], userPart[file]) => Holds(e, part)
      BY <2>1, <2>3, <3>1, <3>2, EditBelow, Zenon
    <3>5. userPart' = [userPart EXCEPT ![file] = part]
      BY <2>3, <3>2
    <3> QED BY <3>1, <3>3, <3>4, <3>5
  <2> QED BY <2>2, <2>3 DEF EditFile
<1>3. /\ conf'[file] = e /\ userPart'[file] = part
      /\ \A g \in Files \ {file} : conf'[g] = conf[g] /\ userPart'[g] = userPart[g]
  BY <1>2 DEF TypeInv
<1>4. TypeInv'
  <2>1. DOMAIN conf = Files /\ DOMAIN userPart = Files
    BY DEF TypeInv
  <2>2. /\ DOMAIN conf' = Files /\ conf' = [g \in Files |-> conf'[g]]
        /\ DOMAIN userPart' = Files /\ userPart' = [g \in Files |-> userPart'[g]]
    BY <1>2, <2>1
  <2> QED BY <1>1, <2>2 DEF TypeInv
<1>5. FilesInv'
  BY <1>2, <1>3 DEF FilesInv
<1>6. \A g \in Files : pc # <<"write", g>> /\ pc \notin Passed(g)
  BY <1>1 DEF Idle, Done, Passed, At, Files
<1>7. ProposedInv'
  BY <1>1, <1>6 DEF ProposedInv
<1>8. LinesInv'
  <2> SUFFICES ASSUME NEW g \in Files, g \notin torn PROVE Holds(conf'[g], userPart'[g])
    BY <1>1, <1>6 DEF LinesInv, Current
  <2>1. Holds(conf[g], userPart[g])
    BY <1>6 DEF LinesInv, Current
  <2> QED BY <1>2, <1>3, <2>1
<1>9. ProgressInv'
  BY <1>1, <1>6 DEF ProgressInv, Idle, Done, At
<1>10. SettledInv'
  <2> SUFFICES ASSUME faults = 0, ~firstRun
               PROVE  (\A g \in Files : Marked(g, conf'[g], oldFlags)) /\ NSSFollows(oldFlags)
    BY <1>1 DEF SettledInv, Applied, NSSFollows
  <2>1. (\A g \in Files : Marked(g, conf[g], oldFlags)) /\ NSSFollows(oldFlags)
    BY <1>1 DEF SettledInv, Applied
  <2> QED BY <1>2, <1>3, <2>1 DEF Marked
<1>11. NSSInv'
  BY <1>1 DEF NSSInv, Idle
<1> QED BY <1>4, <1>5, <1>7, <1>8, <1>9, <1>10, <1>11
\* Where Set() goes from a file: past it, and past the ones it was past.
LEMMA AfterFile ==
    ASSUME NEW file \in Files
    PROVE  /\ After(file) \in {Done, <<"open", "nss">>} \cup ({"open", "write"} \X Files)
           /\ After(file) # Idle /\ <<"open", file>> # Idle /\ <<"write", file>> # Idle
           /\ <<"write", "nss">> \notin {After(file), <<"open", file>>, <<"write", file>>}
           /\ \A g \in Files : After(file) # <<"write", g>> /\ <<"open", file>> # <<"write", g>>
           /\ \A g \in Files : <<"write", file>> = <<"write", g>> => g = file
           /\ \A g \in Files : After(file) \in Passed(g) => g = file \/ <<"open", file>> \in Passed(g)
           /\ \A g \in Files : <<"open", file>> \in Passed(g) <=> <<"write", file>> \in Passed(g)
           /\ <<"open", file>> \notin Passed(file)
           /\ After(file) \in {Done} \cup At("pam") \cup At("group") => <<"open", file>> \in At("pam") \cup At("group")
           /\ <<"write", file>> \in {Done} \cup At("pam") \cup At("group") =>
                <<"open", file>> \in At("pam") \cup At("group")
           /\ <<"open", file>> \in At("pam") \cup At("group") => <<"write", file>> \in At("pam") \cup At("group")
<1>1. After(file) \in {Done, <<"open", "nss">>} \cup ({"open", "write"} \X Files)
  BY DEF After, Done, Files
<1>2. After(file) # Idle /\ <<"open", file>> # Idle /\ <<"write", file>> # Idle
  BY DEF After, Idle, Done, Files
<1>11. <<"write", "nss">> \notin {After(file), <<"open", file>>, <<"write", file>>}
  BY DEF After, Done, Files
<1>3. \A g \in Files : After(file) # <<"write", g>> /\ <<"open", file>> # <<"write", g>>
  BY DEF After, Done, Files
<1>4. \A g \in Files : <<"write", file>> = <<"write", g>> => g = file
  OBVIOUS
<1>5. \A g \in Files : After(file) \in Passed(g) => g = file \/ <<"open", file>> \in Passed(g)
  <2>1. CASE file = "sshd"
    BY <2>1 DEF After, Passed, At, Done, Files
  <2>2. CASE file = "pam"
    BY <2>2 DEF After, Passed, At, Done, Files
  <2>3. CASE file = "group"
    BY <2>3 DEF After, Passed, At, Done, Files
  <2> QED BY <2>1, <2>2, <2>3 DEF Files
<1>6. \A g \in Files : <<"open", file>> \in Passed(g) <=> <<"write", file>> \in Passed(g)
  BY DEF Passed, At, Done, Files
<1>7. <<"open", file>> \notin Passed(file)
  BY DEF Passed, At, Done, Files
<1>8. After(file) \in {Done} \cup At("pam") \cup At("group") =>
        <<"open", file>> \in At("pam") \cup At("group")
  BY DEF After, At, Done, Files
<1>9. <<"write", file>> \in {Done} \cup At("pam") \cup At("group") =>
        <<"open", file>> \in At("pam") \cup At("group")
  BY DEF At, Done
<1>10. <<"open", file>> \in At("pam") \cup At("group") =>
        <<"write", file>> \in At("pam") \cup At("group")
  BY DEF At
<1> QED BY <1>1, <1>2, <1>3, <1>4, <1>5, <1>6, <1>7, <1>8, <1>9, <1>10, <1>11

\* The agent dies.
LEMMA CrashInv ==
    ASSUME Inv, Crash
    PROVE  Inv'
<1> USE DEF Inv
<1>1. /\ torn' = torn \cup {file \in Files \cup {"nss"} : pc = <<"write", file>>}
      /\ pc' = Idle /\ firstRun' = TRUE
      /\ newFlags' = NoFlags /\ oldFlags' = NoFlags
      /\ UNCHANGED <<flags, conf, nss, userPart, edits, faults>>
  BY Zenon DEF Crash, fileVars
<1>2. TypeInv'
  BY <1>1 DEF TypeInv, NoFlags, Flags
<1>3. FilesInv'
  BY <1>1 DEF FilesInv
<1>4. \A g \in Files : Idle # <<"write", g>> /\ Idle \notin Passed(g)
  BY DEF Idle, Done, Passed, At, Files
<1>5. LinesInv'
  <2> SUFFICES ASSUME NEW g \in Files, g \notin torn' PROVE Holds(conf[g], userPart[g])
    BY <1>1, <1>4 DEF LinesInv, Current
  <2>1. g \notin torn /\ pc # <<"write", g>>
    BY <1>1
  <2> QED BY <2>1 DEF LinesInv, Current
<1>6. ProposedInv'
  BY <1>1, <1>4 DEF ProposedInv
<1>7. ProgressInv'
  BY <1>1, <1>4 DEF ProgressInv, Idle, Done, At
<1>8. SettledInv'
  BY <1>1 DEF SettledInv
<1>9. NSSInv'
  <2>1. nss = "lost" => "nss" \in torn'
    BY <1>1 DEF NSSInv
  <2> QED BY <1>1, <2>1 DEF NSSInv, Idle
<1> QED BY <1>2, <1>3, <1>5, <1>6, <1>7, <1>8, <1>9

\* Set() begins.
LEMMA HandleEventInv ==
    ASSUME Inv, HandleEvent
    PROVE  Inv'
<1> USE DEF Inv
<1>1. /\ pc = Idle /\ newFlags' = flags /\ pc' = <<"open", "sshd">>
      /\ UNCHANGED <<flags, oldFlags, firstRun, conf, nss, proposed, userPart, torn, edits, faults>>
  BY Zenon DEF HandleEvent, boundVars
<1>2. TypeInv'
  BY <1>1 DEF TypeInv, Files
<1>3. FilesInv'
  BY <1>1 DEF FilesInv
<1>4. /\ \A g \in Files : /\ pc # <<"write", g>>
                          /\ <<"open", "sshd">> # <<"write", g>> /\ <<"open", "sshd">> \notin Passed(g)
      /\ <<"open", "sshd">> # Idle /\ <<"open", "sshd">> \notin {Done} \cup At("pam") \cup At("group")
  BY <1>1 DEF Idle, Done, Passed, At, Files
<1>5. LinesInv'
  BY <1>1, <1>4 DEF LinesInv, Current
<1>6. ProposedInv'
  BY <1>1, <1>4 DEF ProposedInv
<1>7. ProgressInv'
  BY <1>1, <1>4 DEF ProgressInv
<1>8. SettledInv'
  BY <1>1, <1>4 DEF SettledInv
<1>9. NSSInv'
  BY <1>1 DEF NSSInv, Idle
<1> QED BY <1>2, <1>3, <1>5, <1>6, <1>7, <1>8, <1>9

\* A file is as proposed, or is passed over.
LEMMA SkipFileInv ==
    ASSUME Inv, NEW file \in Files, SkipFile(file)
    PROVE  Inv'
<1> USE DEF Inv
<1>1. /\ pc = <<"open", file>> /\ pc' = After(file)
      /\ UNCHANGED <<flags, newFlags, oldFlags, firstRun, conf, nss, proposed, userPart, torn, edits>>
  BY Zenon DEF SkipFile, mdVars, fileVars
<1>2. \/ Stable(file, conf[file], newFlags) /\ faults' = faults
      \/ faults' = faults + 1
  BY Zenon DEF SkipFile, Stable
<1>3. faults \in Nat /\ newFlags \in Flags
  BY DEF TypeInv
<1>4. TypeInv'
  <2>1. faults' \in Nat
    BY <1>2, <1>3
  <2> QED BY <1>1, <2>1, AfterFile DEF TypeInv, At
<1>5. FilesInv'
  BY <1>1 DEF FilesInv
<1>6. LinesInv'
  BY <1>1, AfterFile DEF LinesInv, Current
<1>7. ProposedInv'
  BY <1>1, AfterFile DEF ProposedInv
<1>8. SettledInv'
  BY <1>1, AfterFile DEF SettledInv
<1>9. ProgressInv'
  <2> SUFFICES ASSUME faults' = 0 PROVE ProgressInv'
    BY DEF ProgressInv
  <2>1. Stable(file, conf[file], newFlags) /\ faults = 0
    BY <1>2, <1>3
  <2>2. Marked(file, conf[file], newFlags)
    <3>1. conf[file] \in Seq(Lines) /\ Clean(conf[file])
      BY DEF FilesInv, IsFile, WellMarked
    <3>2. conf[file] = Update(file, conf[file], newFlags)
      BY <2>1 DEF Stable
    <3> QED BY <1>3, <3>1, <3>2, UpdateLines, Zenon
  <2>3. ASSUME NEW g \in Files, After(file) \in Passed(g) PROVE Applied(g, newFlags)
    <3>1. CASE g = file
      BY <2>1, <2>2, <3>1 DEF Applied
    <3>2. CASE pc \in Passed(g)
      BY <2>1, <3>2 DEF ProgressInv
    <3> QED BY <1>1, <2>3, <3>1, <3>2, AfterFile
  <2>4. After(file) \in {Done} \cup At("pam") \cup At("group") => NSSFollows(newFlags)
    BY <1>1, <2>1, AfterFile DEF ProgressInv
  <2> QED BY <1>1, <2>3, <2>4 DEF ProgressInv, Applied, NSSFollows
<1>10. NSSInv'
  BY <1>1, AfterFile DEF NSSInv
<1> QED BY <1>4, <1>5, <1>6, <1>7, <1>8, <1>9, <1>10

\* A file is truncated.
LEMMA OpenFileInv ==
    ASSUME Inv, NEW file \in Files, OpenFile(file)
    PROVE  Inv'
<1> USE DEF Inv
<1>1. /\ pc = <<"open", file>> /\ pc' = <<"write", file>>
      /\ proposed' = Update(file, conf[file], newFlags)
      /\ conf' = [conf EXCEPT ![file] = <<"">>]
      /\ UNCHANGED <<flags, newFlags, oldFlags, firstRun, nss, userPart, torn, edits, faults>>
  BY Zenon DEF OpenFile, mdVars, boundVars
<1>2. conf[file] \in Seq(Lines) /\ Clean(conf[file]) /\ newFlags \in Flags
  BY DEF FilesInv, IsFile, WellMarked, TypeInv
<1>3. /\ IsFile(proposed') /\ Marked(file, proposed', newFlags) /\ Stable(file, proposed', newFlags)
      /\ Holds(proposed', Only(UserLines, FilterLoop(conf[file]).out))
  <2>1. PICK u : u = Update(file, conf[file], newFlags)
    OBVIOUS
  <2>2. /\ IsFile(u) /\ Marked(file, u, newFlags) /\ Stable(file, u, newFlags)
        /\ Holds(u, Only(UserLines, FilterLoop(conf[file]).out))
    BY <1>2, <2>1, UpdateLines, Zenon
  <2> QED BY <1>1, <2>1, <2>2
<1>4. DOMAIN conf = Files
  BY DEF TypeInv
<1>5. IsFile(conf'[file]) /\ \A g \in Files \ {file} : conf'[g] = conf[g]
  <2>1. PICK e : e = <<"">>
    OBVIOUS
  <2>2. IsFile(e) /\ conf'[file] = e
    BY <1>1, <1>4, <2>1, EmptyFile
  <2> QED BY <1>1, <1>4, <2>2
<1>6. TypeInv'
  <2>1. DOMAIN conf' = Files /\ conf' = [g \in Files |-> conf'[g]]
    BY <1>1, <1>4
  <2> QED BY <1>1, <2>1 DEF TypeInv
<1>7. FilesInv'
  BY <1>5 DEF FilesInv
<1>8. LinesInv'
  <2> SUFFICES ASSUME NEW g \in Files, g \notin torn PROVE Holds(Current(g)', userPart[g])
    BY <1>1 DEF LinesInv
  <2>1. Holds(conf[g], userPart[g])
    BY <1>1, AfterFile DEF LinesInv, Current
  <2>2. CASE g = file
    <3>1. Only(UserLines, FilterLoop(conf[g]).out) = userPart[g]
      BY <2>1 DEF Holds
    <3>2. Current(g)' = proposed'
      BY <1>1, <2>2 DEF Current
    <3> QED BY <1>3, <2>2, <3>1, <3>2
  <2>3. CASE g # file
    <3>1. Current(g)' = conf[g]
      BY <1>1, <1>5, <2>3, AfterFile DEF Current
    <3> QED BY <2>1, <3>1
  <2> QED BY <2>2, <2>3
<1>9. ProposedInv'
  BY <1>1, <1>3, AfterFile DEF ProposedInv
<1>10. SettledInv'
  BY <1>1, AfterFile DEF SettledInv
<1>11. ProgressInv'
  <2> SUFFICES ASSUME faults = 0 PROVE ProgressInv'
    BY <1>1 DEF ProgressInv
  <2>1. ASSUME NEW g \in Files, <<"write", file>> \in Passed(g) PROVE Applied(g, newFlags)'
    <3>1. <<"open", file>> \in Passed(g) /\ g # file
      BY <2>1, AfterFile
    <3>2. Applied(g, newFlags)
      BY <1>1, <3>1 DEF ProgressInv
    <3> QED BY <1>1, <1>5, <3>1, <3>2 DEF Applied
  <2>2. <<"write", file>> \in {Done} \cup At("pam") \cup At("group") => NSSFollows(newFlags)
    BY <1>1, AfterFile DEF ProgressInv
  <2> QED BY <1>1, <2>1, <2>2 DEF ProgressInv, NSSFollows, Applied
<1>12. NSSInv'
  BY <1>1, AfterFile DEF NSSInv
<1> QED BY <1>6, <1>7, <1>8, <1>9, <1>10, <1>11, <1>12

\* A file is written.
LEMMA WriteFileInv ==
    ASSUME Inv, NEW file \in Files, WriteFile(file)
    PROVE  Inv'
<1> USE DEF Inv
<1>1. /\ pc = <<"write", file>> /\ pc' = After(file)
      /\ conf' = [conf EXCEPT ![file] = proposed]
      /\ UNCHANGED <<flags, newFlags, oldFlags, firstRun, nss, userPart, torn, edits, faults>>
  BY Zenon DEF WriteFile, mdVars, boundVars
<1>2. IsFile(proposed) /\ Marked(file, proposed, newFlags) /\ Stable(file, proposed, newFlags)
  BY <1>1 DEF ProposedInv
<1>3. DOMAIN conf = Files
  BY DEF TypeInv
<1>4. conf'[file] = proposed /\ \A g \in Files \ {file} : conf'[g] = conf[g]
  BY <1>1, <1>3
<1>5. TypeInv'
  <2>1. DOMAIN conf' = Files /\ conf' = [g \in Files |-> conf'[g]]
    BY <1>1, <1>3
  <2> QED BY <1>1, <2>1, AfterFile DEF TypeInv, At
<1>6. FilesInv'
  BY <1>2, <1>4 DEF FilesInv
<1>7. LinesInv'
  <2> SUFFICES ASSUME NEW g \in Files, g \notin torn PROVE Holds(conf'[g], userPart[g])
    BY <1>1, AfterFile DEF LinesInv, Current
  <2>1. Holds(Current(g), userPart[g])
    BY DEF LinesInv
  <2>2. Current(g) = conf'[g]
    BY <1>1, <1>4, AfterFile DEF Current
  <2> QED BY <2>1, <2>2
<1>8. ProposedInv'
  BY <1>1, AfterFile DEF ProposedInv
<1>9. SettledInv'
  BY <1>1, AfterFile DEF SettledInv
<1>10. ProgressInv'
  <2> SUFFICES ASSUME faults = 0 PROVE ProgressInv'
    BY <1>1 DEF ProgressInv
  <2>1. ASSUME NEW g \in Files, After(file) \in Passed(g) PROVE Applied(g, newFlags)'
    <3>1. CASE g = file
      BY <1>1, <1>2, <1>4, <3>1 DEF Applied
    <3>2. CASE g # file
      <4>1. pc \in Passed(g)
        BY <1>1, <2>1, <3>2, AfterFile
      <4>2. Applied(g, newFlags)
        BY <4>1 DEF ProgressInv
      <4> QED BY <1>1, <1>4, <3>2, <4>2 DEF Applied
    <3> QED BY <3>1, <3>2
  <2>2. After(file) \in {Done} \cup At("pam") \cup At("group") => NSSFollows(newFlags)
    BY <1>1, AfterFile DEF ProgressInv
  <2> QED BY <1>1, <2>1, <2>2 DEF ProgressInv, NSSFollows, Applied
<1>11. NSSInv'
  BY <1>1, AfterFile DEF NSSInv
<1> QED BY <1>5, <1>6, <1>7, <1>8, <1>9, <1>10, <1>11

\* Where Set() is with nsswitch.conf.
LEMMA AtNSS ==
    /\ After("nss") = <<"open", "pam">>
    /\ \A g \in Files : /\ <<"open", "nss">> # <<"write", g>> /\ <<"write", "nss">> # <<"write", g>>
                        /\ <<"open", "pam">> # <<"write", g>>
                        /\ <<"open", "pam">> \in Passed(g) => <<"open", "nss">> \in Passed(g)
                        /\ <<"open", "nss">> \in Passed(g) <=> <<"write", "nss">> \in Passed(g)
    /\ Idle \notin {<<"open", "nss">>, <<"write", "nss">>, <<"open", "pam">>}
    /\ <<"write", "nss">> \notin {<<"open", "nss">>, <<"open", "pam">>}
    /\ {<<"open", "nss">>, <<"write", "nss">>} \cap ({Done} \cup At("pam") \cup At("group")) = {}
    /\ <<"open", "pam">> \in {"open", "write"} \X Files
BY DEF After, Passed, At, Idle, Done, Files

\* A write fails: the file stays truncated.
LEMMA WriteFailsInv ==
    ASSUME Inv, NEW file \in Files \cup {"nss"}, WriteFileFails(file)
    PROVE  Inv'
<1> USE DEF Inv
<1>1. /\ pc = <<"write", file>> /\ pc' = After(file) /\ torn' = torn \cup {file} /\ faults' = faults + 1
      /\ UNCHANGED <<flags, newFlags, oldFlags, firstRun, conf, nss, userPart, edits>>
  BY Zenon DEF WriteFileFails, mdVars, fileVars
<1>2. faults' \in Nat /\ faults' # 0
  BY <1>1 DEF TypeInv
<1>3. /\ After(file) \in {Done} \cup At("nss") \cup ({"open", "write"} \X Files)
      /\ <<"write", "nss">> # After(file)
      /\ \A g \in Files : After(file) # <<"write", g>>
  <2>1. CASE file = "nss"
    BY <2>1, AtNSS, Zenon
  <2>2. CASE file \in Files
    BY <2>2, AfterFile DEF At
  <2> QED BY <2>1, <2>2
<1>4. TypeInv'
  BY <1>1, <1>2, <1>3 DEF TypeInv
<1>5. FilesInv' /\ ProposedInv' /\ ProgressInv' /\ SettledInv'
  BY <1>1, <1>2, <1>3 DEF FilesInv, ProposedInv, ProgressInv, SettledInv
<1>6. LinesInv'
  <2> SUFFICES ASSUME NEW g \in Files, g \notin torn' PROVE Holds(conf[g], userPart[g])
    BY <1>1, <1>3 DEF LinesInv, Current
  <2>1. g \notin torn /\ pc # <<"write", g>>
    BY <1>1
  <2> QED BY <2>1 DEF LinesInv, Current
<1>7. NSSInv'
  <2>1. nss = "lost" => "nss" \in torn'
    BY <1>1 DEF NSSInv
  <2> QED BY <1>1, <1>3, <2>1 DEF NSSInv
<1> QED BY <1>4, <1>5, <1>6, <1>7

\* nsswitch.conf follows the flags already, or cannot be opened.
LEMMA SkipNSSInv ==
    ASSUME Inv, SkipNSSwitchConfig
    PROVE  Inv'
<1> USE DEF Inv
<1>1. /\ pc = <<"open", "nss">> /\ pc' = <<"open", "pam">>
      /\ UNCHANGED <<flags, newFlags, oldFlags, firstRun, conf, nss, proposed, userPart, torn, edits>>
  BY AtNSS, Zenon DEF SkipNSSwitchConfig, mdVars, fileVars
<1>2. \/ UpdateNSSwitchConfig(nss, newFlags) = nss /\ faults' = faults
      \/ faults' = faults + 1
  BY Zenon DEF SkipNSSwitchConfig
<1>3. faults \in Nat /\ newFlags \in Flags /\ nss \in {"none", "ours", "foreign", "lost"}
  BY DEF TypeInv
<1>4. UpdateNSSwitchConfig(nss, newFlags) # (IF newFlags.enable THEN "none" ELSE "ours")
  BY <1>3 DEF UpdateNSSwitchConfig, Flags
<1>5. TypeInv'
  <2>1. faults' \in Nat
    BY <1>2, <1>3
  <2> QED BY <1>1, <2>1, AtNSS DEF TypeInv
<1>6. FilesInv'
  BY <1>1 DEF FilesInv
<1>7. LinesInv'
  BY <1>1, AtNSS DEF LinesInv, Current
<1>8. ProposedInv'
  BY <1>1, AtNSS DEF ProposedInv
<1>9. SettledInv'
  BY <1>1, AtNSS DEF SettledInv
<1>10. ProgressInv'
  <2> SUFFICES ASSUME faults' = 0 PROVE ProgressInv'
    BY DEF ProgressInv
  <2>1. faults = 0 /\ NSSFollows(newFlags)'
    BY <1>1, <1>2, <1>3, <1>4 DEF NSSFollows
  <2>2. ASSUME NEW g \in Files, <<"open", "pam">> \in Passed(g) PROVE Applied(g, newFlags)
    BY <1>1, <2>1, <2>2, AtNSS DEF ProgressInv
  <2> QED BY <1>1, <2>1, <2>2 DEF ProgressInv, Applied
<1>11. NSSInv'
  BY <1>1, AtNSS DEF NSSInv
<1> QED BY <1>5, <1>6, <1>7, <1>8, <1>9, <1>10, <1>11

\* nsswitch.conf is truncated.
LEMMA OpenNSSInv ==
    ASSUME Inv, OpenNSSwitchConfig
    PROVE  Inv'
<1> USE DEF Inv
<1>1. /\ pc = <<"open", "nss">> /\ pc' = <<"write", "nss">> /\ nss' = "lost"
      /\ UpdateNSSwitchConfig(nss, newFlags) # nss
      /\ proposed' = <<UpdateNSSwitchConfig(nss, newFlags)>>
      /\ UNCHANGED <<flags, newFlags, oldFlags, firstRun, conf, userPart, torn, edits, faults>>
  BY Zenon DEF OpenNSSwitchConfig, mdVars, boundVars
<1>2. TypeInv'
  BY <1>1 DEF TypeInv, At
<1>3. FilesInv'
  BY <1>1 DEF FilesInv
<1>4. LinesInv'
  BY <1>1, AtNSS DEF LinesInv, Current
<1>5. ProposedInv'
  BY <1>1, AtNSS DEF ProposedInv
<1>6. SettledInv'
  BY <1>1, AtNSS DEF SettledInv
<1>7. ProgressInv'
  <2> SUFFICES ASSUME faults = 0 PROVE ProgressInv'
    BY <1>1 DEF ProgressInv
  <2>1. ASSUME NEW g \in Files, <<"write", "nss">> \in Passed(g) PROVE Applied(g, newFlags)
    BY <1>1, <2>1, AtNSS DEF ProgressInv
  <2>2. <<"write", "nss">> \notin {Done} \cup At("pam") \cup At("group")
    BY AtNSS, Zenon
  <2> QED BY <1>1, <2>1, <2>2 DEF ProgressInv, Applied
<1>8. NSSInv'
  <2>1. newFlags \in Flags /\ nss \in {"none", "ours", "foreign", "lost"}
    BY DEF TypeInv
  <2>2. PICK suffix : suffix = UpdateNSSwitchConfig(nss, newFlags)
    OBVIOUS
  <2>3. /\ suffix \in {"none", "ours", "foreign"}
        /\ suffix # (IF newFlags.enable THEN "none" ELSE "ours")
    BY <1>1, <2>1, <2>2 DEF UpdateNSSwitchConfig, Flags
  <2> QED BY <1>1, <2>2, <2>3 DEF NSSInv
<1> QED BY <1>2, <1>3, <1>4, <1>5, <1>6, <1>7, <1>8

\* nsswitch.conf is written.
LEMMA WriteNSSInv ==
    ASSUME Inv, WriteNSSwitchConfig
    PROVE  Inv'
<1> USE DEF Inv
<1>1. /\ pc = <<"write", "nss">> /\ pc' = <<"open", "pam">> /\ nss' = proposed[1]
      /\ UNCHANGED <<flags, newFlags, oldFlags, firstRun, conf, userPart, torn, edits, faults>>
  BY AtNSS, Zenon DEF WriteNSSwitchConfig, mdVars, boundVars
<1>2. nss' \in {"none", "ours", "foreign"} /\ nss' # (IF newFlags.enable THEN "none" ELSE "ours")
  BY <1>1 DEF NSSInv
<1>3. TypeInv'
  BY <1>1, <1>2, AtNSS DEF TypeInv
<1>4. FilesInv'
  BY <1>1 DEF FilesInv
<1>5. LinesInv'
  BY <1>1, AtNSS DEF LinesInv, Current
<1>6. ProposedInv'
  BY <1>1, AtNSS DEF ProposedInv
<1>7. SettledInv'
  BY <1>1, AtNSS DEF SettledInv
<1>8. ProgressInv'
  <2> SUFFICES ASSUME faults = 0 PROVE ProgressInv'
    BY <1>1 DEF ProgressInv
  <2>1. NSSFollows(newFlags)'
    BY <1>1, <1>2 DEF NSSFollows
  <2>2. ASSUME NEW g \in Files, <<"open", "pam">> \in Passed(g) PROVE Applied(g, newFlags)
    BY <1>1, <2>2, AtNSS DEF ProgressInv
  <2> QED BY <1>1, <2>1, <2>2 DEF ProgressInv, Applied
<1>9. NSSInv'
  BY <1>1, <1>2, AtNSS DEF NSSInv
<1> QED BY <1>3, <1>4, <1>5, <1>6, <1>7, <1>8, <1>9

\* Set() ends.
LEMMA SetDoneInv ==
    ASSUME Inv, SetDone
    PROVE  Inv'
<1> USE DEF Inv
<1>1. /\ pc = Done /\ pc' = Idle /\ oldFlags' = newFlags /\ firstRun' = FALSE
      /\ UNCHANGED <<flags, newFlags, conf, nss, proposed, userPart, torn, edits, faults>>
  BY Zenon DEF SetDone, fileVars, boundVars
<1>2. TypeInv'
  BY <1>1 DEF TypeInv
<1>3. FilesInv'
  BY <1>1 DEF FilesInv
<1>4. \A g \in Files : /\ Done # <<"write", g>> /\ Idle # <<"write", g>>
                       /\ Idle \notin Passed(g) /\ Done \in Passed(g)
  BY DEF Passed, At, Idle, Done, Files
<1>5. LinesInv'
  BY <1>1, <1>4 DEF LinesInv, Current
<1>6. ProposedInv'
  BY <1>1, <1>4 DEF ProposedInv
<1>7. ProgressInv'
  BY <1>1, <1>4 DEF ProgressInv, Idle, Done, At
<1>8. SettledInv'
  BY <1>1, <1>4 DEF ProgressInv, SettledInv, Applied, NSSFollows
<1>9. NSSInv'
  BY <1>1 DEF NSSInv, Idle, Done
<1> QED BY <1>2, <1>3, <1>5, <1>6, <1>7, <1>8, <1>9

\* Every step keeps the invariant.
LEMMA NextInv == Inv /\ [Next]_vars => Inv'
<1> SUFFICES ASSUME Inv, [Next]_vars PROVE Inv'
  OBVIOUS
<1>1. CASE HandleEvent
  BY <1>1, HandleEventInv
<1>2. CASE SkipNSSwitchConfig \/ OpenNSSwitchConfig \/ WriteNSSwitchConfig
  BY <1>2, SkipNSSInv, OpenNSSInv, WriteNSSInv
<1>3. CASE SetDone
  BY <1>3, SetDoneInv
<1>4. ASSUME NEW file \in Files, SkipFile(file) PROVE Inv'
  BY <1>4, SkipFileInv
<1>5. ASSUME NEW file \in Files, OpenFile(file) PROVE Inv'
  BY <1>5, OpenFileInv
<1>6. ASSUME NEW file \in Files, WriteFile(file) PROVE Inv'
  BY <1>6, WriteFileInv
<1>7. CASE MetadataChange
  <2>1. flags' \in Flags
    BY <1>7, ConfigAssumption DEF MetadataChange
  <2> QED BY <1>7, <2>1, QuietInv DEF MetadataChange, mdVars, fileVars
<1>8. CASE Crash
  BY <1>8, CrashInv
<1>9. ASSUME NEW file \in Files, NEW line \in UserLines, EditFile(file, line) PROVE Inv'
  BY <1>9, EditInv
<1>10. CASE UNCHANGED vars
  <2>1. flags' \in Flags
    BY <1>10 DEF vars, Inv, TypeInv
  <2> QED BY <1>10, <2>1, QuietInv DEF vars, mdVars, fileVars, boundVars
<1>11. ASSUME NEW file \in Files \cup {"nss"}, WriteFileFails(file) PROVE Inv'
  BY <1>11, WriteFailsInv
<1> QED BY <1>1, <1>2, <1>3, <1>4, <1>5, <1>6, <1>7, <1>8, <1>9, <1>10, <1>11 DEF Next, AgentStep

-----------------------------------------------------------------------------
(* The theorems.                                                           *)

\* Whatever the initial files hold, and however often and in whatever order OS Login is
\* enabled, changed and disabled, files cannot be opened, the agent dies and an
\* administrator edits: no line of others is ever removed, moved or doubled by the
\* manager, but in a file of which the write failed, or never came, after its truncation.
THEOREM UserLinesKeptAlways == Spec => []UserLinesKept
<1>1. Inv => UserLinesKept
  BY Zenon DEF Inv, LinesInv, UserLinesKept, Current, Holds
<1> QED BY InitInv, NextInv, <1>1, PTL DEF Spec

\* Whenever Set() has handled the flags and no file failed to open or to be written, the
\* agent's lines in every file are those the flags ask for, and what it wrote it would not
\* write again, wherever the agent died before; only nsswitch.conf stays without its lines
\* after a death between its truncation and the write.
THEOREM ConfigFollowsMetadataAlways == Spec => []ConfigFollowsMetadata
<1>1. Inv => ConfigFollowsMetadata
  <2> SUFFICES ASSUME Inv, pc = Idle, faults = 0 PROVE (~Diff => Configured(flags)) /\ Settled
    BY DEF ConfigFollowsMetadata
  <2>1. ASSUME ~firstRun
        PROVE  (\A file \in Files : Applied(file, oldFlags)) /\ NSSFollows(oldFlags)
    BY <2>1 DEF Inv, SettledInv
  <2>2. ~Diff => Configured(flags)
    <3>1. nss = "lost" => "nss" \in torn
      BY DEF Inv, NSSInv, Idle
    <3> QED BY <2>1, <3>1 DEF Diff, Configured, Applied, Marked, NSSFollows
  <2>3. Settled
    BY <2>1 DEF Settled, Applied, Stable
  <2> QED BY <2>2, <2>3
<1> QED BY InitInv, NextInv, <1>1, PTL DEF Spec

-----------------------------------------------------------------------------
(* The trusted CA pipe: its inductive invariant.                           *)

\* mp.waitingWrite is clear while Run() prepares and opens the pipe, and set from
\* the event on.
FlagInv ==
    /\ wPc \in {"setup", "open", "check", "send"} => ~waitingWrite /\ hPc = "idle"
    /\ wPc = "event" => waitingWrite /\ hPc = "idle"

\* The write end is open exactly while someone has it: Run() from its open to the
\* event, then the subscriber until it closes the file.  (An event that is dropped
\* as the manager leaves, and a watcher that ended, may keep it.)
WriteEndInv ==
    /\ wPc \in {"check", "send", "event"} \/ hPc \in {"get", "write", "close"} => writer
    /\ wPc \in {"wait", "setup", "open", "error"} /\ hPc \in {"idle", "finish"} => ~writer

PipeInv == CATypeOK /\ OneWriter /\ FlagInv /\ WriteEndInv

-----------------------------------------------------------------------------
\* The pipe starts in PipeInv.
LEMMA PipeInit == CAInit => PipeInv
<1> SUFFICES ASSUME CAInit PROVE PipeInv
  OBVIOUS
<1>1. CATypeOK
  <2>1. rd \in [Readers -> {"idle", "opening", "open"}] /\ got \in [Sshd -> 0..2] /\ buf \in 0..Capacity
    BY ConstAssumption DEF CAInit
  <2>2. pipe \in BOOLEAN /\ failures \in 0..MaxFailures
    BY ConstAssumption DEF CAInit
  <2> QED BY <2>1, <2>2 DEF CAInit, CATypeOK
<1>2. OneWriter /\ FlagInv /\ WriteEndInv
  BY DEF CAInit, OneWriter, FlagInv, WriteEndInv
<1> QED BY <1>1, <1>2 DEF PipeInv

\* Opening and closing read ends touches neither the watcher nor the subscriber.
LEMMA ReaderStep ==
    ASSUME PipeInv, UNCHANGED <<watcherVars, ctxVars, cPc, hPc, pipe, writer>>,
           rd' \in [Readers -> {"idle", "opening", "open"}],
           buf' \in 0..Capacity, got' \in [Sshd -> 0..2]
    PROVE  PipeInv'
  BY DEF PipeInv, CATypeOK, OneWriter, FlagInv, WriteEndInv, watcherVars, ctxVars

\* Every action keeps PipeInv.
LEMMA PipeStep == PipeInv /\ [CANext]_caVars => PipeInv'
<1> SUFFICES ASSUME PipeInv, [CANext]_caVars PROVE PipeInv'
  OBVIOUS
<1> USE ConstAssumption DEF watcherVars, ctxVars, pipeVars
<1> DEFINE Kept == OneWriter' /\ FlagInv' /\ WriteEndInv'
<1>t. CATypeOK /\ OneWriter /\ FlagInv /\ WriteEndInv
  BY DEF PipeInv
<1>r. /\ rd \in [Readers -> {"idle", "opening", "open"}] /\ buf \in 0..Capacity
      /\ got \in [Sshd -> 0..2] /\ Sshd \subseteq Readers
      /\ "canceler" \in Readers /\ "stale" \in Readers
  BY <1>t DEF CATypeOK, Readers
<1>1. CASE StartRun
  <2>1. rd' \in [Readers -> {"idle", "opening", "open"}]
    BY <1>1, <1>r DEF StartRun
  <2>2. CATypeOK'
    BY <1>1, <1>t, <2>1 DEF StartRun, CATypeOK
  <2>3. Kept
    BY <1>1, <1>t DEF StartRun, OneWriter, FlagInv, WriteEndInv, CATypeOK
  <2> QED BY <2>2, <2>3 DEF PipeInv
<1>2. CASE CreateNamedPipe
  BY <1>2, <1>t DEF CreateNamedPipe, PipeInv, CATypeOK, OneWriter, FlagInv, WriteEndInv
<1>3. CASE FailRun
  <2>1. CATypeOK'
    <3>1. failures' \in 0..MaxFailures
      BY <1>3, <1>t DEF FailRun, CATypeOK
    <3>2. pipe' \in BOOLEAN
      BY <1>3, <1>t DEF FailRun, CATypeOK
    <3>3. cPc' \in {"off", "select", "cancel"}
      BY <1>3, <1>t DEF FailRun, CATypeOK
    <3> QED BY <1>3, <1>t, <3>1, <3>2, <3>3 DEF FailRun, CATypeOK
  <2>2. Kept
    BY <1>3, <1>t DEF FailRun, OneWriter, FlagInv, WriteEndInv
  <2> QED BY <2>1, <2>2 DEF PipeInv
<1>4. CASE OpenWriteEnd
  <2>1. rd' \in [Readers -> {"idle", "opening", "open"}]
    BY <1>4, <1>r DEF OpenWriteEnd
  <2>2. CATypeOK'
    BY <1>4, <1>t, <2>1 DEF OpenWriteEnd, CATypeOK
  <2>3. Kept
    BY <1>4, <1>t DEF OpenWriteEnd, OneWriter, FlagInv, WriteEndInv
  <2> QED BY <2>2, <2>3 DEF PipeInv
<1>5. CASE CheckCanceled
  <2>1. CATypeOK'
    BY <1>5, <1>t DEF CheckCanceled, CATypeOK
  <2>2. Kept
    BY <1>5, <1>t DEF CheckCanceled, OneWriter, FlagInv, WriteEndInv, CATypeOK
  <2> QED BY <2>1, <2>2 DEF PipeInv
<1>6. CASE ReturnEvent
  BY <1>6, <1>t DEF ReturnEvent, PipeInv, CATypeOK, OneWriter, FlagInv, WriteEndInv
<1>7. CASE DeliverEvent \/ DeliverError \/ DropEvent
  BY <1>7, <1>t DEF DeliverEvent, DeliverError, DropEvent, PipeInv, CATypeOK, OneWriter, FlagInv, WriteEndInv
<1>8. CASE Cancel
  BY <1>8, <1>t DEF Cancel, PipeInv, CATypeOK, OneWriter, FlagInv, WriteEndInv
<1>9. CASE CancelOpen
  <2>1. rd' \in [Readers -> {"idle", "opening", "open"}]
    BY <1>9, <1>r DEF CancelOpen
  <2>2. CATypeOK'
    BY <1>9, <1>t, <2>1 DEF CancelOpen, CATypeOK
  <2>3. Kept
    BY <1>9, <1>t DEF CancelOpen, OneWriter, FlagInv, WriteEndInv
  <2> QED BY <2>2, <2>3 DEF PipeInv
<1>10. ASSUME NEW r \in Readers, CloseReader(r) PROVE PipeInv'
  BY <1>10, <1>r, ReaderStep DEF CloseReader
<1>11. CASE CancelClose
  BY <1>10, <1>11, <1>r DEF CancelClose
<1>12. ASSUME NEW ok \in BOOLEAN, GetCertificates(ok) PROVE PipeInv'
  BY <1>12, <1>t DEF GetCertificates, PipeInv, CATypeOK, OneWriter, FlagInv, WriteEndInv
<1>13. CASE WriteCertificates
  <2>1. buf' \in 0..Capacity
    <3>1. ASSUME buf < Capacity PROVE buf + 1 \in 0..Capacity
      BY <1>r, <3>1
    <3> QED BY <1>13, <1>r, <3>1 DEF WriteCertificates
  <2>2. CATypeOK'
    BY <1>13, <1>t, <2>1 DEF WriteCertificates, CATypeOK
  <2>3. Kept
    BY <1>13, <1>t DEF WriteCertificates, OneWriter, FlagInv, WriteEndInv
  <2> QED BY <2>2, <2>3 DEF PipeInv
<1>14. CASE CloseWriteEnd \/ Finished
  <2>1. CATypeOK'
    BY <1>14, <1>t DEF CloseWriteEnd, Finished, CATypeOK
  <2>2. CASE CloseWriteEnd
    BY <2>1, <2>2, <1>t DEF CloseWriteEnd, PipeInv, OneWriter, FlagInv, WriteEndInv
  <2>3. CASE Finished
    BY <2>1, <2>3, <1>t DEF Finished, PipeInv, OneWriter, FlagInv, WriteEndInv
  <2> QED BY <1>14, <2>2, <2>3
<1>15. ASSUME NEW r \in Sshd, SshdOpen(r) \/ SshdRead(r) PROVE PipeInv'
  <2>1. CASE SshdOpen(r)
    <3>1. got' \in [Sshd -> 0..2] /\ rd' \in [Readers -> {"idle", "opening", "open"}]
      BY <2>1, <1>r DEF SshdOpen
    <3> QED BY <2>1, <1>r, <3>1, ReaderStep DEF SshdOpen
  <2>2. CASE SshdRead(r)
    <3>1. got[r] \in 0..2 /\ buf \in Nat
      BY <1>r
    <3>2. (IF got[r] + buf > 2 THEN 2 ELSE got[r] + buf) \in 0..2
      BY <3>1
    <3>3. got' \in [Sshd -> 0..2] /\ buf' \in 0..Capacity
      BY <2>2, <1>r, <3>2 DEF SshdRead
    <3> QED BY <2>2, <1>r, <3>3, ReaderStep DEF SshdRead
  <2> QED BY <1>15, <2>1, <2>2
<1>16. ASSUME NEW r \in Sshd, SshdEof(r) PROVE PipeInv'
  BY <1>10, <1>16, <1>r DEF SshdEof
<1>17. CASE CancelContext \/ Leave
  <2>1. CATypeOK'
    <3>1. CASE CancelContext
      BY <3>1, <1>t DEF CancelContext, CATypeOK
    <3>2. CASE Leave
      BY <3>2, <1>t DEF Leave, CATypeOK
    <3> QED BY <1>17, <3>1, <3>2
  <2>2. Kept
    BY <1>17, <1>t DEF CancelContext, Leave, OneWriter, FlagInv, WriteEndInv
  <2> QED BY <2>1, <2>2 DEF PipeInv
<1>18. CASE UNCHANGED caVars
  BY <1>18, <1>t DEF caVars, PipeInv, CATypeOK, OneWriter, FlagInv, WriteEndInv
<1> QED
  BY <1>1, <1>2, <1>3, <1>4, <1>5, <1>6, <1>7, <1>8, <1>9, <1>11, <1>12, <1>13, <1>14, <1>15,
     <1>16, <1>17, <1>18
  DEF CANext, WatcherStep, CancelerStep, HandlerStep

\* Type correctness of the watcher, the subscriber and the pipe, and the write end
\* is open exactly while Run() or the subscriber has it.
THEOREM PipeCorrect == CASpec => []PipeInv
  BY PipeInit, PipeStep, PTL DEF CASpec

\* The watcher does not open the pipe while a subscriber still writes to it.
THEOREM OneWriterAtATime == CASpec => []OneWriter
<1>1. PipeInv => OneWriter
  BY DEF PipeInv
<1> QED BY <1>1, PipeCorrect, PTL
=============================================================================
