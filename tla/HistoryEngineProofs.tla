------------------------- MODULE HistoryEngineProofs -------------------------
(***************************************************************************)
(* What holds of the compactions of a history for every set of sources,    *)
(* every kind, size and grouping of theirs, every budget and threshold,    *)
(* every answer of the provider and every summary of the host's engine.    *)
(***************************************************************************)
EXTENDS HistoryEngine, SequenceTheorems, FiniteSetTheorems, TLAPS

-----------------------------------------------------------------------------
(* The inductive invariant: each message has a form that its layers        *)
(* account for, and its layers lead back to its source.                    *)

Messages(S) == [role : Roles, src : Sources \cup {"none"}, layers : Seq(S),
                form : Forms \cup {"exact"}]
Shape(m) ==
  /\ m.role = "tool" => m.src \in Sources
  /\ m.form = "exact" <=> m.layers = << >>
  /\ m.role # "tool" => m.form = "exact"
\* Each marker keeps the text as it was when it was put behind it.
LeadsBack(m) == \A k \in 1..Len(m.layers) :
  [src |-> m.src, layers |-> SubSeq(m.layers, 1, k - 1)] \in m.layers[k]
Sound(S) == {m \in Messages(S) : Shape(m) /\ LeadsBack(m)}

HistoryInv ==
  /\ history \in Seq(Sound(store))
  /\ said \in 0..MaxMessages /\ Len(history) <= said + 2
Remembered(q) ==
  q \in Seq({q[n] : n \in DOMAIN q}) /\ Len(q) <= NoOpMax /\ IsInjective(q)
NoOpInv == Remembered(noop)
IInv == HistoryInv /\ NoOpInv

-----------------------------------------------------------------------------
(* Messages.                                                               *)

LEMMA ExactIsSound ==
  ASSUME NEW S, NEW r \in Roles, NEW s \in Sources \cup {"none"},
         r = "tool" => s \in Sources
  PROVE  [role |-> r, src |-> s, layers |-> << >>, form |-> "exact"] \in Sound(S)
<1>. DEFINE m == [role |-> r, src |-> s, layers |-> << >>, form |-> "exact"]
<1>1. << >> \in Seq(S) /\ Len(<< >>) = 0
  BY EmptySeq
<1>2. m \in Messages(S)
  BY <1>1 DEF Messages
<1>3. Shape(m)
  BY DEF Shape
<1>4. LeadsBack(m)
  BY <1>1 DEF LeadsBack
<1>. QED
  BY <1>2, <1>3, <1>4 DEF Sound

LEMMA SaidIsSound ==
  ASSUME NEW S
  PROVE  /\ Other("user") \in Sound(S) /\ Other("system") \in Sound(S)
         /\ \A s \in Sources : Result(s) \in Sound(S)
BY ExactIsSound DEF Other, Result, Roles

\* What is sound stays so when the provider keeps more.
LEMMA SoundGrows ==
  ASSUME NEW S, NEW T, S \subseteq T
  PROVE  Sound(S) \subseteq Sound(T)
<1>1. Seq(S) \subseteq Seq(T)
  BY SeqMonotonic
<1>. QED
  BY <1>1 DEF Sound, Messages

\* A text is put behind a marker that keeps it.
LEMMA BehindMarker ==
  ASSUME NEW S, NEW m \in Sound(S), m.role = "tool",
         NEW M \in S, Text(m) \in M, NEW f \in Forms
  PROVE  [role |-> "tool", src |-> m.src, layers |-> Append(m.layers, M), form |-> f]
           \in Sound(S)
<1>. DEFINE l == m.layers
            n == [role |-> "tool", src |-> m.src, layers |-> Append(l, M), form |-> f]
<1>1. l \in Seq(S) /\ m \in Messages(S) /\ Shape(m) /\ LeadsBack(m)
  BY DEF Sound, Messages
<1>2. /\ Append(l, M) \in Seq(S) /\ Append(l, M) # << >>
      /\ Len(Append(l, M)) = Len(l) + 1 /\ Len(l) \in Nat
      /\ \A i \in 1..Len(l) : Append(l, M)[i] = l[i]
      /\ Append(l, M)[Len(l) + 1] = M
  BY <1>1, AppendProperties, LenProperties
<1>3. n \in Messages(S)
  BY <1>1, <1>2 DEF Messages, Roles, Shape
<1>4. Shape(n)
  <2>1. m.src \in Sources /\ f # "exact"
    BY <1>1 DEF Shape, Forms
  <2>. QED
    BY <2>1, <1>2 DEF Shape
<1>5. LeadsBack(n)
  <2>1. \A k \in 1..(Len(l) + 1) :
          SubSeq(Append(l, M), 1, k - 1) = SubSeq(l, 1, k - 1)
    <3>. SUFFICES ASSUME NEW k \in 1..(Len(l) + 1)
                  PROVE  SubSeq(Append(l, M), 1, k - 1) = SubSeq(l, 1, k - 1)
      OBVIOUS
    <3>1. CASE k = 1
      BY <3>1, SubSeqEmpty
    <3>2. CASE k # 1
      <4>1. Append(l, M) = l \o <<M>> /\ <<M>> \in Seq(S)
        BY <1>1, AppendIsConcat
      <4>2. 1 \in 1..Len(l) /\ k - 1 \in 1..Len(l)
        BY <1>2, <3>2
      <4>. QED
        BY <1>1, <4>1, <4>2, SubSeqOfConcat1
    <3>. QED
      BY <3>1, <3>2
  <2>2. ASSUME NEW k \in 1..Len(l)
        PROVE  [src |-> m.src, layers |-> SubSeq(Append(l, M), 1, k - 1)] \in Append(l, M)[k]
    BY <1>1, <1>2, <2>1 DEF LeadsBack
  <2>3. [src |-> m.src, layers |-> SubSeq(Append(l, M), 1, Len(l))] \in M
    <3>1. SubSeq(Append(l, M), 1, (Len(l) + 1) - 1) = SubSeq(l, 1, (Len(l) + 1) - 1)
      BY <1>2, <2>1
    <3>2. (Len(l) + 1) - 1 = Len(l)
      BY <1>2
    <3>3. SubSeq(l, 1, Len(l)) = l
      BY <1>1, SubSeqFull
    <3>. QED
      BY <3>1, <3>2, <3>3 DEF Text
  <2>4. ASSUME NEW k \in 1..(Len(l) + 1)
        PROVE  [src |-> m.src, layers |-> SubSeq(Append(l, M), 1, k - 1)] \in Append(l, M)[k]
    <3>1. CASE k \in 1..Len(l)
      BY <3>1, <2>2
    <3>2. CASE k = Len(l) + 1
      <4>1. k - 1 = Len(l) /\ Append(l, M)[k] = M
        BY <1>2, <3>2
      <4>. QED
        BY <2>3, <4>1
    <3>. QED
      BY <3>1, <3>2, <1>2
  <2>. QED
    BY <2>4, <1>2 DEF LeadsBack
<1>. QED
  BY <1>3, <1>4, <1>5 DEF Sound

-----------------------------------------------------------------------------
(* Histories.                                                              *)

LEMMA OpeningIsSound ==
  ASSUME NEW S, NEW h \in Openings
  PROVE  h \in Seq(Sound(S)) /\ Len(h) <= 2
<1>1. CASE h = <<Other("user")>>
  <2>1. <<Other("user")>> \in Seq(Sound(S)) /\ Len(<<Other("user")>>) = 1
    BY SaidIsSound
  <2>. QED
    BY <1>1, <2>1
<1>2. CASE h = <<Other("system"), Other("user")>>
  <2>1. /\ <<Other("system"), Other("user")>> \in Seq(Sound(S))
        /\ Len(<<Other("system"), Other("user")>>) = 2
    BY SaidIsSound
  <2>. QED
    BY <1>2, <2>1
<1>. QED
  BY <1>1, <1>2 DEF Openings

\* A summary stands for one message or more, and leaves the rest as it is.
LEMMA SummaryIsSound ==
  ASSUME NEW A, Other("user") \in A, NEW h \in Seq(A), NEW g \in Summaries(h)
  PROVE  g \in Seq(A) /\ Len(g) <= Len(h)
<1>. DEFINE free == DOMAIN h \ Protected(h)
            Before(i) == SubSeq(h, 1, i - 1)
            Behind(j) == SubSeq(h, j + 1, Len(h))
<1>1. PICK i \in free, j \in free :
        /\ \A k \in free : i <= k
        /\ g = Before(i) \o <<Other("user")>> \o Behind(j)
  BY Zenon DEF Summaries
<1>2. /\ i \in 1..Len(h) /\ j \in 1..Len(h) /\ i <= j /\ Len(h) \in Nat
      /\ \A k \in 1..Len(h) : h[k] \in A
  BY <1>1, LenProperties, ElementOfSeq
<1>3. Before(i) \in Seq(A) /\ Len(Before(i)) = i - 1
  <2>1. \A k \in 1..(i - 1) : h[k] \in A
    BY <1>2
  <2>. QED
    BY <1>2, <2>1, SubSeqProperties
<1>4. Behind(j) \in Seq(A) /\ Len(Behind(j)) = Len(h) - j
  <2>1. \A k \in (j + 1)..Len(h) : h[k] \in A
    BY <1>2
  <2>. QED
    BY <1>2, <2>1, SubSeqProperties
<1>5. <<Other("user")>> \in Seq(A) /\ Len(<<Other("user")>>) = 1
  OBVIOUS
<1>6. /\ Before(i) \o <<Other("user")>> \in Seq(A)
      /\ Len(Before(i) \o <<Other("user")>>) = i
  BY <1>2, <1>3, <1>5, ConcatProperties
<1>7. g \in Seq(A) /\ Len(g) = i + (Len(h) - j)
  BY <1>1, <1>4, <1>6, ConcatProperties
<1>. QED
  BY <1>2, <1>7

LEMMA SameBound ==
  ASSUME NEW a \in Nat, NEW b \in Nat, 1..a = 1..b
  PROVE  a = b
<1>1. b > 0 => b \in 1..a
  OBVIOUS
<1>2. a > 0 => a \in 1..b
  OBVIOUS
<1>. QED
  BY <1>1, <1>2

\* The forms of a compaction lead back if the provider has kept what they name.
LEMMA TransformedIsSound ==
  ASSUME NEW S, NEW h \in Seq(Sound(S)), NEW T, S \subseteq T,
         NEW answers \in [Requests(h, Ages(h)) -> {"marker", "no_marker"}],
         \A I \in Used(answers) : Marker(h, I) \in T
  PROVE  /\ Transformed(h, Used(answers), Ages(h)) \in Seq(Sound(T))
         /\ Len(Transformed(h, Used(answers), Ages(h))) = Len(h)
<1>. DEFINE used == Used(answers)
            g == Transformed(h, used, Ages(h))
<1>1. /\ DOMAIN h = 1..Len(h) /\ Len(h) \in Nat
      /\ \A i \in 1..Len(h) : h[i] \in Sound(S)
  BY LenProperties, ElementOfSeq
<1>2. Sound(S) \subseteq Sound(T)
  BY SoundGrows
<1>3. ASSUME NEW I \in used, NEW i \in I
      PROVE  i \in 1..Len(h) /\ h[i].role = "tool"
  <2>1. I \in Requests(h, Ages(h))
    BY DEF Used
  <2>2. DOMAIN Ages(h) = Candidates(h)
    BY DEF Ages
  <2>3. i \in DOMAIN Ages(h)
    BY <2>1 DEF Requests
  <2>. QED
    BY <1>1, <2>2, <2>3 DEF Candidates
<1>4. ASSUME NEW i \in 1..Len(h), NEW I \in used, i \in I
      PROVE  Replaced(h, I, i, Ages(h)[i]) \in Sound(T)
  <2>1. h[i] \in Sound(T) /\ h[i].role = "tool"
    BY <1>1, <1>2, <1>3, <1>4
  <2>2. Marker(h, I) \in T /\ Text(h[i]) \in Marker(h, I)
    BY <1>4 DEF Marker
  <2>3. Form(I, i, Ages(h)[i]) \in Forms
    BY DEF Form, Forms
  <2>. QED
    BY <2>1, <2>2, <2>3, BehindMarker DEF Replaced
<1>5. ASSUME NEW i \in 1..Len(h)
      PROVE  g[i] \in Sound(T)
  <2>1. CASE \E I \in used : i \in I
    <3>. DEFINE I == CHOOSE I \in used : i \in I
    <3>1. I \in used /\ i \in I
      BY <2>1
    <3>2. g[i] = Replaced(h, I, i, Ages(h)[i])
      BY <1>1, <2>1 DEF Transformed
    <3>. HIDE DEF I
    <3>. QED
      BY <1>4, <3>1, <3>2
  <2>2. CASE ~\E I \in used : i \in I
    <3>1. g[i] = h[i]
      BY <1>1, <2>2 DEF Transformed
    <3>. QED
      BY <1>1, <1>2, <3>1
  <2>. QED
    BY <2>1, <2>2
<1>6. g = [i \in 1..Len(h) |-> g[i]]
  BY <1>1 DEF Transformed
<1>. HIDE DEF g
<1>7. g \in [1..Len(h) -> Sound(T)]
  BY <1>5, <1>6
<1>8. g \in Seq(Sound(T)) /\ Len(g) = Len(h)
  <2>1. g \in Seq(Sound(T))
    BY <1>1, <1>7, SeqDef
  <2>2. DOMAIN g = 1..Len(h) /\ DOMAIN g = 1..Len(g) /\ Len(g) \in Nat
    BY <1>7, <2>1, LenProperties
  <2>3. 1..Len(h) = 1..Len(g)
    BY <2>2, Zenon
  <2>4. Len(g) = Len(h)
    BY <1>1, <2>2, <2>3, SameBound
  <2>. QED
    BY <2>1, <2>4
<1>. QED
  BY <1>8 DEF g

-----------------------------------------------------------------------------
(* What the engine remembers.                                              *)

LEMMA OwnRange ==
  ASSUME NEW T, NEW s \in Seq(T)
  PROVE  s \in Seq({s[n] : n \in DOMAIN s})
<1>. DEFINE R == {s[n] : n \in DOMAIN s}
<1>1. s \in [1..Len(s) -> T] /\ Len(s) \in Nat /\ DOMAIN s = 1..Len(s)
  BY LenProperties
<1>2. s \in [1..Len(s) -> R]
  BY <1>1
<1>. HIDE DEF R
<1>3. s \in Seq(R)
  BY <1>1, <1>2, SeqDef
<1>. QED
  BY <1>3 DEF R

LEMMA OnceIs ==
  ASSUME NEW T, NEW s \in Seq(T), Len(s) <= NoOpMax,
         \A m, n \in 1..Len(s) : s[m] = s[n] => m = n
  PROVE  Remembered(s)
<1>1. DOMAIN s = 1..Len(s)
  BY LenProperties
<1>. QED
  BY <1>1, OwnRange DEF IsInjective, Remembered

LEMMA AppendedOnce ==
  ASSUME NEW T, NEW s \in Seq(T), NEW e \in T,
         \A n \in 1..Len(s) : s[n] # e,
         \A m, n \in 1..Len(s) : s[m] = s[n] => m = n
  PROVE  \A m, n \in 1..Len(Append(s, e)) :
           Append(s, e)[m] = Append(s, e)[n] => m = n
<1>. DEFINE q == Append(s, e)
<1>1. /\ Len(q) = Len(s) + 1 /\ Len(s) \in Nat
      /\ \A n \in 1..Len(s) : q[n] = s[n]
      /\ q[Len(s) + 1] = e
  BY AppendProperties, LenProperties
<1>. HIDE DEF q
<1>2. ASSUME NEW m \in 1..Len(q), NEW n \in 1..Len(q), q[m] = q[n]
      PROVE  m = n
  <2>1. CASE m \in 1..Len(s) /\ n \in 1..Len(s)
    BY <1>1, <1>2, <2>1
  <2>2. CASE m \in 1..Len(s) /\ n = Len(s) + 1
    BY <1>1, <1>2, <2>2
  <2>3. CASE m = Len(s) + 1 /\ n \in 1..Len(s)
    BY <1>1, <1>2, <2>3
  <2>. QED
    BY <1>1, <1>2, <2>1, <2>2, <2>3
<1>. QED
  BY <1>2 DEF q

LEMMA RememberedOnce ==
  ASSUME EngineAssumption, NoOpInv, noop' = Remember(history),
         \A n \in DOMAIN noop : noop[n] # history
  PROVE  NoOpInv'
<1>. DEFINE q == Append(noop, history)
            R == {noop[n] : n \in DOMAIN noop}
            S == R \cup {history}
<1>1. noop \in Seq(R) /\ Len(noop) <= NoOpMax /\ NoOpMax \in Nat /\ IsInjective(noop)
  BY DEF NoOpInv, Remembered, EngineAssumption
<1>2. R \subseteq S /\ history \in S
  OBVIOUS
<1>. HIDE DEF R, S
<1>3. noop \in Seq(S) /\ DOMAIN noop = 1..Len(noop) /\ Len(noop) \in Nat
  BY <1>1, <1>2, SeqMonotonic, LenProperties
<1>4. q \in Seq(S) /\ q # << >> /\ Len(q) = Len(noop) + 1
  BY <1>2, <1>3, AppendProperties
<1>5. \A m, n \in 1..Len(q) : q[m] = q[n] => m = n
  <2>1. \A m, n \in 1..Len(noop) : noop[m] = noop[n] => m = n
    BY <1>1, <1>3 DEF IsInjective
  <2>. QED
    BY <1>2, <1>3, <2>1, AppendedOnce
<1>6. CASE Len(noop) < NoOpMax
  <2>1. noop' = q
    BY <1>6 DEF Remember
  <2>2. Len(q) <= NoOpMax
    BY <1>1, <1>3, <1>4, <1>6
  <2>. HIDE DEF q
  <2>3. Remembered(q)
    BY <1>4, <1>5, <2>2, OnceIs
  <2>. QED
    BY <2>1, <2>3 DEF NoOpInv
<1>7. CASE ~(Len(noop) < NoOpMax)
  <2>. DEFINE t == Tail(q)
  <2>1. noop' = t
    BY <1>7 DEF Remember
  <2>. HIDE DEF q
  <2>2. /\ t \in Seq(S) /\ Len(t) = Len(q) - 1 /\ Len(t) \in Nat
        /\ \A n \in 1..Len(t) : t[n] = q[n + 1]
    BY <1>4, HeadTailProperties, LenProperties
  <2>. HIDE DEF t
  <2>3. ASSUME NEW m \in 1..Len(t), NEW n \in 1..Len(t), t[m] = t[n]
        PROVE  m = n
    <3>1. m + 1 \in 1..Len(q) /\ n + 1 \in 1..Len(q) /\ q[m + 1] = q[n + 1]
      BY <1>3, <1>4, <2>2, <2>3
    <3>2. m + 1 = n + 1
      BY <1>5, <3>1
    <3>. QED
      BY <2>2, <3>2
  <2>4. Len(t) <= NoOpMax /\ \A m, n \in 1..Len(t) : t[m] = t[n] => m = n
    BY <1>1, <1>3, <1>4, <2>2, <2>3
  <2>5. Remembered(t)
    BY <2>2, <2>4, OnceIs
  <2>. QED
    BY <2>1, <2>5 DEF NoOpInv
<1>. QED
  BY <1>6, <1>7

LEMMA NothingRemembered ==
  ASSUME EngineAssumption, noop = << >>
  PROVE  NoOpInv
<1>1. Len(noop) = 0 /\ DOMAIN noop = {} /\ << >> \in Seq({noop[n] : n \in DOMAIN noop})
  BY EmptySeq
<1>. QED
  BY <1>1 DEF NoOpInv, Remembered, EngineAssumption, IsInjective

-----------------------------------------------------------------------------
(* The steps.                                                              *)

LEMMA FallbackIsSound ==
  ASSUME NEW S, NEW T, S \subseteq T, history \in Seq(Sound(S)), Fallback
  PROVE  history' \in Seq(Sound(T)) /\ Len(history') <= Len(history)
<1>1. Sound(S) \subseteq Sound(T) /\ Other("user") \in Sound(T)
  BY SoundGrows, SaidIsSound
<1>2. history \in Seq(Sound(T)) /\ Len(history) \in Nat
  BY <1>1, SeqMonotonic, LenProperties
<1>3. CASE history' = history
  BY <1>2, <1>3
<1>4. CASE history' \in Summaries(history)
  BY <1>1, <1>2, <1>4, SummaryIsSound
<1>. QED
  BY <1>3, <1>4 DEF Fallback

LEMMA Initially ==
  ASSUME EngineAssumption, Init
  PROVE  IInv
<1>1. HistoryInv
  BY OpeningIsSound DEF Init, HistoryInv, EngineAssumption
<1>2. NoOpInv
  BY NothingRemembered DEF Init
<1>. QED
  BY <1>1, <1>2 DEF IInv

LEMMA SayStep ==
  ASSUME EngineAssumption, IInv, NEW m \in Sound(store), Say(m)
  PROVE  IInv'
<1>1. /\ history' \in Seq(Sound(store)) /\ Len(history') = Len(history) + 1
      /\ Len(history) \in Nat
  BY AppendProperties, LenProperties DEF Say, IInv, HistoryInv
<1>2. said \in 0..MaxMessages /\ MaxMessages \in Nat /\ said < MaxMessages
      /\ said' = said + 1 /\ store' = store /\ noop' = noop /\ Len(history) <= said + 2
  BY DEF Say, IInv, HistoryInv, EngineAssumption
<1>3. HistoryInv'
  BY <1>1, <1>2 DEF HistoryInv
<1>4. NoOpInv'
  BY <1>2 DEF IInv, NoOpInv
<1>. QED
  BY <1>3, <1>4 DEF IInv

LEMMA CompressStep ==
  ASSUME EngineAssumption, IInv, Compress
  PROVE  IInv'
<1>. DEFINE ages == Ages(history)
<1>1. PICK answers \in [Requests(history, ages) -> {"marker", "no_marker"}] :
        /\ store' = store \cup {Marker(history, I) :
                      I \in {J \in DOMAIN answers : answers[J] = "marker"}}
        /\ \/ /\ history' = Transformed(history, Used(answers), ages)
              /\ UNCHANGED noop
           \/ noop' = Remember(history) /\ Fallback
        /\ UNCHANGED said /\ \A n \in DOMAIN noop : noop[n] # history
  BY Zenon DEF Compress
<1>2. store \subseteq store' /\ \A I \in Used(answers) : Marker(history, I) \in store'
  BY <1>1 DEF Used
<1>3. /\ history \in Seq(Sound(store)) /\ Len(history) <= said + 2 /\ said' = said
      /\ said \in 0..MaxMessages /\ MaxMessages \in Nat /\ NoOpInv
      /\ Len(history) \in Nat
  BY <1>1, LenProperties DEF IInv, HistoryInv, EngineAssumption
<1>4. CASE history' = Transformed(history, Used(answers), ages) /\ UNCHANGED noop
  <2>1. history' \in Seq(Sound(store')) /\ Len(history') = Len(history)
    BY <1>2, <1>3, <1>4, TransformedIsSound
  <2>2. NoOpInv'
    BY <1>3, <1>4 DEF NoOpInv, Remembered
  <2>. QED
    BY <1>3, <2>1, <2>2 DEF IInv, HistoryInv
<1>5. CASE noop' = Remember(history) /\ Fallback
  <2>1. history' \in Seq(Sound(store')) /\ Len(history') <= Len(history)
    BY <1>2, <1>3, <1>5, FallbackIsSound
  <2>2. NoOpInv'
    BY <1>1, <1>3, <1>5, RememberedOnce
  <2>3. Len(history') \in Nat
    BY <2>1, LenProperties
  <2>. QED
    BY <1>3, <2>1, <2>2, <2>3 DEF IInv, HistoryInv
<1>. QED
  BY <1>1, <1>4, <1>5

LEMMA EveryStep ==
  ASSUME EngineAssumption, IInv, [Next]_vars
  PROVE  IInv'
<1>1. CASE UserSays
  BY <1>1, SayStep, SaidIsSound DEF UserSays
<1>2. CASE \E s \in Sources : ToolAnswers(s)
  BY <1>2, SayStep, SaidIsSound DEF ToolAnswers
<1>3. CASE Reset
  <2>1. history' \in Seq(Sound(store')) /\ Len(history') <= 2 /\ said' = 0
    BY <1>3, OpeningIsSound DEF Reset
  <2>2. NoOpInv'
    <3>1. noop' = << >>
      BY <1>3 DEF Reset
    <3>2. Len(noop') = 0 /\ DOMAIN noop' = {} /\ << >> \in Seq({noop'[n] : n \in DOMAIN noop'})
      BY <3>1, EmptySeq
    <3>. QED
      BY <3>1, <3>2 DEF NoOpInv, Remembered, EngineAssumption, IsInjective
  <2>. QED
    BY <2>1, <2>2 DEF IInv, HistoryInv, EngineAssumption
<1>4. CASE UpdateModel
  <2>1. HistoryInv' /\ noop' = << >>
    BY <1>4 DEF UpdateModel, IInv, HistoryInv
  <2>2. Len(noop') = 0 /\ DOMAIN noop' = {} /\ << >> \in Seq({noop'[n] : n \in DOMAIN noop'})
    BY <2>1, EmptySeq
  <2>. QED
    BY <2>1, <2>2 DEF IInv, NoOpInv, Remembered, EngineAssumption, IsInjective
<1>5. CASE KnownNoOp
  <2>1. Fallback /\ UNCHANGED <<noop, store, said>>
    BY <1>5 DEF KnownNoOp
  <2>2. history' \in Seq(Sound(store')) /\ Len(history') <= Len(history)
    BY <2>1, FallbackIsSound DEF IInv, HistoryInv
  <2>3. Len(history') \in Nat /\ Len(history) \in Nat /\ MaxMessages \in Nat
    BY <2>2, LenProperties DEF IInv, HistoryInv, EngineAssumption
  <2>. QED
    BY <2>1, <2>2, <2>3 DEF IInv, HistoryInv, NoOpInv, Remembered
<1>6. CASE Compress
  BY <1>6, CompressStep
<1>7. CASE UNCHANGED vars
  BY <1>7 DEF vars, IInv, HistoryInv, NoOpInv, Remembered
<1>. QED
  BY <1>1, <1>2, <1>3, <1>4, <1>5, <1>6, <1>7 DEF Next
-----------------------------------------------------------------------------
(* The theorems.                                                           *)

LEMMA MessagesInHistory ==
  ASSUME IInv, NEW i \in DOMAIN history
  PROVE  history[i] \in Sound(store)
<1>1. history \in Seq(Sound(store))
  BY DEF IInv, HistoryInv
<1>2. DOMAIN history = 1..Len(history)
  BY <1>1, LenProperties
<1>. QED
  BY <1>1, <1>2, ElementOfSeq

LEMMA Types ==
  ASSUME IInv
  PROVE  TypeOK
<1>1. ASSUME NEW i \in DOMAIN history
      PROVE  LET m == history[i] IN
             /\ m.role \in Roles /\ m.form \in Forms \cup {"exact"}
             /\ m.role = "tool" => m.src \in Sources
             /\ m.form = "exact" <=> m.layers = << >>
             /\ m.role # "tool" => m.form = "exact"
  BY MessagesInHistory DEF Sound, Messages, Shape
<1>. QED
  BY <1>1 DEF IInv, HistoryInv, NoOpInv, Remembered, TypeOK

LEMMA LayersLeadBack ==
  ASSUME IInv
  PROVE  Recoverable
<1>. SUFFICES ASSUME NEW i \in DOMAIN history, NEW k \in DOMAIN history[i].layers
              PROVE  LET m == history[i] IN
                     /\ m.layers[k] \in store
                     /\ [src |-> m.src, layers |-> SubSeq(m.layers, 1, k - 1)] \in m.layers[k]
  BY DEF Recoverable
<1>1. history[i].layers \in Seq(store) /\ LeadsBack(history[i])
  BY MessagesInHistory DEF Sound, Messages
<1>2. k \in 1..Len(history[i].layers)
  BY <1>1, LenProperties
<1>. QED
  BY <1>1, <1>2, ElementOfSeq DEF LeadsBack

\* The histories that the engine remembers as of no use (_remember_no_op) stay
\* different and within their bound, and each message has the form that
\* transform_history gave it.
THEOREM TypesHold == Spec => []TypeOK
<1>1. Init => IInv
  BY EngineAssumption, Initially
<1>2. IInv /\ [Next]_vars => IInv'
  BY EngineAssumption, EveryStep
<1>3. IInv => TypeOK
  BY Types
<1>. QED
  BY <1>1, <1>2, <1>3, PTL DEF Spec

\* However often a result is put away, alone or with others, and whatever the
\* host's engine summarises between two compactions (compress, lifecycle.py),
\* its markers lead back to its source, one after the other.
THEOREM AlwaysRecoverable == Spec => []Recoverable
<1>1. Init => IInv
  BY EngineAssumption, Initially
<1>2. IInv /\ [Next]_vars => IInv'
  BY EngineAssumption, EveryStep
<1>3. IInv => Recoverable
  BY LayersLeadBack
<1>. QED
  BY <1>1, <1>2, <1>3, PTL DEF Spec

-----------------------------------------------------------------------------
(* Over repeated compactions only candidates are put away, and what is     *)
(* "aged" only while it is not hot.                                        *)

\* The messages before i that are not the system's, and the candidates after.
Plain(h, i) == {j \in 1..(i - 1) : h[j].role # "system"}
After(h, i) == {j \in Candidates(h) : j > i}
KeptAt(h, i) ==
  h[i].layers # << >> =>
    /\ i \in Candidates(h) /\ Kind[h[i].src] # "never"
    /\ Kind[h[i].src] = "aged" => Cardinality(After(h, i)) >= Hot
Kept(h) == \A i \in 1..Len(h) : KeptAt(h, i)

LEMMA PlainIsFinite ==
  ASSUME NEW h, NEW i \in Int
  PROVE  IsFiniteSet(Plain(h, i)) /\ Cardinality(Plain(h, i)) \in Nat
<1>1. 1 \in Int /\ i - 1 \in Int
  OBVIOUS
<1>2. IsFiniteSet(1..(i - 1))
  BY <1>1, FS_Interval
<1>3. Plain(h, i) \subseteq 1..(i - 1)
  BY DEF Plain
<1>. QED
  BY <1>2, <1>3, FS_Subset, FS_CardinalityType

LEMMA SamePlain ==
  ASSUME NEW h, NEW g, NEW i \in Int, \A j \in 1..(i - 1) : g[j].role = h[j].role
  PROVE  Plain(g, i) = Plain(h, i)
BY DEF Plain

LEMMA FreeIs ==
  ASSUME EngineAssumption, NEW A, NEW h \in Seq(A), NEW i \in 1..Len(h)
  PROVE  i \notin Protected(h) <=>
           /\ h[i].role # "system" /\ Cardinality(Plain(h, i)) >= ProtectFirst
           /\ i <= Len(h) - ProtectLast
<1>1. DOMAIN h = 1..Len(h) /\ Len(h) \in Nat /\ ProtectFirst \in Nat /\ ProtectLast \in Nat
  BY LenProperties DEF EngineAssumption
<1>2. Cardinality(Plain(h, i)) \in Nat
  BY PlainIsFinite
<1>. QED
  BY <1>1, <1>2 DEF Protected, Systems, Plain

LEMMA CandidateIs ==
  ASSUME EngineAssumption, NEW A, NEW h \in Seq(A), NEW i \in Int
  PROVE  i \in Candidates(h) <=>
           /\ i \in 1..Len(h) /\ h[i].role = "tool"
           /\ Cardinality(Plain(h, i)) >= ProtectFirst /\ i <= Len(h) - ProtectLast
<1>1. DOMAIN h = 1..Len(h)
  BY LenProperties
<1>2. CASE i \notin 1..Len(h)
  BY <1>1, <1>2 DEF Candidates
<1>3. CASE i \in 1..Len(h)
  BY <1>1, <1>3, FreeIs DEF Candidates
<1>. QED
  BY <1>2, <1>3

LEMMA AfterIsFinite ==
  ASSUME NEW A, NEW h \in Seq(A), NEW i \in Int
  PROVE  /\ IsFiniteSet(After(h, i)) /\ Cardinality(After(h, i)) \in Nat
         /\ After(h, i) \subseteq Candidates(h) /\ Candidates(h) \subseteq 1..Len(h)
<1>1. DOMAIN h = 1..Len(h) /\ Len(h) \in Nat
  BY LenProperties
<1>2. After(h, i) \subseteq Candidates(h) /\ Candidates(h) \subseteq 1..Len(h)
  BY <1>1 DEF After, Candidates
<1>3. IsFiniteSet(1..Len(h))
  BY <1>1, FS_Interval
<1>4. IsFiniteSet(After(h, i))
  BY <1>2, <1>3, FS_Subset
<1>. QED
  BY <1>2, <1>4, FS_CardinalityType

LEMMA CandidatesAre ==
  ASSUME NEW A, NEW h \in Seq(A), NEW i \in Int
  PROVE  /\ \A c \in Candidates(h) : c \in Int /\ c \in 1..Len(h)
         /\ \A c \in After(h, i) : c \in Candidates(h) /\ c \in Int /\ c > i
<1>1. DOMAIN h = 1..Len(h) /\ Len(h) \in Nat
  BY LenProperties
<1>2. \A c \in Candidates(h) : c \in Int /\ c \in 1..Len(h)
  BY <1>1 DEF Candidates
<1>. QED
  BY <1>2 DEF After

\* What is kept of a history is kept when its candidates move together.
LEMMA CandidatesMove ==
  ASSUME NEW A, NEW h \in Seq(A), NEW B, NEW g \in Seq(B),
         NEW i \in Int, NEW d \in Int,
         \A c \in After(h, i) : c - d \in Candidates(g)
  PROVE  Cardinality(After(g, i - d)) >= Cardinality(After(h, i))
<1>. DEFINE f == [c \in After(h, i) |-> c - d]
<1>1. /\ IsFiniteSet(After(g, i - d)) /\ Cardinality(After(g, i - d)) \in Nat
      /\ IsFiniteSet(After(h, i)) /\ Cardinality(After(h, i)) \in Nat
  <2>1. i - d \in Int
    OBVIOUS
  <2>2. IsFiniteSet(After(h, i)) /\ Cardinality(After(h, i)) \in Nat
    BY AfterIsFinite
  <2>3. IsFiniteSet(After(g, i - d)) /\ Cardinality(After(g, i - d)) \in Nat
    BY <2>1, AfterIsFinite
  <2>. QED
    BY <2>2, <2>3
<1>2. \A c \in After(h, i) : c \in Int /\ c > i
  BY CandidatesAre
<1>3. \A c \in After(h, i) : c - d \in After(g, i - d)
  BY <1>2 DEF After
<1>4. f \in Injection(After(h, i), After(g, i - d))
  BY <1>2, <1>3 DEF Injection, IsInjective
<1>. HIDE DEF f
<1>5. Cardinality(After(h, i)) <= Cardinality(After(g, i - d))
  BY <1>1, <1>4, FS_Injection
<1>. QED
  BY <1>1, <1>5

LEMMA NothingPutAway ==
  ASSUME NEW h, \A i \in 1..Len(h) : h[i].layers = << >>
  PROVE  Kept(h)
BY DEF Kept, KeptAt

LEMMA KeptMoves ==
  ASSUME NEW A, NEW h \in Seq(A), NEW B, NEW g \in Seq(B), EngineAssumption,
         NEW i \in 1..Len(h), KeptAt(h, i), NEW d \in Int, i - d \in 1..Len(g),
         g[i - d] = h[i],
         \A c \in Candidates(h) : c >= i => c - d \in Candidates(g)
  PROVE  KeptAt(g, i - d)
<1>1. CASE h[i].layers = << >>
  BY <1>1 DEF KeptAt
<1>2. CASE h[i].layers # << >>
  <2>1. i \in Candidates(h) /\ Kind[h[i].src] # "never"
    BY <1>2 DEF KeptAt
  <2>2. Len(h) \in Nat /\ i \in Int
    BY LenProperties
  <2>3. i - d \in Candidates(g)
    <3>1. i >= i
      BY <2>2
    <3>. QED
      BY <2>1, <3>1
  <2>4. \A c \in After(h, i) : c - d \in Candidates(g)
    <3>1. \A c \in After(h, i) : c \in Candidates(h) /\ c \in Int /\ c > i
      BY <2>2, CandidatesAre
    <3>. QED
      BY <2>2, <3>1
  <2>5. Cardinality(After(g, i - d)) >= Cardinality(After(h, i))
    BY <2>2, <2>4, CandidatesMove
  <2>6. /\ Cardinality(After(g, i - d)) \in Nat /\ Cardinality(After(h, i)) \in Nat
        /\ Hot \in Nat
    <3>1. i - d \in Int
      BY <2>2
    <3>. QED
      BY <2>2, <3>1, AfterIsFinite DEF EngineAssumption
  <2>7. Kind[h[i].src] = "aged" => Cardinality(After(h, i)) >= Hot
    BY <1>2 DEF KeptAt
  <2>8. Kind[g[i - d].src] = "aged" => Cardinality(After(g, i - d)) >= Hot
    BY <2>5, <2>6, <2>7
  <2>. QED
    BY <2>1, <2>3, <2>8 DEF KeptAt
<1>. QED
  BY <1>1, <1>2

LEMMA KeptWhenSaid ==
  ASSUME EngineAssumption, NEW A, NEW h \in Seq(A), NEW m \in A, m.layers = << >>,
         Kept(h)
  PROVE  Kept(Append(h, m))
<1>. DEFINE g == Append(h, m)
<1>1. /\ g \in Seq(A) /\ Len(g) = Len(h) + 1 /\ Len(h) \in Nat
      /\ \A i \in 1..Len(h) : g[i] = h[i]
      /\ g[Len(h) + 1] = m
  BY AppendProperties, LenProperties
<1>2. ProtectLast \in Nat
  BY DEF EngineAssumption
<1>. HIDE DEF g
<1>3. ASSUME NEW i \in Candidates(h)
      PROVE  i \in Candidates(g)
  <2>1. i \in 1..Len(h) /\ i \in Int
    BY <1>1, AfterIsFinite
  <2>2. h[i].role = "tool" /\ Cardinality(Plain(h, i)) >= ProtectFirst
        /\ i <= Len(h) - ProtectLast
    BY <2>1, CandidateIs
  <2>3. Plain(g, i) = Plain(h, i)
    <3>1. \A j \in 1..(i - 1) : g[j].role = h[j].role
      <4>1. \A j \in 1..(i - 1) : j \in 1..Len(h)
        BY <1>1, <2>1
      <4>. QED
        BY Zenon, <1>1, <4>1
    <3>. QED
      BY <2>1, <3>1, SamePlain
  <2>4. i \in 1..Len(g) /\ g[i].role = "tool" /\ i <= Len(g) - ProtectLast
    BY <1>1, <1>2, <2>1, <2>2
  <2>. QED
    BY <1>1, <2>1, <2>2, <2>3, <2>4, CandidateIs
<1>4. ASSUME NEW i \in 1..Len(g)
      PROVE  KeptAt(g, i)
  <2>1. CASE i = Len(h) + 1
    BY <1>1, <2>1 DEF KeptAt
  <2>2. CASE i # Len(h) + 1
    <3>1. i \in 1..Len(h) /\ i - 0 = i
      BY <1>1, <2>2
    <3>2. KeptAt(h, i)
      BY <3>1 DEF Kept
    <3>3. \A c \in Candidates(h) : c - 0 \in Candidates(g)
      <4>1. \A c \in Candidates(h) : c - 0 = c
        <5>1. \A c \in Candidates(h) : c \in Int
          BY <3>1, CandidatesAre
        <5>. QED
          BY <5>1
      <4>. QED
        BY <1>3, <4>1
    <3>4. KeptAt(g, i - 0)
      <4>1. g[i - 0] = h[i] /\ i - 0 \in 1..Len(g) /\ 0 \in Int
        BY <1>1, <3>1
      <4>. QED
        BY <1>1, <3>1, <3>2, <3>3, <4>1, KeptMoves
    <3>. QED
      BY <3>1, <3>4
  <2>. QED
    BY <2>1, <2>2
<1>5. Kept(g)
  BY <1>4 DEF Kept
<1>. QED
  BY <1>5 DEF g

\* What is asked of the provider was admitted at its age.
LEMMA RequestedIsAdmitted ==
  ASSUME EngineAssumption, NEW A, NEW h \in Seq(A),
         NEW I \in Requests(h, Ages(h)), NEW i \in I
  PROVE  /\ i \in Candidates(h) /\ Kind[h[i].src] # "never"
         /\ Kind[h[i].src] = "aged" => Cardinality(After(h, i)) >= Hot
<1>. DEFINE ages == Ages(h)
<1>1. DOMAIN ages = Candidates(h)
  BY DEF Ages
<1>2. i \in DOMAIN ages /\ Admitted(h[i], ages[i])
  BY Zenon DEF Requests
<1>3. ages[i] = Aged(Cardinality(After(h, i)))
  BY <1>1, <1>2 DEF Ages, After
<1>4. i \in Int /\ Hot \in Nat
  BY <1>1, <1>2, CandidatesAre DEF EngineAssumption
<1>5. Cardinality(After(h, i)) \in Nat
  BY <1>4, AfterIsFinite
<1>. HIDE DEF ages
<1>6. Kind[h[i].src] # "never" /\ (Kind[h[i].src] = "aged" => ages[i] # "hot")
  BY <1>2 DEF Admitted
<1>7. ages[i] # "hot" => Cardinality(After(h, i)) >= Hot
  BY <1>3, <1>4, <1>5 DEF Aged
<1>. QED
  BY <1>1, <1>2, <1>6, <1>7

LEMMA TransformedIsKept ==
  ASSUME EngineAssumption, NEW S, NEW h \in Seq(Sound(S)), Kept(h),
         NEW T, S \subseteq T,
         NEW answers \in [Requests(h, Ages(h)) -> {"marker", "no_marker"}],
         \A I \in Used(answers) : Marker(h, I) \in T
  PROVE  Kept(Transformed(h, Used(answers), Ages(h)))
<1>. DEFINE used == Used(answers)
            g == Transformed(h, used, Ages(h))
<1>1. DOMAIN h = 1..Len(h) /\ Len(h) \in Nat
  BY LenProperties
<1>2. g \in Seq(Sound(T)) /\ Len(g) = Len(h)
  BY TransformedIsSound
<1>3. ASSUME NEW I \in used, NEW i \in I
      PROVE  I \in Requests(h, Ages(h))
  BY <1>3 DEF Used
<1>4. ASSUME NEW I \in used, NEW i \in I
      PROVE  /\ i \in Candidates(h) /\ Kind[h[i].src] # "never"
             /\ Kind[h[i].src] = "aged" => Cardinality(After(h, i)) >= Hot
  BY <1>3, RequestedIsAdmitted
<1>5. ASSUME NEW i \in 1..Len(h)
      PROVE  \/ g[i] = h[i]
             \/ /\ g[i].role = h[i].role /\ g[i].src = h[i].src
                /\ i \in Candidates(h) /\ Kind[h[i].src] # "never"
                /\ Kind[h[i].src] = "aged" => Cardinality(After(h, i)) >= Hot
  <2>1. CASE \E I \in used : i \in I
    <3>. DEFINE I == CHOOSE I \in used : i \in I
    <3>1. I \in used /\ i \in I
      BY <2>1
    <3>2. g[i] = Replaced(h, I, i, Ages(h)[i])
      BY <1>1, <2>1 DEF Transformed
    <3>. HIDE DEF I
    <3>3. g[i].role = "tool" /\ g[i].src = h[i].src
      BY <3>2 DEF Replaced
    <3>4. h[i].role = "tool"
      BY <1>4, <3>1 DEF Candidates
    <3>. QED
      BY <1>4, <3>1, <3>3, <3>4
  <2>2. CASE ~\E I \in used : i \in I
    BY <1>1, <2>2 DEF Transformed
  <2>. QED
    BY <2>1, <2>2
<1>. HIDE DEF g
<1>6. \A i \in 1..Len(h) : g[i].role = h[i].role /\ g[i].src = h[i].src
  BY <1>5
<1>7. Candidates(g) = Candidates(h)
  <2>1. ASSUME NEW i \in 1..Len(h)
        PROVE  i \in Candidates(g) <=> i \in Candidates(h)
    <3>1. Plain(g, i) = Plain(h, i)
      <4>1. \A j \in 1..(i - 1) : g[j].role = h[j].role
        BY <1>1, <1>6
      <4>. QED
        BY <1>1, <4>1, SamePlain
    <3>2. i \in Int
      BY <1>1
    <3>3. /\ i \in Candidates(g) <=>
              /\ i \in 1..Len(g) /\ g[i].role = "tool"
              /\ Cardinality(Plain(g, i)) >= ProtectFirst /\ i <= Len(g) - ProtectLast
          /\ i \in Candidates(h) <=>
              /\ i \in 1..Len(h) /\ h[i].role = "tool"
              /\ Cardinality(Plain(h, i)) >= ProtectFirst /\ i <= Len(h) - ProtectLast
      BY Zenon, <1>2, <3>2, CandidateIs
    <3>4. g[i].role = h[i].role
      BY <1>6
    <3>. QED
      BY Zenon, <1>2, <3>1, <3>3, <3>4
  <2>2. Candidates(g) \subseteq 1..Len(h) /\ Candidates(h) \subseteq 1..Len(h)
    <3>1. 0 \in Int
      OBVIOUS
    <3>. QED
      BY <1>2, <3>1, AfterIsFinite
  <2>. QED
    BY <2>1, <2>2
<1>8. \A i \in 1..Len(h) : After(g, i) = After(h, i)
  BY <1>7 DEF After
<1>9. ASSUME NEW i \in 1..Len(g)
      PROVE  KeptAt(g, i)
  <2>1. i \in 1..Len(h) /\ KeptAt(h, i)
    BY <1>2 DEF Kept
  <2>2. CASE g[i] = h[i]
    BY <1>7, <1>8, <2>1, <2>2 DEF KeptAt
  <2>3. CASE g[i] # h[i]
    BY <1>5, <1>7, <1>8, <2>1, <2>3 DEF KeptAt
  <2>. QED
    BY <2>2, <2>3
<1>10. Kept(g)
  BY <1>9 DEF Kept
<1>. QED
  BY <1>10 DEF g

\* A summary u stands for the messages from i to j.
Short(h, i, u, j) == SubSeq(h, 1, i - 1) \o <<u>> \o SubSeq(h, j + 1, Len(h))
Shortens(g, h, i, u, j) ==
  /\ Len(g) = Len(h) - (j - i) /\ g[i] = u
  /\ \A k \in 1..(i - 1) : g[k] = h[k]
  /\ \A k \in (i + 1)..Len(g) : g[k] = h[k + (j - i)]

LEMMA ShortIs ==
  ASSUME NEW A, NEW u \in A, NEW h \in Seq(A),
         NEW i \in 1..Len(h), NEW j \in i..Len(h)
  PROVE  Shortens(Short(h, i, u, j), h, i, u, j)
<1>. DEFINE b == SubSeq(h, 1, i - 1)
            e == SubSeq(h, j + 1, Len(h))
            o == <<u>>
            a == b \o o
            g == a \o e
<1>1. /\ Len(h) \in Nat /\ i \in Int /\ j \in Int /\ i >= 1 /\ i <= j /\ j <= Len(h)
      /\ \A k \in 1..Len(h) : h[k] \in A
  BY LenProperties, ElementOfSeq
<1>2. b \in Seq(A) /\ Len(b) = i - 1 /\ \A k \in 1..(i - 1) : b[k] = h[k]
  <2>1. \A k \in 1..(i - 1) : h[k] \in A
    BY <1>1
  <2>. QED
    BY <1>1, <2>1, SubSeqProperties
<1>3. /\ e \in Seq(A) /\ Len(e) = Len(h) - j
      /\ \A k \in 1..(Len(h) - j) : e[k] = h[j + k]
  <2>1. \A k \in (j + 1)..Len(h) : h[k] \in A
    BY <1>1
  <2>2. /\ e \in Seq(A)
        /\ Len(e) = IF j + 1 <= Len(h) THEN Len(h) - (j + 1) + 1 ELSE 0
        /\ \A k \in 1..(Len(h) - (j + 1) + 1) : e[k] = h[(j + 1) + k - 1]
    BY <1>1, <2>1, SubSeqProperties
  <2>. HIDE DEF e
  <2>3. \A k \in 1..(Len(h) - j) : (j + 1) + k - 1 = j + k
    BY <1>1
  <2>4. Len(e) = Len(h) - j
    BY <1>1, <2>2
  <2>5. \A k \in 1..(Len(h) - j) : e[k] = h[j + k]
    <3>1. 1..(Len(h) - j) = 1..(Len(h) - (j + 1) + 1)
      BY <1>1
    <3>. QED
      BY <2>2, <2>3, <3>1
  <2>. QED
    BY <2>2, <2>4, <2>5
<1>4. o \in Seq(A) /\ Len(o) = 1 /\ o[1] = u
  OBVIOUS
<1>. HIDE DEF b, e, o
<1>5. /\ a \in Seq(A) /\ Len(a) = i
      /\ \A k \in 1..(i - 1) : a[k] = b[k]
      /\ a[i] = u
  <2>1. /\ a \in Seq(A) /\ Len(a) = Len(b) + Len(o)
        /\ \A k \in 1..(Len(b) + Len(o)) :
             a[k] = IF k <= Len(b) THEN b[k] ELSE o[k - Len(b)]
    BY <1>2, <1>4, ConcatProperties
  <2>. HIDE DEF a
  <2>2. i \in 1..(Len(b) + Len(o)) /\ ~(i <= Len(b)) /\ i - Len(b) = 1
    BY <1>1, <1>2, <1>4
  <2>3. \A k \in 1..(i - 1) : k \in 1..(Len(b) + Len(o)) /\ k <= Len(b)
    BY <1>1, <1>2, <1>4
  <2>4. Len(a) = i
    BY <1>1, <1>2, <1>4, <2>1
  <2>. QED
    BY <1>4, <2>1, <2>2, <2>3, <2>4
<1>. HIDE DEF a
<1>6. /\ Len(g) = i + (Len(h) - j)
      /\ \A k \in 1..i : g[k] = a[k]
      /\ \A k \in (i + 1)..Len(g) : g[k] = e[k - i]
  <2>1. /\ Len(g) = Len(a) + Len(e)
        /\ \A k \in 1..(Len(a) + Len(e)) :
             g[k] = IF k <= Len(a) THEN a[k] ELSE e[k - Len(a)]
    BY <1>3, <1>5, ConcatProperties
  <2>. HIDE DEF g
  <2>2. Len(g) = i + (Len(h) - j)
    BY <1>3, <1>5, <2>1
  <2>3. \A k \in 1..i : k \in 1..(Len(a) + Len(e)) /\ k <= Len(a)
    BY <1>1, <1>3, <1>5
  <2>4. \A k \in (i + 1)..Len(g) : k \in 1..(Len(a) + Len(e)) /\ ~(k <= Len(a))
    BY <1>1, <1>3, <1>5, <2>2
  <2>. QED
    BY <1>5, <2>1, <2>2, <2>3, <2>4
<1>. HIDE DEF g
<1>7. ASSUME NEW k \in (i + 1)..Len(g)
      PROVE  g[k] = h[k + (j - i)]
  <2>1. k - i \in 1..(Len(h) - j) /\ j + (k - i) = k + (j - i)
    BY <1>1, <1>6
  <2>2. e[k - i] = h[j + (k - i)]
    BY <1>3, <2>1
  <2>. QED
    BY <1>6, <2>1, <2>2
<1>8. \A k \in 1..(i - 1) : g[k] = h[k]
  <2>1. \A k \in 1..(i - 1) : k \in 1..i
    BY <1>1
  <2>. QED
    BY <1>2, <1>5, <1>6, <2>1
<1>9. g[i] = u /\ Len(g) = Len(h) - (j - i)
  <2>1. i \in 1..i
    BY <1>1
  <2>. QED
    BY <1>1, <1>5, <1>6, <2>1
<1>10. g = Short(h, i, u, j)
  BY DEF g, a, b, e, o, Short
<1>11. Shortens(g, h, i, u, j)
  BY Zenon, <1>7, <1>8, <1>9 DEF Shortens
<1>. QED
  BY Zenon, <1>10, <1>11

\* A summary takes the place of messages before all that was put away.
LEMMA SummaryIsKept ==
  ASSUME EngineAssumption, NEW S, NEW h \in Seq(Sound(S)), Kept(h),
         NEW g \in Summaries(h)
  PROVE  Kept(g)
<1>. DEFINE free == DOMAIN h \ Protected(h)
            Before(i) == SubSeq(h, 1, i - 1)
            Behind(j) == SubSeq(h, j + 1, Len(h))
<1>1. PICK i \in free, j \in free :
        /\ \A k \in free : i <= k
        /\ g = Before(i) \o <<Other("user")>> \o Behind(j)
  BY Zenon DEF Summaries
<1>2. /\ DOMAIN h = 1..Len(h) /\ Len(h) \in Nat /\ i \in 1..Len(h) /\ j \in 1..Len(h)
      /\ i <= j /\ i \in Int /\ j \in Int /\ ProtectLast \in Nat /\ ProtectFirst \in Nat
  <2>1. DOMAIN h = 1..Len(h) /\ Len(h) \in Nat
    BY LenProperties
  <2>2. ProtectLast \in Nat /\ ProtectFirst \in Nat
    BY DEF EngineAssumption
  <2>3. i \in 1..Len(h) /\ j \in 1..Len(h) /\ i <= j
    BY <1>1, <2>1
  <2>. QED
    BY <2>1, <2>2, <2>3
<1>3. g \in Seq(Sound(S))
  BY SaidIsSound, SummaryIsSound
<1>. DEFINE d == j - i
<1>4. /\ Len(g) = Len(h) - d
      /\ \A k \in 1..(i - 1) : g[k] = h[k]
      /\ g[i] = Other("user")
      /\ \A k \in (i + 1)..Len(g) : g[k] = h[k + d]
  <2>1. Other("user") \in Sound(S) /\ j \in i..Len(h)
    BY <1>2, SaidIsSound
  <2>2. g = Short(h, i, Other("user"), j)
    BY <1>1 DEF Short
  <2>. DEFINE q == Short(h, i, Other("user"), j)
  <2>3. Shortens(q, h, i, Other("user"), j)
    BY Zenon, <1>2, <2>1, ShortIs
  <2>4. Shortens(g, h, i, Other("user"), j)
    BY Zenon, <2>2, <2>3
  <2>. QED
    BY Zenon, <2>4 DEF Shortens
<1>5. d \in Nat /\ Len(g) \in Nat /\ i <= Len(g) /\ Len(g) = Len(h) - d
  BY <1>2, <1>4
<1>10. 1 <= i /\ i <= j /\ j <= Len(h) /\ i \in Int /\ j \in Int /\ Len(h) \in Int
  BY <1>2
<1>. HIDE DEF d
\* The messages before the summary are enough to protect the head.
<1>6. ASSUME NEW c \in Candidates(h), c > j
      PROVE  c - d \in Candidates(g)
  <2>1. c \in 1..Len(h) /\ c \in Int
    BY <1>2, CandidatesAre
  <2>2. h[c].role = "tool" /\ c <= Len(h) - ProtectLast
    BY <2>1, CandidateIs
  <2>3. c - d \in (i + 1)..Len(g) /\ c - d \in 1..Len(g) /\ (c - d) + d = c
    <3>1. d = j - i /\ c <= Len(h) /\ c > j
      BY <1>6, <2>1 DEF d
    <3>. QED
      BY <1>5, <1>10, <2>1, <3>1
  <2>4. g[c - d].role = "tool"
    <3>1. g[c - d] = h[(c - d) + d]
      BY Zenon, <1>4, <2>3
    <3>2. (c - d) + d = c
      BY Zenon, <2>3
    <3>. QED
      BY Zenon, <2>2, <3>1, <3>2
  <2>5. c - d <= Len(g) - ProtectLast
    <3>1. ProtectLast \in Int /\ Len(h) \in Int /\ Len(g) \in Int /\ d \in Int
      BY <1>2, <1>5
    <3>2. c <= Len(h) - ProtectLast /\ Len(g) = Len(h) - d
      BY Zenon, <1>5, <2>2
    <3>. QED
      BY <2>1, <3>1, <3>2
  <2>6. Cardinality(Plain(h, i)) >= ProtectFirst
    BY <1>1, <1>2, FreeIs
  <2>7. Plain(h, i) \subseteq Plain(g, c - d)
    <3>1. \A k \in 1..(i - 1) : g[k].role = h[k].role
      BY Zenon, <1>4
    <3>2. i \in Int /\ Len(g) \in Int /\ d \in Int
      BY <1>5, <1>10
    <3>3. c - d \in Int /\ i + 1 <= c - d
      BY <2>1, <2>3, <3>2
    <3>. DEFINE e == c - d
    <3>4. \A k \in 1..(i - 1) : k \in 1..(e - 1)
      <4>. HIDE DEF e
      <4>1. e \in Int /\ i + 1 <= e
        BY <3>3 DEF e
      <4>. QED
        BY <3>2, <4>1
    <3>. QED
      BY <3>1, <3>4 DEF Plain
  <2>8. c - d \in Int
    BY <1>5, <2>1
  <2>9. Cardinality(Plain(h, i)) <= Cardinality(Plain(g, c - d))
    BY <2>7, <2>8, PlainIsFinite, FS_Subset
  <2>10. Cardinality(Plain(h, i)) \in Nat /\ Cardinality(Plain(g, c - d)) \in Nat
    BY <1>2, <2>8, PlainIsFinite
  <2>11. Cardinality(Plain(g, c - d)) >= ProtectFirst
    BY <1>2, <2>6, <2>9, <2>10
  <2>. QED
    BY <1>3, <2>3, <2>4, <2>5, <2>8, <2>11, CandidateIs
<1>7. ASSUME NEW k \in 1..Len(g)
      PROVE  KeptAt(g, k)
  <2>1. CASE k < i
    <3>1. k \in 1..(i - 1) /\ k \in 1..Len(h)
      BY <1>5, <1>10, <2>1
    <3>3. g[k] = h[k]
      BY Zenon, <1>4, <3>1
    <3>4. ~(i <= k)
      BY <1>10, <2>1, <3>1
    <3>2. k \notin Candidates(h)
      <4>1. k \notin free
        BY Zenon, <1>1, <3>4
      <4>. QED
        BY <1>2, <3>1, <4>1 DEF Candidates
    <3>. QED
      BY <3>1, <3>2, <3>3 DEF Kept, KeptAt
  <2>2. CASE k = i
    BY <1>4, <2>2 DEF KeptAt, Other
  <2>3. CASE k > i
    <3>1. /\ k \in (i + 1)..Len(g) /\ k + d \in 1..Len(h) /\ (k + d) - d = k
          /\ k + d > j
      <4>1. k \in Int /\ d = j - i /\ k <= Len(g)
        BY <1>5 DEF d
      <4>. QED
        BY <1>5, <1>10, <2>3, <4>1
    <3>2. KeptAt(h, k + d) /\ g[k] = h[k + d] /\ d \in Int
      <4>1. g[k] = h[k + d]
        BY Zenon, <1>4, <3>1
      <4>2. KeptAt(h, k + d)
        BY Zenon, <3>1 DEF Kept
      <4>. QED
        BY <1>5, <4>1, <4>2
    <3>3. \A c \in Candidates(h) : c >= k + d => c - d \in Candidates(g)
      <4>. SUFFICES ASSUME NEW c \in Candidates(h), c >= k + d
                    PROVE  c > j
        BY <1>6
      <4>1. c \in Int
        BY <1>2, CandidatesAre
      <4>. QED
        BY <1>2, <1>5, <3>1, <4>1
    <3>4. KeptAt(g, (k + d) - d)
      <4>1. (k + d) - d \in 1..Len(g) /\ g[(k + d) - d] = h[k + d]
        BY <3>1, <3>2
      <4>. QED
        BY <1>3, <3>1, <3>2, <3>3, <4>1, KeptMoves
    <3>. QED
      BY <3>1, <3>4
  <2>. QED
    BY <1>2, <1>5, <2>1, <2>2, <2>3
<1>. QED
  BY <1>7 DEF Kept

-----------------------------------------------------------------------------
(* The steps keep what is exact.                                           *)

KInv == IInv /\ Kept(history)

LEMMA OpeningIsKept ==
  ASSUME NEW h \in Openings
  PROVE  Kept(h)
<1>1. CASE h = <<Other("user")>>
  <2>1. Len(h) = 1 /\ h[1] = Other("user")
    BY <1>1
  <2>2. \A i \in 1..Len(h) : h[i].layers = << >>
    BY <2>1 DEF Other
  <2>. QED
    BY <2>2, NothingPutAway
<1>2. CASE h = <<Other("system"), Other("user")>>
  <2>1. Len(h) = 2 /\ h[1] = Other("system") /\ h[2] = Other("user")
    BY <1>2
  <2>2. \A i \in 1..Len(h) : h[i].layers = << >>
    BY <2>1 DEF Other
  <2>. QED
    BY <2>2, NothingPutAway
<1>. QED
  BY <1>1, <1>2 DEF Openings

LEMMA SayKeeps ==
  ASSUME EngineAssumption, KInv, NEW m \in Sound(store), m.layers = << >>, Say(m)
  PROVE  Kept(history')
<1>1. history \in Seq(Sound(store)) /\ Kept(history) /\ history' = Append(history, m)
  BY DEF Say, KInv, IInv, HistoryInv
<1>2. Kept(Append(history, m))
  BY <1>1, KeptWhenSaid
<1>. QED
  BY Zenon, <1>1, <1>2

LEMMA FallbackKeeps ==
  ASSUME EngineAssumption, KInv, Fallback
  PROVE  Kept(history')
<1>1. history \in Seq(Sound(store)) /\ Kept(history)
  BY DEF KInv, IInv, HistoryInv
<1>2. CASE history' = history
  BY <1>1, <1>2
<1>3. CASE history' \in Summaries(history)
  BY <1>1, <1>3, SummaryIsKept
<1>. QED
  BY <1>2, <1>3 DEF Fallback

LEMMA CompressKeeps ==
  ASSUME EngineAssumption, KInv, Compress
  PROVE  Kept(history')
<1>. DEFINE ages == Ages(history)
<1>1. PICK answers \in [Requests(history, ages) -> {"marker", "no_marker"}] :
        /\ store' = store \cup {Marker(history, I) :
                      I \in {J \in DOMAIN answers : answers[J] = "marker"}}
        /\ \/ history' = Transformed(history, Used(answers), ages)
           \/ Fallback
  BY Zenon DEF Compress
<1>2. store \subseteq store' /\ \A I \in Used(answers) : Marker(history, I) \in store'
  BY <1>1 DEF Used
<1>3. history \in Seq(Sound(store)) /\ Kept(history)
  BY DEF KInv, IInv, HistoryInv
<1>4. Kept(Transformed(history, Used(answers), ages))
  BY <1>2, <1>3, TransformedIsKept
<1>5. CASE history' = Transformed(history, Used(answers), ages)
  BY Zenon, <1>4, <1>5
<1>6. CASE Fallback
  BY <1>6, FallbackKeeps
<1>. QED
  BY <1>1, <1>5, <1>6

LEMMA KeptByEveryStep ==
  ASSUME EngineAssumption, KInv, [Next]_vars
  PROVE  KInv'
<1>1. CASE UserSays
  <2>1. Other("user").layers = << >>
    BY DEF Other
  <2>. QED
    BY <1>1, <2>1, SayKeeps, SaidIsSound, EveryStep DEF UserSays, KInv
<1>2. CASE \E s \in Sources : ToolAnswers(s)
  <2>1. PICK s \in Sources : Say(Result(s))
    BY <1>2 DEF ToolAnswers
  <2>2. Result(s).layers = << >> /\ Result(s) \in Sound(store)
    BY SaidIsSound DEF Result
  <2>3. Kept(history')
    BY <2>1, <2>2, SayKeeps
  <2>. QED
    BY <2>3, EveryStep DEF KInv
<1>3. CASE Reset
  BY <1>3, OpeningIsKept, EveryStep DEF Reset, KInv
<1>4. CASE UpdateModel \/ UNCHANGED vars
  <2>1. history' = history
    BY <1>4 DEF UpdateModel, vars
  <2>2. Kept(history')
    BY <2>1 DEF KInv
  <2>. QED
    BY <2>2, EveryStep DEF KInv
<1>5. CASE KnownNoOp
  BY <1>5, FallbackKeeps, EveryStep DEF KnownNoOp, KInv
<1>6. CASE Compress
  BY <1>6, CompressKeeps, EveryStep DEF KInv
<1>. QED
  BY <1>1, <1>2, <1>3, <1>4, <1>5, <1>6 DEF Next

LEMMA ExactIsKept ==
  ASSUME EngineAssumption, KInv
  PROVE  KeptExact
<1>1. /\ history \in Seq(Sound(store)) /\ Kept(history) /\ DOMAIN history = 1..Len(history)
      /\ Len(history) \in Nat
  BY LenProperties DEF KInv, IInv, HistoryInv
<1>. SUFFICES ASSUME NEW i \in DOMAIN history, history[i].layers # << >>
              PROVE  LET m == history[i] IN
                /\ m.role = "tool" /\ Kind[m.src] # "never" /\ i <= Len(history) - ProtectLast
                /\ Cardinality(Plain(history, i)) >= ProtectFirst
                /\ Kind[m.src] = "aged" => Cardinality(After(history, i)) >= Hot
  BY DEF KeptExact, Plain, After
<1>2. KeptAt(history, i) /\ i \in Int
  BY <1>1 DEF Kept
<1>3. /\ i \in Candidates(history) /\ Kind[history[i].src] # "never"
      /\ Kind[history[i].src] = "aged" => Cardinality(After(history, i)) >= Hot
  BY <1>2 DEF KeptAt
<1>4. /\ history[i].role = "tool" /\ Cardinality(Plain(history, i)) >= ProtectFirst
      /\ i <= Len(history) - ProtectLast
  BY <1>1, <1>2, <1>3, CandidateIs
<1>. QED
  BY <1>3, <1>4

\* Over any number of compactions and of summaries by the host's engine
\* (transform_history, compress) what is protected at either end is exact, and so
\* is what semantic_admission never admits, or admits only when it has aged.
THEOREM ExactStaysExact == Spec => []KeptExact
<1>1. Init => KInv
  BY EngineAssumption, Initially, OpeningIsKept DEF Init, KInv
<1>2. KInv /\ [Next]_vars => KInv'
  BY EngineAssumption, KeptByEveryStep
<1>3. KInv => KeptExact
  BY EngineAssumption, ExactIsKept
<1>. QED
  BY <1>1, <1>2, <1>3, PTL DEF Spec
=============================================================================
