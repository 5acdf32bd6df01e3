----------------------------- MODULE AlgorithmsProofs ------------------------------
(* Theorems about Algorithms, for every question that may be asked and every value *)
(* of the limits: what the answers of the parts that keep no state have to be.     *)
EXTENDS Algorithms, SequenceTheorems, FiniteSetTheorems, WellFoundedInduction, TLAPS

(* ------------------------------ induction over data ------------------------------ *)

(* Every set of naturals that has an element has a least one. *)
LEMMA LeastElement ==
  ASSUME NEW T, T \subseteq Nat, T # {}
  PROVE  \E x \in T : \A y \in T : ~(y < x)
<1> DEFINE R == StrictSubsetOrdering(Nat)
           Fin == FiniteSubsetsOf(Nat)
           Lower(n) == 1..n
           Intervals == {Lower(n) : n \in T}
<1>1. IsWellFoundedOn(R, Fin) BY FS_StrictSubsetOrderingWellFounded
<1>2. Intervals \subseteq Fin /\ Intervals # {}
  <2>1. \A n \in Nat : IsFiniteSet(1..n) BY FS_Interval
  <2>2. \A n \in Nat : 1..n \in Fin BY <2>1 DEF FiniteSubsetsOf
  <2> QED BY <2>2
<1>3. \A m, n \in Nat : m < n => <<1..m, 1..n>> \in R
  <2> SUFFICES ASSUME NEW m \in Nat, NEW n \in Nat, m < n PROVE <<1..m, 1..n>> \in R
    OBVIOUS
  <2>1. n \in 1..n /\ n \notin 1..m /\ 1..m \subseteq 1..n /\ 1..n \subseteq Nat
    OBVIOUS
  <2>2. 1..m # 1..n BY <2>1
  <2> QED BY <2>1, <2>2 DEF StrictSubsetOrdering
<1> HIDE DEF R, Fin
<1>4. PICK X \in Intervals : \A Y \in Intervals : ~(<<Y, X>> \in R)
  BY <1>1, <1>2, WFMin
<1>5. PICK x \in T : X = 1..x
  OBVIOUS
<1>6. \A y \in T : ~(<<1..y, 1..x>> \in R)
  BY <1>4, <1>5
<1> QED BY <1>3, <1>6

(* Induction, for the members of a set: first order, so that it can be cited. *)
LEMMA SetInduction ==
  ASSUME NEW S, 0 \in S, \A n \in Nat : n \in S => n + 1 \in S
  PROVE  \A n \in Nat : n \in S
<1> SUFFICES ASSUME Nat \ S # {} PROVE FALSE
  OBVIOUS
<1>1. PICK x \in Nat \ S : \A y \in Nat \ S : ~(y < x)
  BY LeastElement
<1>2. x # 0 /\ x - 1 \in Nat /\ x - 1 < x /\ (x - 1) + 1 = x
  BY <1>1
<1>3. x - 1 \in S BY <1>1, <1>2
<1> QED BY <1>1, <1>2, <1>3

LEMMA MinIsLeast ==
  ASSUME NEW T, T \subseteq Nat, T # {}
  PROVE  Min(T) \in T /\ \A y \in T : Min(T) <= y
<1>1. PICK x \in T : \A y \in T : ~(y < x)
  BY LeastElement
<1>2. \A y \in T : x <= y BY <1>1
<1> QED BY <1>2 DEF Min

LEMMA MaxIsGreatest ==
  ASSUME NEW N \in Nat, NEW T, T \subseteq 0..N, T # {}
  PROVE  Max(T) \in T /\ \A y \in T : Max(T) >= y
<1> DEFINE Over == {N - y : y \in T}
<1>1. Over \subseteq Nat /\ Over # {}
  <2>1. \A y \in T : N - y \in Nat OBVIOUS
  <2> QED BY <2>1
<1>2. PICK z \in Over : \A y \in Over : ~(y < z)
  BY <1>1, LeastElement
<1>3. PICK x \in T : z = N - x
  OBVIOUS
<1>4. \A y \in T : ~(N - y < N - x) BY <1>2, <1>3
<1>5. \A y \in T : x >= y BY <1>4
<1> QED BY <1>5 DEF Max

(* A function that is defined by going through the places 1..N, each of which makes *)
(* something of what the one before it left.  What is made stays in a set T.        *)
Passes(f, base, step, N, T) ==
  /\ f \in [0..N -> T] /\ f[0] = base
  /\ \A n \in 1..N : f[n - 1] \in T /\ f[n] = step[<<n, f[n - 1]>>]

LEMMA PassesExist ==
  ASSUME NEW T, NEW base \in T, NEW N \in Nat, NEW step \in [(1..N) \X T -> T]
  PROVE  \E f : Passes(f, base, step, N, T)
<1> DEFINE S == {k \in Nat : k <= N => \E f : Passes(f, base, step, k, T)}
<1>1. 0 \in S
  <2>1. Passes([n \in 0..0 |-> base], base, step, 0, T)
    BY DEF Passes
  <2> QED BY <2>1
<1>2. ASSUME NEW k \in Nat, k \in S PROVE k + 1 \in S
  <2> SUFFICES ASSUME k + 1 <= N PROVE \E f : Passes(f, base, step, k + 1, T)
    OBVIOUS
  <2>1. PICK f : Passes(f, base, step, k, T)
    BY <1>2
  <2> DEFINE last == step[<<k + 1, f[k]>>]
             g == [n \in 0..k + 1 |-> IF n = k + 1 THEN last ELSE f[n]]
  <2>2. f \in [0..k -> T] /\ f[k] \in T /\ k + 1 \in 1..N
    BY <2>1 DEF Passes
  <2>3. last \in T BY <2>2
  <2>4. g \in [0..k + 1 -> T] /\ g[0] = base
    BY <2>1, <2>2, <2>3 DEF Passes
  <2>5. \A n \in 1..k + 1 : g[n - 1] \in T /\ g[n - 1] = f[n - 1] /\ (n # k + 1 => n \in 1..k /\ g[n] = f[n])
    BY <2>2
  <2>6. g[k + 1] = last /\ (k + 1) - 1 = k OBVIOUS
  <2> HIDE DEF g
  <2>7. \A n \in 1..k + 1 : g[n] = step[<<n, g[n - 1]>>]
    BY <2>1, <2>5, <2>6 DEF Passes
  <2> QED BY <2>4, <2>5, <2>7 DEF Passes
<1> HIDE DEF S
<1>3. N \in S BY <1>1, <1>2, SetInduction
<1> QED BY <1>3 DEF S

(* ------------------------------ sequences in a row ------------------------------- *)

(* The recursive function of FlattenSeq, over the first n sequences. *)
IsFlat(f, seqs, n) ==
  f = [i \in 1..n |-> IF i = 1 THEN seqs[i] ELSE f[i - 1] \o seqs[i]]

LEMMA FlatExists ==
  ASSUME NEW seqs, NEW N \in Nat
  PROVE  \E f : IsFlat(f, seqs, N)
<1> DEFINE S == {n \in Nat : \E f : IsFlat(f, seqs, n)}
<1>1. 0 \in S
  <2>1. IsFlat([i \in 1..0 |-> seqs[i]], seqs, 0)
    BY DEF IsFlat
  <2> QED BY <2>1
<1>2. ASSUME NEW n \in Nat, n \in S PROVE n + 1 \in S
  <2>1. PICK f : IsFlat(f, seqs, n)
    BY <1>2
  <2> DEFINE last == IF n = 0 THEN seqs[1] ELSE f[n] \o seqs[n + 1]
             g == [i \in 1..n + 1 |-> IF i = n + 1 THEN last ELSE f[i]]
  <2>2. \A i \in 1..n + 1 : g[i] = IF i = 1 THEN seqs[i] ELSE g[i - 1] \o seqs[i]
    <3> SUFFICES ASSUME NEW i \in 1..n + 1
                 PROVE g[i] = IF i = 1 THEN seqs[i] ELSE g[i - 1] \o seqs[i]
      OBVIOUS
    <3>1. CASE i = n + 1
      BY <3>1
    <3>2. CASE i \in 1..n
      <4>1. g[i] = f[i] /\ (i # 1 => g[i - 1] = f[i - 1])
        BY <3>2
      <4>2. f[i] = IF i = 1 THEN seqs[i] ELSE f[i - 1] \o seqs[i]
        BY <2>1, <3>2 DEF IsFlat
      <4> QED BY <4>1, <4>2
    <3> QED BY <3>1, <3>2
  <2>3. g = [i \in 1..n + 1 |-> g[i]] OBVIOUS
  <2>4. IsFlat(g, seqs, n + 1)
    <3> HIDE DEF g
    <3> QED BY <2>2, <2>3 DEF IsFlat
  <2> QED BY <2>4
<1> HIDE DEF S
<1>3. N \in S BY <1>1, <1>2, SetInduction
<1> QED BY <1>3 DEF S

LEMMA FlatTyped ==
  ASSUME NEW T, NEW f, NEW seqs, NEW N \in Nat, IsFlat(f, seqs, N), \A i \in 1..N : seqs[i] \in Seq(T)
  PROVE  \A i \in 1..N : f[i] \in Seq(T)
<1> DEFINE S == {n \in Nat : n \in 1..N => f[n] \in Seq(T)}
<1>1. 0 \in S OBVIOUS
<1>2. ASSUME NEW n \in Nat, n \in S PROVE n + 1 \in S
  <2> SUFFICES ASSUME n + 1 \in 1..N PROVE f[n + 1] \in Seq(T)
    OBVIOUS
  <2>1. f[n + 1] = IF n + 1 = 1 THEN seqs[n + 1] ELSE f[(n + 1) - 1] \o seqs[n + 1]
    BY DEF IsFlat
  <2>2. CASE n = 0
    BY <2>1, <2>2
  <2>3. CASE n # 0
    <3>1. f[n] \in Seq(T) /\ seqs[n + 1] \in Seq(T) /\ (n + 1) - 1 = n
      BY <1>2, <2>3
    <3> QED BY <2>1, <2>3, <3>1, ConcatProperties
  <2> QED BY <2>2, <2>3
<1> HIDE DEF S
<1>3. \A n \in Nat : n \in S BY <1>1, <1>2, SetInduction
<1> QED BY <1>3 DEF S

LEMMA FlatSame ==
  ASSUME NEW f, NEW s, NEW N \in Nat, IsFlat(f, s, N),
         NEW g, NEW t, NEW M \in Nat, IsFlat(g, t, M), N <= M,
         \A i \in 1..N : s[i] = t[i]
  PROVE  \A i \in 1..N : f[i] = g[i]
<1> DEFINE S == {n \in Nat : n \in 1..N => f[n] = g[n]}
<1>1. 0 \in S OBVIOUS
<1>2. ASSUME NEW n \in Nat, n \in S PROVE n + 1 \in S
  <2> SUFFICES ASSUME n + 1 \in 1..N PROVE f[n + 1] = g[n + 1]
    OBVIOUS
  <2>1. f[n + 1] = IF n + 1 = 1 THEN s[n + 1] ELSE f[(n + 1) - 1] \o s[n + 1]
    BY DEF IsFlat
  <2>2. g[n + 1] = IF n + 1 = 1 THEN t[n + 1] ELSE g[(n + 1) - 1] \o t[n + 1]
    <3>1. n + 1 \in 1..M OBVIOUS
    <3> QED BY <3>1 DEF IsFlat
  <2>3. n # 0 => f[n] = g[n] BY <1>2
  <2>4. (n + 1) - 1 = n /\ s[n + 1] = t[n + 1] /\ (n + 1 = 1 <=> n = 0)
    OBVIOUS
  <2> QED BY <2>1, <2>2, <2>3, <2>4
<1> HIDE DEF S
<1>3. \A n \in Nat : n \in S BY <1>1, <1>2, SetInduction
<1> QED BY <1>3 DEF S

LEMMA FlattenIs ==
  ASSUME NEW seqs, Len(seqs) \in Nat, Len(seqs) # 0
  PROVE  \E f : IsFlat(f, seqs, Len(seqs)) /\ FlattenSeq(seqs) = f[Len(seqs)]
<1> DEFINE flatten == CHOOSE f : IsFlat(f, seqs, Len(seqs))
<1>1. IsFlat(flatten, seqs, Len(seqs)) BY FlatExists
<1>2. FlattenSeq(seqs) = flatten[Len(seqs)]
  BY DEF FlattenSeq, IsFlat
<1> QED BY <1>1, <1>2

(* One more sequence comes after all the others. *)
LEMMA FlattenAppend ==
  ASSUME NEW T, NEW seqs \in Seq(Seq(T)), NEW s \in Seq(T)
  PROVE  /\ FlattenSeq(seqs) \in Seq(T)
         /\ FlattenSeq(Append(seqs, s)) = FlattenSeq(seqs) \o s
<1> DEFINE n == Len(seqs)
           more == Append(seqs, s)
<1>1. /\ n \in Nat /\ n + 1 \in Nat /\ n + 1 # 0 /\ Len(more) = n + 1 /\ more[n + 1] = s
      /\ \A i \in 1..n : more[i] = seqs[i] /\ seqs[i] \in Seq(T)
  BY AppendProperties
<1>2. /\ n = 0 => FlattenSeq(seqs) = seqs /\ seqs = <<>>
      /\ n # 0 => \E f : IsFlat(f, seqs, n) /\ FlattenSeq(seqs) = f[n]
  <2>1. CASE n = 0
    BY <2>1 DEF FlattenSeq
  <2>2. CASE n # 0
    BY <1>1, <2>2, FlattenIs
  <2> QED BY <2>1, <2>2
<1> HIDE DEF n, more
<1>3. PICK g : IsFlat(g, more, n + 1) /\ FlattenSeq(more) = g[n + 1]
  BY <1>1, FlattenIs
<1>4. g[n + 1] = IF n + 1 = 1 THEN s ELSE g[(n + 1) - 1] \o s
  <2>1. n + 1 \in 1..n + 1 BY <1>1
  <2> QED BY <1>1, <1>3, <2>1 DEF IsFlat
<1>5. CASE n = 0
  <2>1. g[n + 1] = s /\ <<>> \o s = s /\ <<>> \in Seq(T)
    BY <1>4, <1>5, ConcatEmptySeq
  <2> QED BY <1>2, <1>3, <1>5, <2>1 DEF more
<1>6. CASE n # 0
  <2>1. PICK f : IsFlat(f, seqs, n) /\ FlattenSeq(seqs) = f[n]
    BY <1>2, <1>6
  <2>2. n \in 1..n /\ (n + 1) - 1 = n /\ n + 1 # 1 /\ n <= n + 1 /\ n + 1 \in Nat
    BY <1>1, <1>6
  <2>3. f[n] \in Seq(T) BY <1>1, <2>1, <2>2, FlatTyped
  <2>4. f[n] = g[n]
    <3>1. \A i \in 1..n : seqs[i] = more[i] BY <1>1
    <3>2. n \in Nat /\ n + 1 \in Nat /\ n <= n + 1 /\ IsFlat(g, more, n + 1)
      BY <1>1, <1>3, <2>2
    <3>3. \A i \in 1..n : f[i] = g[i] BY <2>1, <3>1, <3>2, FlatSame
    <3> QED BY <2>2, <3>3
  <2> QED BY <1>3, <1>4, <2>1, <2>2, <2>3, <2>4 DEF more
<1> QED BY <1>1, <1>5, <1>6

(* -------------------------------- layers of settings ----------------------------- *)

AreLayers(layers) ==
  /\ Len(layers) \in Nat /\ DOMAIN layers = 1..Len(layers)
  /\ \A i \in DOMAIN layers :
       layers[i] = [source |-> layers[i].source, values |-> layers[i].values]

LEMMA LayersOfStart ==
  ASSUME NEW environment, NEW files
  PROVE  AreLayers(build_layered_settings(environment, files))
<1> DEFINE Told(source) == Layer(source, read_agentrc_json(files[source]).values)
           All == {Layer("builtin", << >>), Layer("env", EnvironmentValues(environment)),
                   Told("user"), Told("project"), Told("policy")}
<1>1. ASSUME NEW source \in {"user", "project", "policy"}
      PROVE  FileLayer(files, source) \in Seq(All)
  <2>1. Told(source) \in All OBVIOUS
  <2>2. FileLayer(files, source) \in {<<>>, <<Told(source)>>}
    BY DEF FileLayer
  <2> HIDE DEF All
  <2>3. <<>> \in Seq(All) /\ \A told \in All : <<told>> \in Seq(All)
    OBVIOUS
  <2>4. <<Told(source)>> \in Seq(All) BY <2>1, <2>3
  <2> HIDE DEF Told
  <2> QED BY <2>2, <2>3, <2>4
<1>2. <<Layer("builtin", << >>), Layer("env", EnvironmentValues(environment))>> \in Seq(All)
  <2>1. Layer("builtin", << >>) \in All /\ Layer("env", EnvironmentValues(environment)) \in All
    OBVIOUS
  <2> HIDE DEF All
  <2> QED BY <2>1
<1>3. \A layer \in All : layer = [source |-> layer.source, values |-> layer.values]
  BY DEF Layer
<1> HIDE DEF All
<1>4. build_layered_settings(environment, files) \in Seq(All)
  <2>1. /\ FileLayer(files, "user") \in Seq(All) /\ FileLayer(files, "project") \in Seq(All)
        /\ FileLayer(files, "policy") \in Seq(All)
    BY <1>1
  <2> QED BY <1>2, <2>1, ConcatProperties DEF build_layered_settings
<1> QED BY <1>3, <1>4 DEF AreLayers

LEMMA StrippedLayers ==
  ASSUME NEW layers, AreLayers(layers), NEW i \in DOMAIN layers
  PROVE  /\ DOMAIN Stripped(layers) = DOMAIN layers
         /\ Stripped(layers)[i].source = layers[i].source
         /\ DOMAIN Stripped(layers)[i].values =
              {path \in DOMAIN layers[i].values :
                 \A j \in i + 1..Len(layers) : path \notin DOMAIN layers[j].values}
         /\ \A path \in DOMAIN Stripped(layers)[i].values :
              Stripped(layers)[i].values[path] = layers[i].values[path]
<1> DEFINE Overridden == UNION {DOMAIN layers[j].values : j \in i + 1..Len(layers)}
           kept == [path \in DOMAIN layers[i].values \ Overridden |-> layers[i].values[path]]
<1>1. layers[i] = [source |-> layers[i].source, values |-> layers[i].values]
  BY DEF AreLayers
<1>2. Stripped(layers)[i] = [layers[i] EXCEPT !.values = kept]
  BY DEF Stripped
<1> HIDE DEF kept
<1>3. [layers[i] EXCEPT !.values = kept] = [source |-> layers[i].source, values |-> kept]
  BY <1>1
<1>4. Stripped(layers)[i].source = layers[i].source /\ Stripped(layers)[i].values = kept
  BY <1>2, <1>3
<1>5. /\ DOMAIN kept = DOMAIN layers[i].values \ Overridden
      /\ \A path \in DOMAIN kept : kept[path] = layers[i].values[path]
  BY DEF kept
<1>6. DOMAIN layers[i].values \ Overridden =
        {path \in DOMAIN layers[i].values :
           \A j \in i + 1..Len(layers) : path \notin DOMAIN layers[j].values}
  OBVIOUS
<1>7. DOMAIN Stripped(layers) = DOMAIN layers
  BY DEF Stripped
<1> QED BY <1>4, <1>5, <1>6, <1>7

(* Of the layers that have a key, only the strongest keeps it. *)
LEMMA StrippedHolds ==
  ASSUME NEW layers, AreLayers(layers), NEW key
  PROVE  /\ Holding(layers, key) = {} => Holding(Stripped(layers), key) = {}
         /\ Holding(layers, key) # {} =>
              Holding(Stripped(layers), key) = {Max(Holding(layers, key))}
<1> DEFINE held == Holding(layers, key)
<1>1. held \subseteq 0..Len(layers) /\ held \subseteq 1..Len(layers) /\ Len(layers) \in Nat
  BY DEF Holding, AreLayers
<1>2. \A i \in DOMAIN layers :
        i \in Holding(Stripped(layers), key) <=> i \in held /\ \A j \in i + 1..Len(layers) : j \notin held
  <2> SUFFICES ASSUME NEW i \in DOMAIN layers
               PROVE i \in Holding(Stripped(layers), key)
                       <=> i \in held /\ \A j \in i + 1..Len(layers) : j \notin held
    OBVIOUS
  <2>1. \A j \in i + 1..Len(layers) : j \in DOMAIN layers
    BY DEF AreLayers
  <2> QED BY <2>1, StrippedLayers DEF Holding
<1>3. Holding(Stripped(layers), key) \subseteq DOMAIN layers
  <2>1. CASE DOMAIN layers = {}
    <3>1. DOMAIN Stripped(layers) = DOMAIN layers
      BY DEF Stripped
    <3> QED BY <3>1 DEF Holding
  <2>2. CASE DOMAIN layers # {}
    BY <2>2, StrippedLayers DEF Holding
  <2> QED BY <2>1, <2>2
<1>4. DOMAIN layers = 1..Len(layers) BY DEF AreLayers
<1>5. CASE held = {}
  BY <1>2, <1>3, <1>5
<1>6. CASE held # {}
  <2> DEFINE m == Max(held)
  <2>1. m \in held /\ \A i \in held : m >= i
    BY <1>1, <1>6, MaxIsGreatest
  <2> HIDE DEF m, held
  <2>2. m \in Holding(Stripped(layers), key)
    BY <1>1, <1>2, <1>4, <2>1
  <2>3. ASSUME NEW i \in Holding(Stripped(layers), key) PROVE i = m
    <3>1. i \in held /\ \A j \in i + 1..Len(layers) : j \notin held
      BY <1>2, <1>3
    <3>2. ~(m \in i + 1..Len(layers)) /\ m >= i /\ i \in Nat /\ m \in Nat /\ m <= Len(layers)
      BY <1>1, <2>1, <3>1
    <3> QED BY <1>1, <3>2
  <2> QED BY <1>6, <2>2, <2>3 DEF m, held
<1> QED BY <1>5, <1>6

LEMMA MaxOfOne ==
  ASSUME NEW n \in Nat
  PROVE  Max({n}) = n
BY MaxIsGreatest, n \in Nat, {n} \subseteq 0..n, {n} # {}

(* What is overridden decides nothing. *)
LEMMA StrippedResolves ==
  ASSUME NEW layers, AreLayers(layers), NEW key
  PROVE  resolve(Stripped(layers), key) = resolve(layers, key)
<1> DEFINE held == Holding(layers, key)
           m == Max(held)
<1>1. CASE held = {}
  BY <1>1, StrippedHolds DEF resolve, Strongest
<1>2. CASE held # {}
  <2>0. held \subseteq 0..Len(layers) /\ held \subseteq 1..Len(layers) /\ Len(layers) \in Nat
    BY DEF Holding, AreLayers
  <2>1. m \in held BY <1>2, <2>0, MaxIsGreatest
  <2>2. Holding(Stripped(layers), key) = {m}
    BY <1>2, StrippedHolds
  <2>3. m \in Nat /\ m \in DOMAIN layers /\ <<key>> \in DOMAIN Stripped(layers)[m].values
    <3>1. m \in Holding(Stripped(layers), key)
      BY <2>2
    <3>2. <<key>> \in DOMAIN Stripped(layers)[m].values
      BY <3>1 DEF Holding
    <3>3. m \in DOMAIN layers BY <2>1 DEF Holding
    <3> QED BY <2>0, <2>1, <3>2, <3>3
  <2>4. Max({m}) = m BY <2>3, MaxOfOne
  <2> HIDE DEF m, held
  <2>5. Entry(Stripped(layers)[m], key) = Entry(layers[m], key)
    BY <2>3, StrippedLayers DEF Entry
  <2> QED BY <1>2, <2>2, <2>4, <2>5 DEF resolve, Strongest, m, held
<1> QED BY <1>1, <1>2

(* The configuration depends on the layers by what they resolve to, and on nothing  *)
(* else of them.                                                                    *)
LEMMA ConfigurationOfResolved ==
  ASSUME NEW first, NEW second, NEW tree, NEW executable,
         \A key : resolve(first, key) = resolve(second, key)
  PROVE  load_runtime_config(first, tree, executable) = load_runtime_config(second, tree, executable)
<1>1. \A key, default : ValueOr(first, key, default) = ValueOr(second, key, default)
  BY DEF ValueOr
<1>2. \A key, default : NumberFor(first, key, default) = NumberFor(second, key, default)
  BY DEF NumberFor
<1>3. \A key : Nonempty(first, key) = Nonempty(second, key)
  BY <1>1 DEF Nonempty
<1>4. \A table : NumbersOf(first, table) = NumbersOf(second, table)
  BY <1>2 DEF NumbersOf
<1>5. \A key : FlagHolds(first, key) = FlagHolds(second, key) /\ FlagFor(first, key) = FlagFor(second, key)
  BY <1>1 DEF FlagHolds, FlagFor
<1>6. Credentials(first) = Credentials(second)
  BY <1>3 DEF Credentials
<1>7. PackRoot(first, tree, executable) = PackRoot(second, tree, executable)
  BY DEF PackRoot
<1>8. \A pack : Rag(first, pack) = Rag(second, pack)
  BY <1>1, <1>4 DEF Rag
<1>9. (\A key \in DOMAIN Flags : FlagHolds(first, key)) = (\A key \in DOMAIN Flags : FlagHolds(second, key))
  BY <1>5
<1>10. [key \in DOMAIN Flags |-> FlagFor(first, key)] = [key \in DOMAIN Flags |-> FlagFor(second, key)]
  BY <1>5
<1>11. (IF FlagFor(first, "AGENT_ENABLE_RAG") THEN <<Rag(first, PackRoot(first, tree, executable))>> ELSE <<>>)
         = (IF FlagFor(second, "AGENT_ENABLE_RAG") THEN <<Rag(second, PackRoot(second, tree, executable))>> ELSE <<>>)
  BY <1>5, <1>7, <1>8
<1>12. /\ Nonempty(first, "AGENT_BASE_URL") = Nonempty(second, "AGENT_BASE_URL")
       /\ Nonempty(first, "AGENT_MODEL") = Nonempty(second, "AGENT_MODEL")
       /\ ValueOr(first, "AGENT_RUNTIME_ROOT", "runtime_data") = ValueOr(second, "AGENT_RUNTIME_ROOT", "runtime_data")
       /\ ValueOr(first, "AGENT_BASE_URL", "") = ValueOr(second, "AGENT_BASE_URL", "")
       /\ ValueOr(first, "AGENT_MODEL", "") = ValueOr(second, "AGENT_MODEL", "")
       /\ ValueOr(first, "AGENT_SYSTEM_PROMPT", "default prompt") = ValueOr(second, "AGENT_SYSTEM_PROMPT", "default prompt")
       /\ ValueOr(first, CHOOSE key \in Credentials(first) : TRUE, "")
            = ValueOr(second, CHOOSE key \in Credentials(second) : TRUE, "")
  BY <1>1, <1>3, <1>6
<1>13. NumbersOf(first, Joint(Numbers, BoundedSizes)) = NumbersOf(second, Joint(Numbers, BoundedSizes))
  BY <1>4
<1> QED BY <1>6, <1>9, <1>10, <1>11, <1>12, <1>13 DEF load_runtime_config

(* -------------------------------- the report of settings ------------------------- *)

(* The layers whose value of the key is reported. *)
Reported(layers, key) == {i \in Holding(layers, key) : layers[i].values[<<key>>] # ""}

(* The report of a key begins with the strongest layer whose value is not empty. *)
LEMMA ReportBegins ==
  ASSUME NEW layers, AreLayers(layers), NEW key, Reported(layers, key) # {}
  PROVE  resolve_all(layers, key)[1] = Entry(layers[Max(Reported(layers, key))], key)
<1> DEFINE N == Len(layers)
           G == Reported(layers, key)
           All == {Entry(layers[i], key) : i \in 1..N}
           step == [at \in (1..N) \X Seq(All) |->
                      IF at[1] \in G THEN <<Entry(layers[at[1]], key)>> \o at[2] ELSE at[2]]
           Hits(f) == f = [n \in 0..N |->
                             IF n = 0 THEN <<>>
                             ELSE IF n \in Holding(layers, key) /\ layers[n].values[<<key>>] # ""
                               THEN <<Entry(layers[n], key)>> \o f[n - 1]
                             ELSE f[n - 1]]
<1>1. N \in Nat /\ G \subseteq 1..N /\ \A i \in 1..N : Entry(layers[i], key) \in All
  BY DEF AreLayers, Reported, Holding
<1>2. \A n : n \in G <=> n \in Holding(layers, key) /\ layers[n].values[<<key>>] # ""
  BY DEF Reported
<1> HIDE DEF N, G, All
<1>3. step \in [(1..N) \X Seq(All) -> Seq(All)]
  <2> SUFFICES ASSUME NEW n \in 1..N, NEW rest \in Seq(All)
               PROVE (IF n \in G THEN <<Entry(layers[n], key)>> \o rest ELSE rest) \in Seq(All)
    OBVIOUS
  <2>1. <<Entry(layers[n], key)>> \in Seq(All)
    BY <1>1
  <2> QED BY <2>1, ConcatProperties
<1>4. <<>> \in Seq(All) OBVIOUS
<1>5. PICK f : Passes(f, <<>>, step, N, Seq(All))
  <2> HIDE DEF step
  <2> QED BY <1>1, <1>3, <1>4, PassesExist
<1>6. \A n \in 1..N, rest \in Seq(All) :
        step[<<n, rest>>] = IF n \in G THEN <<Entry(layers[n], key)>> \o rest ELSE rest
  OBVIOUS
<1> HIDE DEF step
<1>7. Hits(f)
  <2>1. \A n \in 0..N : f[n] = IF n = 0 THEN <<>>
                              ELSE IF n \in G THEN <<Entry(layers[n], key)>> \o f[n - 1] ELSE f[n - 1]
    <3>1. \A n \in 0..N : n # 0 => n \in 1..N
      BY <1>1
    <3> HIDE DEF Hits
    <3> QED BY <1>5, <1>6, <3>1 DEF Passes
  <2>2. f = [n \in 0..N |-> f[n]] BY <1>5 DEF Passes
  <2> QED BY <1>2, <2>1, <2>2
<1> DEFINE hits == CHOOSE g : Hits(g)
<1>8. Hits(hits) BY <1>7
<1>9. resolve_all(layers, key) = hits[N] BY DEF resolve_all, N
<1>10. \A n \in 0..N : hits[n] = IF n = 0 THEN <<>>
                                 ELSE IF n \in G THEN <<Entry(layers[n], key)>> \o hits[n - 1]
                                 ELSE hits[n - 1]
  <2> HIDE DEF hits
  <2> QED BY <1>2, <1>8
<1> HIDE DEF hits, Hits
<1> DEFINE Begun(n) == {i \in 1..n : i \in G}
           Good(n) == /\ hits[n] \in Seq(All)
                      /\ Begun(n) # {} => hits[n][1] = Entry(layers[Max(Begun(n))], key)
           S == {n \in Nat : n <= N => Good(n)}
<1>11. 0 \in S
  <2>1. hits[0] = <<>> /\ Begun(0) = {}
    <3>1. 0 \in 0..N BY <1>1
    <3>2. hits[0] = <<>> BY <1>10, <3>1
    <3> QED BY <3>2
  <2> QED BY <1>4, <2>1
<1>12. ASSUME NEW n \in Nat, n \in S PROVE n + 1 \in S
  <2> SUFFICES ASSUME n + 1 <= N PROVE Good(n + 1)
    OBVIOUS
  <2>1. hits[n + 1] = IF n + 1 \in G THEN <<Entry(layers[n + 1], key)>> \o hits[n] ELSE hits[n]
    <3>1. n + 1 \in 0..N /\ n + 1 # 0 /\ (n + 1) - 1 = n
      BY <1>1
    <3> QED BY <1>10, <3>1
  <2>2. Good(n) BY <1>1, <1>12
  <2>3. CASE n + 1 \in G
    <3> DEFINE e == Entry(layers[n + 1], key)
    <3>1. <<e>> \in Seq(All) /\ Len(<<e>>) = 1 /\ <<e>>[1] = e
      <4>1. e \in All BY <1>1
      <4> HIDE DEF e
      <4> QED BY <4>1
    <3>2. hits[n + 1] = <<e>> \o hits[n] /\ hits[n] \in Seq(All)
      BY <2>1, <2>2, <2>3
    <3> HIDE DEF e
    <3>3. hits[n + 1] \in Seq(All) /\ hits[n + 1][1] = e
      BY <3>1, <3>2, ConcatProperties
    <3>4. Max(Begun(n + 1)) = n + 1
      <4>1. n + 1 \in Begun(n + 1) /\ Begun(n + 1) \subseteq 0..n + 1
        BY <2>3
      <4>2. Max(Begun(n + 1)) \in Begun(n + 1) /\ Max(Begun(n + 1)) >= n + 1
        BY <4>1, MaxIsGreatest, n + 1 \in Nat
      <4> QED BY <4>2
    <3> QED BY <3>3, <3>4 DEF e
  <2>4. CASE n + 1 \notin G
    <3>1. Begun(n + 1) = Begun(n) BY <2>4
    <3> QED BY <2>1, <2>2, <2>4, <3>1
  <2> QED BY <2>3, <2>4
<1>13. Good(N)
  <2> HIDE DEF S
  <2>1. N \in S BY <1>1, <1>11, <1>12, SetInduction
  <2> QED BY <1>1, <2>1 DEF S
<1>14. Begun(N) = G BY <1>1
<1> QED BY <1>9, <1>13, <1>14 DEF G

(* ------------------------------ an accepted start -------------------------------- *)

(* A pack that a pointer leads to is trusted, and the pointer is the nearest one.   *)
LEMMA DiscoveredPack ==
  ASSUME NEW tree, NEW executable,
         discover_rag_pack_root(tree, executable).ok,
         discover_rag_pack_root(tree, executable).found
  PROVE  LET places == PointerPlaces(executable)
             root == discover_rag_pack_root(tree, executable).root
         IN  /\ trusted_pack_root(tree, Place("absolute", root))
             /\ \E i \in DOMAIN places :
                  /\ NodeKind(tree, places[i]) = "file"
                  /\ Supplied(places[i], tree[places[i]].names).parts = root
                  /\ \A j \in 1..i - 1 : NodeKind(tree, places[j]) = "absent"
<1> DEFINE places == PointerPlaces(executable)
           There == {i \in DOMAIN places : NodeKind(tree, places[i]) # "absent"}
           pointer == places[Min(There)]
           place == Supplied(pointer, tree[pointer].names)
           found == discover_rag_pack_root(tree, executable)
<1>1. DOMAIN places = 1..5 BY DEF PointerPlaces, PointerLevels
<1> HIDE DEF places
<1>2. There # {} /\ PlainFile(tree, pointer)
      /\ found = Pointed(tree, pointer, tree[pointer].names, place)
  <2>1. There # {} BY DEF discover_rag_pack_root, places, NoPack
  <2>2. PlainFile(tree, pointer) /\ ~(tree[pointer].text # "pointer")
    BY <2>1 DEF discover_rag_pack_root, places, Rejected
  <2> QED BY <2>1, <2>2 DEF discover_rag_pack_root, places
<1>3. There \subseteq Nat /\ Min(There) \in There /\ \A i \in There : Min(There) <= i
  <2>1. There \subseteq Nat BY <1>1
  <2> HIDE DEF There
  <2> QED BY <1>2, <2>1, MinIsLeast
<1> HIDE DEF found, place
<1>4. found.ok BY DEF found
<1>5. trusted_pack_root(tree, place) /\ found = Pack(place.parts)
  BY <1>2, <1>4 DEF Pointed, Rejected
<1>6. found.root = place.parts BY <1>5 DEF Pack
<1>7. trusted_pack_root(tree, Place("absolute", place.parts))
  BY <1>5 DEF trusted_pack_root, Place
<1>8. \A j \in 1..Min(There) - 1 : NodeKind(tree, places[j]) = "absent"
  <2> SUFFICES ASSUME NEW j \in 1..Min(There) - 1, NodeKind(tree, places[j]) # "absent" PROVE FALSE
    OBVIOUS
  <2>1. j \in DOMAIN places /\ ~(Min(There) <= j)
    BY <1>1, <1>3
  <2> QED BY <1>3, <2>1
<1>9. NodeKind(tree, places[Min(There)]) = "file"
  BY <1>2 DEF PlainFile
<1> QED BY <1>3, <1>6, <1>7, <1>8, <1>9 DEF found, place, places

(* A layer decides what is resolved. *)
LEMMA ResolvedIsTold ==
  ASSUME NEW layers, AreLayers(layers), NEW key, resolve(layers, key).set
  PROVE  \E i \in 1..Len(layers) :
           /\ <<key>> \in DOMAIN layers[i].values
           /\ resolve(layers, key).entry.value = layers[i].values[<<key>>]
<1> DEFINE held == Holding(layers, key)
<1>1. held # {} BY DEF resolve, Strongest, Unset
<1>2. held \subseteq 0..Len(layers) /\ held \subseteq 1..Len(layers) /\ Len(layers) \in Nat
  BY DEF Holding, AreLayers
<1>3. Max(held) \in held BY <1>1, <1>2, MaxIsGreatest
<1>4. resolve(layers, key).entry.value = layers[Max(held)].values[<<key>>]
  BY <1>1 DEF resolve, Strongest, Entry
<1>5. <<key>> \in DOMAIN layers[Max(held)].values
  BY <1>3 DEF Holding
<1> QED BY <1>2, <1>3, <1>4, <1>5

LEMMA AcceptedPack ==
  ASSUME NEW layers, AreLayers(layers), NEW tree, NEW executable,
         PackRoot(layers, tree, executable).ok
  PROVE  LET places == PointerPlaces(executable)
             root == PackRoot(layers, tree, executable).root
         IN  /\ trusted_pack_root(tree, Place("absolute", root)) /\ ~inside_ready_directory(root)
             /\ \/ \E i \in DOMAIN places :
                     /\ NodeKind(tree, places[i]) = "file"
                     /\ Supplied(places[i], tree[places[i]].names).parts = root
                     /\ \A j \in 1..i - 1 : NodeKind(tree, places[j]) = "absent"
                \/ \E i \in 1..Len(layers) :
                     /\ <<"AGENT_RAG_PACK_ROOT">> \in DOMAIN layers[i].values
                     /\ PathIn(layers[i].values[<<"AGENT_RAG_PACK_ROOT">>]).parts = root
<1> DEFINE named == resolve(layers, "AGENT_RAG_PACK_ROOT")
           place == PathIn(named.entry.value)
           pack == PackRoot(layers, tree, executable)
<1>1. CASE named.set
  <2>1. trusted_pack_root(tree, place) /\ pack = Pack(place.parts) /\ ~inside_ready_directory(place.parts)
    BY <1>1 DEF PackRoot, Rejected, Pack
  <2>2. pack.root = place.parts BY <2>1 DEF Pack
  <2>3. trusted_pack_root(tree, Place("absolute", place.parts))
    BY <2>1 DEF trusted_pack_root, Place
  <2>4. \E i \in 1..Len(layers) :
          /\ <<"AGENT_RAG_PACK_ROOT">> \in DOMAIN layers[i].values
          /\ place = PathIn(layers[i].values[<<"AGENT_RAG_PACK_ROOT">>])
    <3>1. PICK i \in 1..Len(layers) :
            /\ <<"AGENT_RAG_PACK_ROOT">> \in DOMAIN layers[i].values
            /\ named.entry.value = layers[i].values[<<"AGENT_RAG_PACK_ROOT">>]
      BY <1>1, ResolvedIsTold
    <3> QED BY <3>1
  <2> HIDE DEF place, pack
  <2> QED BY <2>1, <2>2, <2>3, <2>4 DEF pack
<1>2. CASE ~named.set
  <2> DEFINE found == discover_rag_pack_root(tree, executable)
  <2>1. found.ok /\ found.found /\ pack = found /\ ~inside_ready_directory(found.root)
    BY <1>2 DEF PackRoot, Rejected
  <2> QED BY <2>1, DiscoveredPack
<1> QED BY <1>1, <1>2

LEMMA SingleCredential ==
  ASSUME NEW layers, Cardinality(Credentials(layers)) = 1
  PROVE  ValueOr(layers, CHOOSE key \in Credentials(layers) : TRUE, "") # ""
<1>1. Credentials(layers) # {} BY FS_EmptySet
<1>2. (CHOOSE key \in Credentials(layers) : TRUE) \in Credentials(layers)
  BY <1>1
<1> QED BY <1>2 DEF Credentials, Nonempty

(* The conditions load_runtime_config makes, read off the answer. *)
LEMMA AcceptedConfig ==
  ASSUME NEW layers, NEW tree, NEW executable, NEW config,
         config = load_runtime_config(layers, tree, executable), config.ok
  PROVE  /\ config.credential.value # "" /\ config.url # "" /\ config.runtime_root # ""
         /\ DOMAIN config.numbers = DOMAIN Joint(Numbers, BoundedSizes)
         /\ Within(config.numbers, Numbers) /\ Within(config.numbers, BoundedSizes)
         /\ config.numbers["AGENT_COMPACTION_THRESHOLD_BYTES"]
              < config.numbers["AGENT_COMPACTION_HARD_LIMIT_BYTES"]
         /\ config.rag # <<>> =>
              /\ config.rag[1].pack = PackRoot(layers, tree, executable)
              /\ PackRoot(layers, tree, executable).ok
<1> DEFINE numbers == NumbersOf(layers, Joint(Numbers, BoundedSizes))
           credentials == Credentials(layers)
           rag == IF FlagFor(layers, "AGENT_ENABLE_RAG")
                    THEN <<Rag(layers, PackRoot(layers, tree, executable))>> ELSE <<>>
           Holds == /\ Nonempty(layers, "AGENT_BASE_URL") /\ Nonempty(layers, "AGENT_MODEL")
                    /\ Cardinality(credentials) = 1
                    /\ Within(numbers, Numbers) /\ Within(numbers, BoundedSizes)
                    /\ \A key \in DOMAIN Flags : FlagHolds(layers, key)
                    /\ numbers["AGENT_COMPACTION_HARD_LIMIT_BYTES"] > numbers["AGENT_COMPACTION_THRESHOLD_BYTES"]
                    /\ ValueOr(layers, "AGENT_RUNTIME_ROOT", "runtime_data") # ""
                    /\ \A i \in DOMAIN rag : RagHolds(rag[i])
<1>1. Holds BY DEF load_runtime_config, Rejected
<1>2. /\ config.url = ValueOr(layers, "AGENT_BASE_URL", "")
      /\ config.runtime_root = ValueOr(layers, "AGENT_RUNTIME_ROOT", "runtime_data")
      /\ config.credential.value = ValueOr(layers, CHOOSE key \in credentials : TRUE, "")
      /\ config.numbers = numbers /\ config.rag = rag
  BY <1>1 DEF load_runtime_config
<1>3. rag # <<>> => /\ rag[1].pack = PackRoot(layers, tree, executable)
                    /\ PackRoot(layers, tree, executable).ok
  <2> DEFINE one == Rag(layers, PackRoot(layers, tree, executable))
  <2>1. one.pack = PackRoot(layers, tree, executable)
    BY DEF Rag
  <2> HIDE DEF one
  <2>2. rag # <<>> => rag = <<one>> BY DEF one
  <2> HIDE DEF rag
  <2>3. rag # <<>> => 1 \in DOMAIN rag /\ rag[1] = one
    BY <2>2
  <2>4. rag # <<>> => RagHolds(one) BY <1>1, <2>3
  <2> QED BY <2>1, <2>3, <2>4 DEF RagHolds
<1>4. config.credential.value # "" /\ config.url # "" /\ config.runtime_root # ""
  BY <1>1, <1>2, SingleCredential DEF Nonempty
<1>5. DOMAIN numbers = DOMAIN Joint(Numbers, BoundedSizes)
  BY DEF NumbersOf
<1> HIDE DEF rag, numbers, credentials
<1> QED BY <1>1, <1>2, <1>3, <1>4, <1>5 DEF credentials

(* Times fit their width in milliseconds, and no number is zero. *)
LEMMA NumbersFit ==
  ASSUME NEW numbers, Within(numbers, Numbers), Within(numbers, BoundedSizes),
         DOMAIN numbers = DOMAIN Joint(Numbers, BoundedSizes)
  PROVE  /\ \A key \in DOMAIN numbers : numbers[key] >= 1
         /\ \A key \in {"AGENT_MAX_TASK_SECONDS", "AGENT_MODEL_TIMEOUT_SECONDS"} :
              numbers[key] * 1000 <= MaxSigned
<1>1. \A key \in DOMAIN numbers : numbers[key] >= 1
  <2>1. DOMAIN numbers = DOMAIN Numbers \cup DOMAIN BoundedSizes
    BY DEF Joint
  <2> QED BY <2>1 DEF Within
<1>2. ASSUME NEW key \in {"AGENT_MAX_TASK_SECONDS", "AGENT_MODEL_TIMEOUT_SECONDS"}
      PROVE  numbers[key] * 1000 <= MaxSigned
  <2>1. key \in DOMAIN Numbers /\ Numbers[key].limit = MaxSigned \div 1000
    BY DEF Numbers
  <2>2. numbers[key] \in 1..(MaxSigned \div 1000)
    BY <2>1 DEF Within
  <2>3. MaxSigned \in Nat BY Widths
  <2> QED BY <2>2, <2>3
<1> QED BY <1>1, <1>2

(* -------------------------------- questions and answers -------------------------- *)

(* The question stays, and the answer is the code's.                               *)
AnswerInv ==
  /\ Posed
  /\ \/ answer = Unanswered
     \/ asked.on = "list"   /\ answer = Answer(bounded_list_json(
                                  list(asked.tree, asked.call.path, asked.call.recursive, asked.call.max)))
     \/ asked.on = "search" /\ answer = Answer(bounded_search_json(
                                  search(asked.tree, asked.call.path, asked.call.query,
                                         asked.call.case_sensitive, asked.call.max)))
     \/ asked.on = "read"   /\ answer = Answer(PagesOf(asked.file))
     \/ asked.on = "build"  /\ answer = Answer(bounded_process_result(asked.output))
     \/ asked.on = "model"  /\ answer = Answer(make_request(asked.request, asked.stream))
     \/ asked.on = "wire"   /\ answer = Answer(feed(feed(NewDecoder, SubSeq(asked.wire, 1, asked.cut)),
                                                   SubSeq(asked.wire, asked.cut + 1, Len(asked.wire))))
     \/ asked.on = "start"  /\ answer = Answer(run_agent(asked.host, asked.start))

(* Whatever was asked, what is answered is what the code makes of that question.    *)
LEMMA AnswersAreTheCodes == Spec => []AnswerInv
<1>1. Init => AnswerInv BY DEF Init, AnswerInv
<1>2. AnswerInv /\ [Next]_vars => AnswerInv'
  <2> SUFFICES ASSUME AnswerInv, [Next]_vars PROVE AnswerInv'
    OBVIOUS
  <2>1. asked' = asked
    BY DEF Next, vars, ListFiles, SearchText, ReadFile, ShowOutput, MakeRequest, DecodeWire, StartProgram
  <2>2. Posed' BY <2>1 DEF AnswerInv, Posed
  <2>3. CASE ListFiles
    BY <2>1, <2>2, <2>3 DEF AnswerInv, ListFiles, Asked
  <2>4. CASE SearchText
    BY <2>1, <2>2, <2>4 DEF AnswerInv, SearchText, Asked
  <2>5. CASE ReadFile
    BY <2>1, <2>2, <2>5 DEF AnswerInv, ReadFile, Asked
  <2>6. CASE ShowOutput
    BY <2>1, <2>2, <2>6 DEF AnswerInv, ShowOutput, Asked
  <2>7. CASE MakeRequest
    BY <2>1, <2>2, <2>7 DEF AnswerInv, MakeRequest, Asked
  <2>8. CASE DecodeWire
    BY <2>1, <2>2, <2>8 DEF AnswerInv, DecodeWire, Asked
  <2>9. CASE StartProgram
    BY <2>1, <2>2, <2>9 DEF AnswerInv, StartProgram, Asked
  <2>10. CASE UNCHANGED vars
    BY <2>2, <2>10 DEF AnswerInv, vars
  <2> QED BY <2>3, <2>4, <2>5, <2>6, <2>7, <2>8, <2>9, <2>10 DEF Next
<1> QED BY <1>1, <1>2, PTL DEF Spec

LEMMA AnswerOf ==
  ASSUME AnswerInv, answer.done
  PROVE  /\ asked.on = "list" => answer.value = bounded_list_json(
              list(asked.tree, asked.call.path, asked.call.recursive, asked.call.max))
         /\ asked.on = "search" => answer.value = bounded_search_json(
              search(asked.tree, asked.call.path, asked.call.query, asked.call.case_sensitive, asked.call.max))
         /\ asked.on = "read" => answer.value = PagesOf(asked.file)
         /\ asked.on = "build" => answer.value = bounded_process_result(asked.output)
         /\ asked.on = "model" => answer.value = make_request(asked.request, asked.stream)
         /\ asked.on = "wire" => answer.value = feed(feed(NewDecoder, SubSeq(asked.wire, 1, asked.cut)),
                                                   SubSeq(asked.wire, asked.cut + 1, Len(asked.wire)))
         /\ asked.on = "start" => answer.value = run_agent(asked.host, asked.start)
BY DEF AnswerInv, Answer, Unanswered

LEMMA StartAsked ==
  ASSUME AnswerInv, asked.on = "start"
  PROVE  asked.start \in {"report", "explicit", "interactive", "command"}
BY CallsNameTools DEF AnswerInv, Posed

(* ------------------------------------ the start ---------------------------------- *)

LEMMA EnvFileValues ==
  ASSUME NEW host, NEW start \in {"report", "explicit", "interactive", "command"}
  PROVE  EnvFile(host, start).ok \in BOOLEAN
BY DEF EnvFile, discover_interactive_env_file, Rejected, NoEnvValues

LEMMA StartOf ==
  ASSUME AnswerInv, Answered("start")
  PROVE  /\ answer.value.ok => EnvFile(asked.host, asked.start).ok
         /\ EnvFile(asked.host, asked.start).ok =>
              IF asked.start = "report" THEN answer.value = render_layered_settings_json(StartLayers)
              ELSE answer.value = Started(load_runtime_config(StartLayers, asked.host.tree, asked.host.executable),
                                          StartEnvironment)
<1>1. answer.value = run_agent(asked.host, asked.start)
  BY AnswerOf DEF Answered
<1>2. EnvFile(asked.host, asked.start).ok \in BOOLEAN
  BY EnvFileValues, StartAsked DEF Answered
<1> QED BY <1>1, <1>2 DEF run_agent, StartLayers, StartEnvironment, Rejected

(* The strongest layer of settings that has a key decides it alone, for the          *)
(* configuration that is loaded and for the report                                  *)
(* (setting_source.cpp:27, runtime_config.cpp:405).                                  *)
THEOREM StrongestDecides == Spec => []StrongestLayerDecides
<1>1. AnswerInv => StrongestLayerDecides
  <2> SUFFICES ASSUME AnswerInv, Answered("start") PROVE StrongestLayerDecides
    BY DEF StrongestLayerDecides
  <2>1. AreLayers(StartLayers) BY LayersOfStart DEF StartLayers
  <2>2. \A key : resolve(Stripped(StartLayers), key) = resolve(StartLayers, key)
    BY <2>1, StrippedResolves
  <2>3. ASSUME asked.start # "report", EnvFile(asked.host, asked.start).ok
        PROVE  answer.value = Started(load_runtime_config(Stripped(StartLayers), asked.host.tree, asked.host.executable),
                                      StartEnvironment)
    <3>1. answer.value = Started(load_runtime_config(StartLayers, asked.host.tree, asked.host.executable),
                                 StartEnvironment)
      BY <2>3, StartOf
    <3> QED BY <2>2, <3>1, ConfigurationOfResolved
  <2>4. ASSUME asked.start = "report", answer.value.ok,
               NEW key \in known_setting_keys \ Unread, Nonempty(Stripped(StartLayers), key)
        PROVE  answer.value.resolved[key][1] = resolve(Stripped(StartLayers), key).entry
    <3> DEFINE layers == StartLayers
               held == Holding(layers, key)
               reported == Reported(layers, key)
    <3>1. answer.value = render_layered_settings_json(layers)
      BY <2>4, StartOf
    <3>2. answer.value.resolved[key] = resolve_all(layers, key)
      BY <2>4, <3>1 DEF render_layered_settings_json
    <3>3. resolve(layers, key).set /\ resolve(layers, key).entry.value # ""
      BY <2>2, <2>4 DEF Nonempty, ValueOr
    <3>4. held # {} /\ resolve(layers, key).entry = Entry(layers[Max(held)], key)
      BY <3>3 DEF resolve, Strongest, Unset
    <3>5. held \subseteq 0..Len(layers) /\ Len(layers) \in Nat /\ reported \subseteq held
      <4>1. \A L, k : Reported(L, k) \subseteq Holding(L, k) /\ Holding(L, k) \subseteq DOMAIN L
        BY DEF Reported, Holding
      <4> QED BY <2>1, <4>1 DEF AreLayers
    <3>6. Max(held) \in held /\ \A i \in held : Max(held) >= i
      BY <3>4, <3>5, MaxIsGreatest
    <3>7. Max(held) \in reported
      <4>1. Entry(layers[Max(held)], key).value = layers[Max(held)].values[<<key>>]
        BY DEF Entry
      <4>2. layers[Max(held)].values[<<key>>] # ""
        BY <3>3, <3>4, <4>1
      <4> HIDE DEF layers
      <4> QED BY <3>6, <4>2 DEF Reported
    <3>8. Max(reported) \in reported /\ \A i \in reported : Max(reported) >= i
      BY <3>5, <3>7, MaxIsGreatest
    <3>9. Max(reported) = Max(held)
      <4>1. Max(reported) \in Nat /\ Max(held) \in Nat
        BY <3>5, <3>6, <3>8
      <4>2. Max(held) >= Max(reported) /\ Max(reported) >= Max(held)
        BY <3>5, <3>6, <3>7, <3>8
      <4> QED BY <4>1, <4>2
    <3>10. resolve_all(layers, key)[1] = Entry(layers[Max(reported)], key)
      BY <2>1, <3>7, ReportBegins
    <3> QED BY <2>2, <3>2, <3>4, <3>9, <3>10
  <2> QED BY <2>3, <2>4 DEF StrongestLayerDecides
<1> QED BY AnswersAreTheCodes, <1>1, PTL

(* A start that is not refused has what the engine relies on: times that fit, sizes *)
(* in their order, one credential and a trusted pack, found where it was to be      *)
(* looked for (runtime_config.cpp:405, 736).                                        *)
THEOREM StartIsSound == Spec => []AcceptedStartIsSound
<1>1. AnswerInv => AcceptedStartIsSound
  <2> SUFFICES ASSUME AnswerInv, Answered("start"), asked.start # "report", answer.value.ok
               PROVE  AcceptedStartIsSound
    BY DEF AcceptedStartIsSound
  <2> DEFINE config == answer.value.config
             layers == StartLayers
             tree == asked.host.tree
             places == PointerPlaces(asked.host.executable)
             pack == PackRoot(layers, tree, asked.host.executable)
  <2>1. AreLayers(layers) BY LayersOfStart DEF StartLayers
  <2>2. config = load_runtime_config(layers, tree, asked.host.executable) /\ config.ok
    BY StartOf DEF Started, Rejected
  <2>3. /\ config.credential.value # "" /\ config.url # "" /\ config.runtime_root # ""
        /\ DOMAIN config.numbers = DOMAIN Joint(Numbers, BoundedSizes)
        /\ Within(config.numbers, Numbers) /\ Within(config.numbers, BoundedSizes)
        /\ config.numbers["AGENT_COMPACTION_THRESHOLD_BYTES"]
             < config.numbers["AGENT_COMPACTION_HARD_LIMIT_BYTES"]
        /\ config.rag # <<>> => config.rag[1].pack = pack /\ pack.ok
    <3>1. config.ok BY <2>2
    <3> DEFINE executable == asked.host.executable
    <3>2. config = load_runtime_config(layers, tree, executable)
      BY <2>2
    <3> HIDE DEF layers, tree, config, executable
    <3>3. /\ config.credential.value # "" /\ config.url # "" /\ config.runtime_root # ""
          /\ DOMAIN config.numbers = DOMAIN Joint(Numbers, BoundedSizes)
      BY <3>1, <3>2, AcceptedConfig
    <3>4. /\ Within(config.numbers, Numbers) /\ Within(config.numbers, BoundedSizes)
          /\ config.numbers["AGENT_COMPACTION_THRESHOLD_BYTES"]
               < config.numbers["AGENT_COMPACTION_HARD_LIMIT_BYTES"]
      BY <3>1, <3>2, AcceptedConfig
    <3>5. config.rag # <<>> => config.rag[1].pack = PackRoot(layers, tree, executable)
                               /\ PackRoot(layers, tree, executable).ok
      BY <3>1, <3>2, AcceptedConfig
    <3> QED BY <3>3, <3>4, <3>5 DEF executable, pack
  <2>6. /\ \A key \in DOMAIN config.numbers : config.numbers[key] >= 1
        /\ \A key \in {"AGENT_MAX_TASK_SECONDS", "AGENT_MODEL_TIMEOUT_SECONDS"} :
             config.numbers[key] * 1000 <= MaxSigned
    <3> DEFINE numbers == config.numbers
    <3>1. Within(numbers, Numbers) /\ Within(numbers, BoundedSizes) /\ DOMAIN numbers = DOMAIN Joint(Numbers, BoundedSizes)
      BY <2>3
    <3> HIDE DEF numbers
    <3>2. /\ \A key \in DOMAIN numbers : numbers[key] >= 1
          /\ \A key \in {"AGENT_MAX_TASK_SECONDS", "AGENT_MODEL_TIMEOUT_SECONDS"} :
               numbers[key] * 1000 <= MaxSigned
      BY <3>1, NumbersFit
    <3> QED BY <3>2 DEF numbers
  <2>7. ASSUME config.rag # <<>>
        PROVE  LET root == config.rag[1].pack.root
               IN  /\ trusted_pack_root(tree, Place("absolute", root)) /\ ~inside_ready_directory(root)
                   /\ \/ \E i \in DOMAIN places :
                           /\ NodeKind(tree, places[i]) = "file"
                           /\ Supplied(places[i], tree[places[i]].names).parts = root
                           /\ \A j \in 1..i - 1 : NodeKind(tree, places[j]) = "absent"
                      \/ \E layer \in ToSet(layers) :
                           /\ <<"AGENT_RAG_PACK_ROOT">> \in DOMAIN layer.values
                           /\ PathIn(layer.values[<<"AGENT_RAG_PACK_ROOT">>]).parts = root
    <3>1. config.rag[1].pack = pack /\ pack.ok
      BY <2>3, <2>7
    <3>2. \A i \in 1..Len(layers) : layers[i] \in ToSet(layers)
      BY <2>1 DEF AreLayers, ToSet
    <3>3. /\ trusted_pack_root(tree, Place("absolute", pack.root)) /\ ~inside_ready_directory(pack.root)
          /\ \/ \E i \in DOMAIN places :
                  /\ NodeKind(tree, places[i]) = "file"
                  /\ Supplied(places[i], tree[places[i]].names).parts = pack.root
                  /\ \A j \in 1..i - 1 : NodeKind(tree, places[j]) = "absent"
             \/ \E i \in 1..Len(layers) :
                  /\ <<"AGENT_RAG_PACK_ROOT">> \in DOMAIN layers[i].values
                  /\ PathIn(layers[i].values[<<"AGENT_RAG_PACK_ROOT">>]).parts = pack.root
      BY <2>1, <3>1, AcceptedPack
    <3> HIDE DEF config, layers, tree, places, pack
    <3> QED BY <3>1, <3>2, <3>3
  <2> QED BY <2>3, <2>6, <2>7 DEF AcceptedStartIsSound
<1> QED BY AnswersAreTheCodes, <1>1, PTL

(* ----------------------------- the request to the model -------------------------- *)

LEMMA SuffixOfConcat ==
  ASSUME NEW T, NEW first \in Seq(T), NEW second \in Seq(T)
  PROVE  IsSuffix(second, first \o second)
<1> DEFINE whole == first \o second
           m == Len(first)
           n == Len(second)
<1>1. /\ whole \in Seq(T) /\ Len(whole) = m + n /\ m \in Nat /\ n \in Nat
      /\ \A i \in 1..m + n : whole[i] = IF i <= m THEN first[i] ELSE second[i - m]
  BY ConcatProperties
<1> HIDE DEF whole, m
<1>2. \A i \in 1..n : second[i] \in T BY DEF n
<1>3. DOMAIN Reverse(second) = 1..n /\ \A i \in 1..n : Reverse(second)[i] = second[(n - i) + 1]
  BY DEF Reverse
<1>4. DOMAIN Reverse(whole) = 1..m + n /\ \A i \in 1..m + n : Reverse(whole)[i] = whole[(m + n - i) + 1]
  BY <1>1 DEF Reverse
<1>5. Reverse(second) \in Seq(T) /\ Len(Reverse(second)) = n
  <2>1. \A i \in 1..n : second[(n - i) + 1] \in T
    BY <1>1, <1>2
  <2> QED BY <1>1, <2>1 DEF Reverse
<1>6. Reverse(whole) \in Seq(T) /\ Len(Reverse(whole)) = m + n
  <2>1. \A i \in 1..m + n : whole[(m + n - i) + 1] \in T
    <3> SUFFICES ASSUME NEW i \in 1..m + n PROVE whole[(m + n - i) + 1] \in T
      OBVIOUS
    <3>1. (m + n - i) + 1 \in 1..Len(whole) BY <1>1
    <3> QED BY <1>1, <3>1, ElementOfSeq
  <2> QED BY <1>1, <2>1 DEF Reverse
<1>7. \A i \in 1..n : Reverse(second)[i] = Reverse(whole)[i]
  <2> SUFFICES ASSUME NEW i \in 1..n PROVE Reverse(second)[i] = Reverse(whole)[i]
    OBVIOUS
  <2>1. i \in 1..m + n /\ (m + n - i) + 1 \in 1..m + n /\ ~((m + n - i) + 1 <= m)
        /\ (m + n - i) + 1 - m = (n - i) + 1
    BY <1>1
  <2> QED BY <1>1, <1>3, <1>4, <2>1
<1> HIDE DEF n
<1>8. SubSeq(Reverse(second), 1, n) = SubSeq(Reverse(whole), 1, n)
  <2>1. \A i \in 1..n : Reverse(second)[i] \in T /\ Reverse(whole)[i] \in T
    BY <1>1, <1>5, <1>6, <1>7
  <2>2. /\ SubSeq(Reverse(second), 1, n) \in Seq(T) /\ SubSeq(Reverse(whole), 1, n) \in Seq(T)
        /\ Len(SubSeq(Reverse(second), 1, n)) = n /\ Len(SubSeq(Reverse(whole), 1, n)) = n
        /\ \A i \in 1..n : SubSeq(Reverse(second), 1, n)[i] = Reverse(second)[i]
                           /\ SubSeq(Reverse(whole), 1, n)[i] = Reverse(whole)[i]
    BY <1>1, <2>1, SubSeqProperties
  <2> QED BY <1>7, <2>2, SeqEqual
<1> QED BY <1>1, <1>5, <1>6, <1>8 DEF IsSuffix, IsPrefix, whole

LEMMA FlattenTyped ==
  ASSUME NEW T, NEW seqs \in Seq(Seq(T))
  PROVE  FlattenSeq(seqs) \in Seq(T)
<1>1. CASE Len(seqs) = 0
  BY <1>1 DEF FlattenSeq
<1>2. CASE Len(seqs) # 0
  <2>1. PICK f : IsFlat(f, seqs, Len(seqs)) /\ FlattenSeq(seqs) = f[Len(seqs)]
    BY <1>2, FlattenIs
  <2>2. Len(seqs) \in Nat /\ Len(seqs) \in 1..Len(seqs) /\ \A i \in 1..Len(seqs) : seqs[i] \in Seq(T)
    BY <1>2
  <2> QED BY <2>1, <2>2, FlatTyped
<1> QED BY <1>1, <1>2

(* What a text of a request is made of: the escapes are tokens too. *)
Tokens == STRING \cup {"u003c", "u003e", "u0026"}

LEMMA EscapedTokens ==
  ASSUME NEW token \in STRING
  PROVE  Escaped(token) \in Tokens /\ Escaped(token) # "<" /\ Escaped(token) # ">"
<1>1. CASE token \in {"<", ">", "&"}
  BY <1>1 DEF Escaped, Tokens
<1>2. CASE token \notin {"<", ">", "&"}
  <2>1. Escaped(token) = token BY <1>2 DEF Escaped
  <2> QED BY <1>2, <2>1 DEF Tokens
<1> QED BY <1>1, <1>2

LEMMA EvidenceIsText ==
  ASSUME NEW items \in Seq([content : Seq(STRING)]), NEW encoded, NEW escaped,
         encoded = evidence_array(items),
         escaped = [i \in DOMAIN encoded |-> Escaped(encoded[i])]
  PROVE  /\ escaped \in Seq(Tokens)
         /\ \A i \in 1..Len(escaped) : escaped[i] # "<" /\ escaped[i] # ">"
<1>1. encoded \in Seq(STRING)
  <2> DEFINE Content == Seq(STRING)
             Item == [content : Content]
  <2>1. \A item \in Item : item.content \in Content
    OBVIOUS
  <2>2. items \in Seq(Item) OBVIOUS
  <2> HIDE DEF Item
  <2>3. DOMAIN items = 1..Len(items) /\ Len(items) \in Nat /\ \A i \in 1..Len(items) : items[i] \in Item
    BY <2>2
  <2> HIDE DEF Content
  <2>4. [i \in DOMAIN items |-> items[i].content] \in Seq(Content)
    BY <2>1, <2>3
  <2> QED BY <2>4, FlattenTyped DEF evidence_array, Content
<1>2. DOMAIN encoded = 1..Len(encoded) /\ Len(encoded) \in Nat /\ \A i \in 1..Len(encoded) : encoded[i] \in STRING
  BY <1>1
<1>3. \A i \in 1..Len(encoded) :
        escaped[i] = Escaped(encoded[i]) /\ escaped[i] \in Tokens /\ escaped[i] # "<" /\ escaped[i] # ">"
  BY <1>2, EscapedTokens
<1>4. Len(escaped) = Len(encoded) /\ escaped \in Seq(Tokens)
  BY <1>2, <1>3
<1> QED BY <1>3, <1>4

LEMMA PartOf ==
  ASSUME NEW T, NEW s \in Seq(T), NEW first \in Nat, NEW last \in Nat,
         first >= 1, first <= last + 1, last <= Len(s)
  PROVE  /\ SubSeq(s, first, last) \in Seq(T)
         /\ Len(SubSeq(s, first, last)) = last - first + 1
         /\ \A k \in 1..last - first + 1 : SubSeq(s, first, last)[k] = s[first + k - 1]
<1>1. \A i \in first..last : s[i] \in T OBVIOUS
<1>2. first \in Int /\ last \in Int OBVIOUS
<1>3. SubSeq(s, first, last) \in Seq(T)
  BY <1>1, <1>2, SubSeqProperties
<1>4. Len(SubSeq(s, first, last)) = last - first + 1
  BY <1>1, <1>2, SubSeqProperties
<1>5. \A k \in 1..last - first + 1 : SubSeq(s, first, last)[k] = s[first + k - 1]
  BY <1>1, <1>2, SubSeqProperties
<1> QED BY <1>3, <1>4, <1>5

(* Between two different marks, which begin with "<" and end with ">" and have      *)
(* neither in between, and around a text that has neither, each mark occurs once.   *)
LEMMA MarksOnce ==
  ASSUME NEW escaped \in Seq(Tokens),
         \A i \in 1..Len(escaped) : escaped[i] # "<" /\ escaped[i] # ">",
         NEW text, text = Open \o escaped \o Close
  PROVE  Marked(text, Open) = {1} /\ Marked(text, Close) = {Len(text) - Len(Close) + 1}
<1> DEFINE a == Len(Open)
           e == Len(escaped)
           c == Len(Close)
           n == a + e + c
<1>1. Open \in Seq(Tokens) /\ Close \in Seq(Tokens)
  <2>1. STRING \subseteq Tokens BY DEF Tokens
  <2> QED BY <2>1, Marks, SeqMonotonic
<1>2. /\ a = Len(Open) /\ e = Len(escaped) /\ c = Len(Close) /\ n = a + e + c
      /\ a \in Nat /\ e \in Nat /\ c \in Nat /\ a > 1 /\ c > 1
  BY <1>1, Marks
<1> HIDE DEF a, e, c, n
<1>3. /\ text \in Seq(Tokens) /\ Len(text) = n
      /\ \A i \in 1..a : text[i] = Open[i]
      /\ \A i \in a + 1..a + e : text[i] = escaped[i - a]
      /\ \A i \in a + e + 1..n : text[i] = Close[i - (a + e)]
  <2> DEFINE front == Open \o escaped
  <2>1. /\ front \in Seq(Tokens) /\ Len(front) = a + e
        /\ \A i \in 1..a + e : front[i] = IF i <= a THEN Open[i] ELSE escaped[i - a]
    BY <1>2, <1>1, ConcatProperties
  <2> HIDE DEF front
  <2>2. /\ front \o Close \in Seq(Tokens) /\ Len(front \o Close) = Len(front) + Len(Close)
        /\ \A i \in 1..Len(front) + Len(Close) : (front \o Close)[i] =
             IF i <= Len(front) THEN front[i] ELSE Close[i - Len(front)]
    BY <1>1, <2>1, ConcatProperties
  <2>3. text = front \o Close BY DEF front
  <2> QED BY <1>2, <2>1, <2>2, <2>3
<1>4. \A i \in 1..n : text[i] = "<" => i = 1 \/ i = a + e + 1
  <2> SUFFICES ASSUME NEW i \in 1..n, text[i] = "<" PROVE i = 1 \/ i = a + e + 1
    OBVIOUS
  <2>1. CASE i \in 1..a
    BY <1>2, <1>3, <2>1, Marks
  <2>2. CASE i \in a + 1..a + e
    <3>1. i - a \in 1..e BY <1>2, <2>2
    <3> QED BY <1>2, <1>3, <2>2, <3>1
  <2>3. CASE i \in a + e + 1..n
    <3>1. i - (a + e) \in 1..c /\ text[i] = Close[i - (a + e)]
      BY <1>2, <1>3, <2>3
    <3>2. i - (a + e) = 1 BY <1>2, <3>1, Marks
    <3> QED BY <1>2, <3>2
  <2> QED BY <1>2, <2>1, <2>2, <2>3
<1>5. \A i \in 1..n : text[i] = ">" => i = a \/ i = n
  <2> SUFFICES ASSUME NEW i \in 1..n, text[i] = ">" PROVE i = a \/ i = n
    OBVIOUS
  <2>1. CASE i \in 1..a
    BY <1>2, <1>3, <2>1, Marks
  <2>2. CASE i \in a + 1..a + e
    <3>1. i - a \in 1..e BY <1>2, <2>2
    <3> QED BY <1>2, <1>3, <2>2, <3>1
  <2>3. CASE i \in a + e + 1..n
    <3>1. i - (a + e) \in 1..c /\ text[i] = Close[i - (a + e)]
      BY <1>2, <1>3, <2>3
    <3>2. i - (a + e) = c BY <1>2, <3>1, Marks
    <3> QED BY <1>2, <3>2
  <2> QED BY <1>2, <2>1, <2>2, <2>3
<1>6. ASSUME NEW m \in {Open, Close}, NEW i \in Nat, i >= 1, i + Len(m) - 1 <= n
      PROVE  /\ SubSeq(text, i, i + Len(m) - 1) \in Seq(Tokens)
             /\ Len(SubSeq(text, i, i + Len(m) - 1)) = Len(m)
             /\ \A k \in 1..Len(m) : SubSeq(text, i, i + Len(m) - 1)[k] = text[i + k - 1]
  <2> DEFINE last == i + Len(m) - 1
  <2>1. last \in Nat /\ i <= last + 1 /\ last <= Len(text) /\ last - i + 1 = Len(m)
    BY <1>2, <1>3, <1>6
  <2> HIDE DEF last
  <2>2. /\ SubSeq(text, i, last) \in Seq(Tokens)
        /\ Len(SubSeq(text, i, last)) = last - i + 1
        /\ \A k \in 1..last - i + 1 : SubSeq(text, i, last)[k] = text[i + k - 1]
    BY <1>3, <1>6, <2>1, PartOf
  <2>3. /\ SubSeq(text, i, last) \in Seq(Tokens)
        /\ Len(SubSeq(text, i, last)) = Len(m)
        /\ \A k \in 1..Len(m) : SubSeq(text, i, last)[k] = text[i + k - 1]
    BY <2>1, <2>2
  <2> QED BY <2>3 DEF last
(* A mark can only be read at one of the two places where a mark was put. *)
<1>7. ASSUME NEW m \in {Open, Close}, NEW i \in Marked(text, m)
      PROVE  /\ i \in Nat /\ i >= 1 /\ i + Len(m) - 1 <= n
             /\ (i = 1 /\ Len(m) = a) \/ (i = a + e + 1 /\ Len(m) = c)
  <2>1. i \in 1..n /\ i + Len(m) - 1 <= n /\ SubSeq(text, i, i + Len(m) - 1) = m
    <3>1. DOMAIN text = 1..n BY <1>2, <1>3, LenProperties
    <3> QED BY <1>2, <1>3, <1>7, <3>1 DEF Marked
  <2>2. Len(m) \in Nat /\ Len(m) > 1 /\ m[1] = "<" /\ m[Len(m)] = ">"
    <3>1. Len(m) \in Nat /\ Len(m) > 1 BY <1>2, <1>7
    <3>2. 1 \in 1..Len(m) /\ Len(m) \in 1..Len(m)
      BY <1>2, <3>1
    <3> QED BY <1>2, <1>7, <3>1, <3>2, Marks
  <2>3. i \in Nat /\ i >= 1 BY <1>2, <2>1
  <2>4. text[i] = "<" /\ text[i + Len(m) - 1] = ">"
    <3>1. \A k \in 1..Len(m) : m[k] = text[i + k - 1]
      <4>1. \A k \in 1..Len(m) : SubSeq(text, i, i + Len(m) - 1)[k] = text[i + k - 1]
        BY <1>7, <1>6, <2>1, <2>3
      <4> QED BY <2>1, <4>1
    <3>2. 1 \in 1..Len(m) /\ Len(m) \in 1..Len(m) /\ i + 1 - 1 = i
      BY <1>2, <2>2, <2>3
    <3> QED BY <1>2, <2>2, <3>1, <3>2
  <2>5. i = 1 \/ i = a + e + 1 BY <1>2, <1>4, <2>1, <2>4
  <2>6. i + Len(m) - 1 \in 1..n BY <1>2, <2>1, <2>2, <2>3
  <2>7. i + Len(m) - 1 = a \/ i + Len(m) - 1 = n
    BY <1>2, <1>5, <2>4, <2>6
  <2>8. CASE i = 1 /\ 1 + Len(m) - 1 = n
    <3>1. m[a + e + 1] = text[a + e + 1] /\ a + e + 1 \in 1..Len(m)
      <4>1. a + e + 1 \in 1..Len(m) /\ 1 + (a + e + 1) - 1 = a + e + 1
        BY <1>2, <2>2, <2>8
      <4> QED BY <1>2, <1>6, <2>1, <2>3, <2>8, <4>1
    <3>2. text[a + e + 1] = Close[1] /\ Close[1] = "<"
      <4>1. a + e + 1 \in a + e + 1..n /\ (a + e + 1) - (a + e) = 1 /\ 1 \in 1..c
        BY <1>2
      <4> QED BY <1>2, <1>3, <4>1, Marks
    <3>3. a + e + 1 = 1 BY <1>2, <1>7, <3>1, <3>2, Marks
    <3> QED BY <1>2, <3>3
  <2>9. i = 1 => Len(m) = a BY <1>2, <2>2, <2>7, <2>8
  <2>10. i = a + e + 1 => Len(m) = c BY <1>2, <2>2, <2>7
  <2> QED BY <1>2, <2>1, <2>3, <2>5, <2>9, <2>10
<1>8. ASSUME NEW i \in Marked(text, Open) PROVE i = 1
  <2>1. i = 1 \/ (i = a + e + 1 /\ a = c) BY <1>2, <1>7
  <2>2. CASE i = a + e + 1 /\ a = c
    <3>1. SubSeq(text, i, i + a - 1) = Open BY <1>2, <1>8 DEF Marked
    <3>2. \A k \in 1..a : Open[k] = text[i + k - 1]
      <4>1. i \in Nat /\ i >= 1 /\ i + Len(Open) - 1 <= n
        BY <1>2, <1>7
      <4>2. \A k \in 1..Len(Open) : SubSeq(text, i, i + Len(Open) - 1)[k] = text[i + k - 1]
        BY <1>6, <4>1
      <4>3. SubSeq(text, i, i + Len(Open) - 1) = Open /\ a = Len(Open)
        BY <1>2, <3>1
      <4> QED BY <4>2, <4>3
    <3>3. \A k \in 1..a : text[i + k - 1] = Close[k]
      <4> SUFFICES ASSUME NEW k \in 1..a PROVE text[i + k - 1] = Close[k]
        OBVIOUS
      <4>1. i + k - 1 \in a + e + 1..n /\ (i + k - 1) - (a + e) = k
        BY <1>2, <2>2
      <4> QED BY <1>2, <1>3, <4>1
    <3>4. Open = Close
      <4>1. \A k \in 1..Len(Open) : Open[k] = Close[k]
        BY <1>2, <3>2, <3>3
      <4> QED BY <1>2, <1>1, <2>2, <4>1, SeqEqual
    <3> QED BY <1>2, <3>4, Marks
  <2> QED BY <1>2, <2>1, <2>2
<1>9. ASSUME NEW i \in Marked(text, Close) PROVE i = a + e + 1
  <2>1. i = a + e + 1 \/ (i = 1 /\ a = c)
    <3>1. (i = 1 /\ Len(Close) = a) \/ (i = a + e + 1 /\ Len(Close) = c)
      BY <1>2, <1>7
    <3> QED BY <1>2, <3>1
  <2>2. CASE i = 1 /\ a = c
    <3>1. SubSeq(text, 1, 1 + c - 1) = Close
      BY <1>2, <1>9, <2>2 DEF Marked
    <3>2. \A k \in 1..c : Close[k] = text[1 + k - 1] /\ 1 + k - 1 = k
      BY <1>2, <1>6, <2>2, <3>1
    <3>3. Open = Close
      <4>1. \A k \in 1..Len(Open) : Open[k] = Close[k]
        BY <1>2, <1>3, <2>2, <3>2
      <4> QED BY <1>2, <1>1, <2>2, <4>1, SeqEqual
    <3> QED BY <1>2, <3>3, Marks
  <2> QED BY <1>2, <2>1, <2>2
<1>10. DOMAIN text = 1..n BY <1>2, <1>3, LenProperties
<1>11. 1 \in Marked(text, Open)
  <2>1. SubSeq(text, 1, 1 + a - 1) = Open
    <3>1. /\ SubSeq(text, 1, 1 + a - 1) \in Seq(Tokens) /\ Len(SubSeq(text, 1, 1 + a - 1)) = a
          /\ \A k \in 1..a : SubSeq(text, 1, 1 + a - 1)[k] = text[1 + k - 1] /\ 1 + k - 1 = k
      <4>1. 1 \in Nat /\ 1 >= 1 /\ 1 + Len(Open) - 1 <= n
        BY <1>2
      <4>2. /\ SubSeq(text, 1, 1 + Len(Open) - 1) \in Seq(Tokens)
            /\ Len(SubSeq(text, 1, 1 + Len(Open) - 1)) = Len(Open)
            /\ \A k \in 1..Len(Open) : SubSeq(text, 1, 1 + Len(Open) - 1)[k] = text[1 + k - 1]
        BY <1>2, <1>6, <4>1
      <4> QED BY <1>2, <4>2
    <3> QED BY <1>2, <1>1, <1>3, <3>1, SeqEqual
  <2>2. 1 \in 1..n /\ 1 + a - 1 <= n BY <1>2
  <2> QED BY <1>2, <1>3, <1>10, <2>1, <2>2 DEF Marked
<1>12. a + e + 1 \in Marked(text, Close)
  <2> DEFINE i == a + e + 1
  <2>1. i \in Nat /\ i >= 1 /\ i + c - 1 <= n /\ i \in 1..n
    BY <1>2
  <2>2. SubSeq(text, i, i + c - 1) = Close
    <3>1. /\ SubSeq(text, i, i + c - 1) \in Seq(Tokens) /\ Len(SubSeq(text, i, i + c - 1)) = c
          /\ \A k \in 1..c : SubSeq(text, i, i + c - 1)[k] = text[i + k - 1]
      BY <1>2, <1>6, <2>1
    <3>2. \A k \in 1..c : text[i + k - 1] = Close[k]
      <4> SUFFICES ASSUME NEW k \in 1..c PROVE text[i + k - 1] = Close[k]
        OBVIOUS
      <4>1. i + k - 1 \in a + e + 1..n /\ (i + k - 1) - (a + e) = k
        BY <1>2
      <4> QED BY <1>2, <1>3, <4>1
    <3> QED BY <1>2, <1>1, <3>1, <3>2, SeqEqual
  <2> QED BY <1>2, <1>3, <1>10, <2>1, <2>2 DEF Marked
<1>13. n - c + 1 = a + e + 1 BY <1>2
<1> QED BY <1>2, <1>3, <1>8, <1>9, <1>11, <1>12, <1>13

(* The evidence a request quotes, its marks once each, and the messages it is     *)
(* followed by (anthropic_messages_client.cpp:122, 164).                          *)
LEMMA QuotedEvidence ==
  ASSUME NEW items \in Seq([content : Seq(STRING)]), NEW text, text = isolated_evidence_json(items)
  PROVE  Marked(text, Open) = {1} /\ Marked(text, Close) = {Len(text) - Len(Close) + 1}
<1> DEFINE encoded == evidence_array(items)
           escaped == [i \in DOMAIN encoded |-> Escaped(encoded[i])]
<1>1. text = Open \o escaped \o Close BY DEF isolated_evidence_json
<1>2. escaped \in Seq(Tokens) /\ \A i \in 1..Len(escaped) : escaped[i] # "<" /\ escaped[i] # ">"
  <2>1. encoded = evidence_array(items) /\ escaped = [i \in DOMAIN encoded |-> Escaped(encoded[i])]
    OBVIOUS
  <2> HIDE DEF encoded, escaped
  <2> QED BY <2>1, EvidenceIsText
<1> HIDE DEF escaped
<1> QED BY <1>1, <1>2, MarksOnce

LEMMA OutgoingBlocks ==
  ASSUME NEW message, message.content \in Seq(Blocks)
  PROVE  /\ outgoing_message(message).role = message.role
         /\ Len(outgoing_message(message).content) = Len(message.content)
         /\ \A b \in DOMAIN outgoing_message(message).content :
              outgoing_message(message).content[b].type # "compact_request"
<1>1. \A block : outgoing_block(block).type # "compact_request"
  BY DEF outgoing_block
<1>2. /\ outgoing_message(message).role = message.role
      /\ outgoing_message(message).content = [i \in DOMAIN message.content |-> outgoing_block(message.content[i])]
  BY DEF outgoing_message
<1>3. DOMAIN message.content = 1..Len(message.content) /\ Len(message.content) \in Nat
  OBVIOUS
<1>4. /\ DOMAIN outgoing_message(message).content = 1..Len(message.content)
      /\ \A b \in DOMAIN message.content :
           outgoing_message(message).content[b] = outgoing_block(message.content[b])
  BY <1>2, <1>3
<1>5. Len(outgoing_message(message).content) = Len(message.content)
  BY <1>3, <1>4
<1> QED BY <1>1, <1>2, <1>3, <1>4, <1>5

(* However the evidence reads, it is sent between its marks, before all that was    *)
(* said, and the model is told what stands between them                            *)
(* (anthropic_messages_client.cpp:122, 141, 164).                                  *)
THEOREM EvidenceIsQuoted == Spec => []EvidenceStaysQuoted
<1>1. AnswerInv => EvidenceStaysQuoted
  <2> SUFFICES ASSUME AnswerInv, Answered("model"), answer.value.ok PROVE EvidenceStaysQuoted
    BY DEF EvidenceStaysQuoted
  <2> DEFINE request == asked.request
             items == request.evidence
             messages == request.messages
             quoted == IF items = <<>> THEN <<>> ELSE <<EvidenceMessage(items)>>
             told == [i \in DOMAIN messages |-> outgoing_message(messages[i])]
             sent == answer.value
             ahead == IF items = <<>> THEN 0 ELSE 1
  <2>1. request \in Requests
    BY CallsNameTools DEF AnswerInv, Posed, Answered
  <2>2. /\ request.system \in Seq(STRING)
        /\ items \in Seq([content : Seq(STRING)])
        /\ messages \in Seq([role : {"User", "Assistant", "System"}, content : Seq(Blocks)])
    BY <2>1, RequestsAreMessages
  <2>3. sent = make_request(request, asked.stream)
    BY AnswerOf DEF Answered
  <2>4. sent.messages = quoted \o told /\ sent.system = System(request)
    BY <2>3, SMTT(20) DEF make_request, InvalidInput
  <2>5. /\ Len(messages) \in Nat /\ DOMAIN messages = 1..Len(messages)
        /\ \A i \in 1..Len(messages) : messages[i].content \in Seq(Blocks)
    <3> DEFINE Content == Seq(Blocks)
               Message == [role : {"User", "Assistant", "System"}, content : Content]
    <3>1. \A m \in Message : m.content \in Content
      OBVIOUS
    <3>2. messages \in Seq(Message) BY <2>2
    <3> HIDE DEF Message, Content
    <3>3. Len(messages) \in Nat /\ DOMAIN messages = 1..Len(messages) /\ \A i \in 1..Len(messages) : messages[i] \in Message
      BY <3>2
    <3>4. \A i \in 1..Len(messages) : messages[i].content \in Content
      BY <3>1, <3>3
    <3> QED BY <3>3, <3>4 DEF Content
  <2>6. /\ sent.messages = quoted \o told
        /\ ahead = (IF items = <<>> THEN 0 ELSE 1)
        /\ items = asked.request.evidence /\ messages = asked.request.messages /\ sent = answer.value
        /\ items = <<>> => quoted = <<>>
        /\ items # <<>> => quoted = <<EvidenceMessage(items)>>
        /\ told = [i \in DOMAIN messages |-> outgoing_message(messages[i])]
    BY <2>4
  <2> HIDE DEF items, messages, quoted, told, sent, ahead
  <2>7. /\ Len(quoted) = ahead /\ ahead \in {0, 1} /\ Len(told) = Len(messages)
        /\ Len(sent.messages) = ahead + Len(messages)
        /\ \A i \in 1..Len(messages) : sent.messages[i + ahead] = outgoing_message(messages[i])
        /\ items # <<>> => sent.messages[1] = EvidenceMessage(items)
    <3> DEFINE All == {EvidenceMessage(items)} \cup {outgoing_message(messages[i]) : i \in DOMAIN messages}
    <3>1. quoted \in Seq(All) /\ Len(quoted) = ahead /\ ahead \in {0, 1}
      <4>1. EvidenceMessage(items) \in All OBVIOUS
      <4> HIDE DEF All
      <4>2. CASE items = <<>>
        BY <2>6, <4>2
      <4>3. CASE items # <<>>
        BY <2>6, <4>1, <4>3
      <4> QED BY <4>2, <4>3
    <3>2. told \in Seq(All) /\ Len(told) = Len(messages)
      BY <2>5, <2>6, SMTT(20)
    <3>3. \A i \in 1..Len(messages) : told[i] = outgoing_message(messages[i])
      BY <2>5, <2>6
    <3>4. items # <<>> => ahead = 1 /\ quoted[1] = EvidenceMessage(items)
      BY <2>6
    <3> HIDE DEF All
    <3>5. /\ Len(quoted \o told) = Len(quoted) + Len(told)
          /\ \A i \in 1..Len(quoted) + Len(told) : (quoted \o told)[i] =
               IF i <= Len(quoted) THEN quoted[i] ELSE told[i - Len(quoted)]
      BY <3>1, <3>2, ConcatProperties
    <3>6. Len(sent.messages) = ahead + Len(messages)
      BY <2>6, <3>1, <3>2, <3>5
    <3>7. ASSUME NEW i \in 1..Len(messages)
          PROVE  sent.messages[i + ahead] = outgoing_message(messages[i])
      <4>1. i + ahead \in 1..Len(quoted) + Len(told) /\ ~(i + ahead <= Len(quoted))
            /\ (i + ahead) - Len(quoted) = i
        BY <2>5, <3>1, <3>2
      <4>2. (quoted \o told)[i + ahead] = told[i]
        BY <3>5, <4>1
      <4>3. sent.messages[i + ahead] = told[i] BY <2>6, <4>2
      <4> QED BY <3>3, <4>3
    <3>8. ASSUME items # <<>> PROVE sent.messages[1] = EvidenceMessage(items)
      <4>1. 1 \in 1..Len(quoted) + Len(told) /\ 1 <= Len(quoted)
        BY <2>5, <3>1, <3>2, <3>4, <3>8
      <4> QED BY <2>6, <3>4, <3>5, <3>8, <4>1
    <3> QED BY <3>1, <3>2, <3>6, <3>7, <3>8
  <2>8. ASSUME items # <<>>
        PROVE  LET text == sent.messages[1].content[1].text
               IN  /\ sent.messages[1].role = "User"
                   /\ Marked(text, Open) = {1} /\ Marked(text, Close) = {Len(text) - Len(Close) + 1}
    <3>1. sent.messages[1].role = "User"
      BY <2>7, <2>8 DEF EvidenceMessage
    <3>2. sent.messages[1].content[1].text = isolated_evidence_json(items)
      BY <2>7, <2>8 DEF EvidenceMessage
    <3> QED BY <2>2, <2>6, <3>1, <3>2, QuotedEvidence
  <2>9. ASSUME items # <<>> PROVE IsSuffix(Instructions, sent.system)
    <3> DEFINE Text == STRING \cup {"lf"}
               apart == IF request.system # <<>> /\ items # <<>> THEN <<"lf", "lf">> ELSE <<>>
    <3>1. STRING \subseteq Text /\ apart \in Seq(Text)
      <4>1. STRING \subseteq Text /\ "lf" \in Text
        OBVIOUS
      <4> HIDE DEF Text
      <4> QED BY <4>1
    <3>2. request.system \in Seq(Text) /\ Instructions \in Seq(Text)
      BY <2>2, <3>1, Marks, SeqMonotonic
    <3>3. sent.system = request.system \o apart \o Instructions
      BY <2>4, <2>6, <2>9 DEF System
    <3> HIDE DEF Text, apart
    <3>4. request.system \o apart \in Seq(Text)
      BY <3>1, <3>2, ConcatProperties
    <3> QED BY <3>2, <3>3, <3>4, SuffixOfConcat
  <2>10. ASSUME NEW i \in DOMAIN messages
         PROVE  /\ sent.messages[i + ahead].role = messages[i].role
                /\ Len(sent.messages[i + ahead].content) = Len(messages[i].content)
                /\ \A b \in DOMAIN sent.messages[i + ahead].content :
                     sent.messages[i + ahead].content[b].type # "compact_request"
    <3>1. sent.messages[i + ahead] = outgoing_message(messages[i]) /\ messages[i].content \in Seq(Blocks)
      BY <2>5, <2>7
    <3> QED BY <3>1, OutgoingBlocks
  <2>11. Len(sent.messages) = Len(messages) + ahead
    BY <2>5, <2>7
  <2> QED BY <2>6, <2>8, <2>9, <2>10, <2>11 DEF EvidenceStaysQuoted
<1> QED BY <1>1, AnswersAreTheCodes, PTL

(* ------------------------------- numbers in order -------------------------------- *)

IsPlaces(f, S, n) ==
  f = [k \in 0..n |-> IF k = 0 THEN <<>> ELSE IF k \in S THEN Append(f[k - 1], k) ELSE f[k - 1]]

LEMMA PlacesIs ==
  ASSUME NEW S, NEW n \in Nat
  PROVE  \E f : IsPlaces(f, S, n) /\ Places(S, n) = f[n]
<1>1. \E f : IsPlaces(f, S, n)
  <2> DEFINE step == [p \in (1..n) \X Seq(Nat) |-> IF p[1] \in S THEN Append(p[2], p[1]) ELSE p[2]]
  <2>1. step \in [(1..n) \X Seq(Nat) -> Seq(Nat)] /\ <<>> \in Seq(Nat)
    <3>1. \A p \in (1..n) \X Seq(Nat) : p[1] \in Nat /\ p[2] \in Seq(Nat)
      OBVIOUS
    <3>2. \A p \in (1..n) \X Seq(Nat) : step[p] \in Seq(Nat)
      BY <3>1
    <3> QED BY <3>2
  <2>2. \A k \in 1..n, s \in Seq(Nat) : step[<<k, s>>] = IF k \in S THEN Append(s, k) ELSE s
    OBVIOUS
  <2> HIDE DEF step
  <2>3. PICK f : Passes(f, <<>>, step, n, Seq(Nat))
    BY <2>1, PassesExist
  <2>4. \A k \in 0..n : f[k] = IF k = 0 THEN <<>> ELSE IF k \in S THEN Append(f[k - 1], k) ELSE f[k - 1]
    <3>1. \A k \in 0..n : k # 0 => k \in 1..n
      OBVIOUS
    <3> QED BY <2>2, <2>3, <3>1 DEF Passes
  <2> QED BY <2>3, <2>4 DEF IsPlaces, Passes
<1> DEFINE upto == CHOOSE f : IsPlaces(f, S, n)
<1>2. IsPlaces(upto, S, n) BY <1>1
<1>3. Places(S, n) = upto[n] BY DEF Places, IsPlaces
<1> QED BY <1>2, <1>3

(* Two of these functions agree as long as their sets do. *)
LEMMA PlacesAgree ==
  ASSUME NEW f, NEW S, NEW m \in Nat, IsPlaces(f, S, m),
         NEW g, NEW Q, NEW n \in Nat, IsPlaces(g, Q, n), m <= n,
         \A k \in 1..m : k \in S <=> k \in Q
  PROVE  \A k \in 0..m : f[k] = g[k]
<1> DEFINE I == {k \in Nat : k <= m => f[k] = g[k]}
<1>1. 0 \in I
  <2>1. f[0] = <<>> /\ g[0] = <<>> BY DEF IsPlaces
  <2> QED BY <2>1
<1>2. ASSUME NEW k \in Nat, k \in I PROVE k + 1 \in I
  <2> SUFFICES ASSUME k + 1 <= m PROVE f[k + 1] = g[k + 1]
    OBVIOUS
  <2>1. f[k] = g[k] /\ (k + 1 \in S <=> k + 1 \in Q) /\ k + 1 # 0 /\ (k + 1) - 1 = k
        /\ k + 1 \in 0..m /\ k + 1 \in 0..n
    BY <1>2
  <2>2. f[k + 1] = IF k + 1 \in S THEN Append(f[k], k + 1) ELSE f[k]
    BY <2>1 DEF IsPlaces
  <2>3. g[k + 1] = IF k + 1 \in Q THEN Append(g[k], k + 1) ELSE g[k]
    BY <2>1 DEF IsPlaces
  <2> QED BY <2>1, <2>2, <2>3
<1> HIDE DEF I
<1>3. \A k \in Nat : k \in I BY <1>1, <1>2, SetInduction
<1> QED BY <1>3 DEF I

LEMMA PlacesSame ==
  ASSUME NEW S, NEW Q, NEW n \in Nat, \A k \in 1..n : k \in S <=> k \in Q
  PROVE  Places(S, n) = Places(Q, n)
<1>1. PICK f : IsPlaces(f, S, n) /\ Places(S, n) = f[n]
  BY PlacesIs
<1>2. PICK g : IsPlaces(g, Q, n) /\ Places(Q, n) = g[n]
  BY PlacesIs
<1>3. n <= n /\ n \in 0..n OBVIOUS
<1>4. \A k \in 0..n : f[k] = g[k] BY <1>1, <1>2, <1>3, PlacesAgree
<1> QED BY <1>1, <1>2, <1>3, <1>4

LEMMA PlacesStep ==
  ASSUME NEW S, NEW n \in Nat
  PROVE  /\ Places(S, 0) = <<>>
         /\ n + 1 \in S => Places(S, n + 1) = Append(Places(S, n), n + 1)
         /\ n + 1 \notin S => Places(S, n + 1) = Places(S, n)
<1>1. PICK f : IsPlaces(f, S, n) /\ Places(S, n) = f[n]
  BY PlacesIs
<1>2. PICK g : IsPlaces(g, S, n + 1) /\ Places(S, n + 1) = g[n + 1]
  BY PlacesIs
<1>3. n <= n + 1 /\ n \in 0..n /\ n + 1 \in Nat /\ n + 1 \in 0..n + 1 /\ n + 1 # 0 /\ (n + 1) - 1 = n
  OBVIOUS
<1>4. \A k \in 0..n : f[k] = g[k] BY <1>1, <1>2, <1>3, PlacesAgree
<1>5. g[n + 1] = IF n + 1 \in S THEN Append(g[n], n + 1) ELSE g[n]
  BY <1>2, <1>3 DEF IsPlaces
<1>6. Places(S, 0) = <<>>
  <2>1. PICK h : IsPlaces(h, S, 0) /\ Places(S, 0) = h[0]
    BY PlacesIs
  <2> QED BY <2>1 DEF IsPlaces
<1> QED BY <1>1, <1>2, <1>3, <1>4, <1>5, <1>6

(* They are places of the set, and those up to m come first. *)
LEMMA PlacesFirst ==
  ASSUME NEW S, NEW m \in Nat, NEW n \in Nat, m <= n
  PROVE  /\ Places(S, n) \in Seq(S \cap 1..n)
         /\ Len(Places(S, m)) \in Nat /\ Len(Places(S, n)) \in Nat
         /\ DOMAIN Places(S, m) = 1..Len(Places(S, m)) /\ DOMAIN Places(S, n) = 1..Len(Places(S, n))
         /\ Len(Places(S, m)) <= Len(Places(S, n))
         /\ \A i \in 1..Len(Places(S, m)) : Places(S, n)[i] = Places(S, m)[i]
<1> DEFINE I == {k \in Nat : Places(S, k) \in Seq(S \cap 1..k)}
<1>1. 0 \in I
  <2>1. Places(S, 0) = <<>> /\ <<>> \in Seq(S \cap 1..0)
    BY PlacesStep
  <2> QED BY <2>1
<1>2. ASSUME NEW k \in Nat, k \in I PROVE k + 1 \in I
  <2>1. Places(S, k) \in Seq(S \cap 1..k) /\ S \cap 1..k \subseteq S \cap 1..k + 1
    BY <1>2
  <2>2. Places(S, k) \in Seq(S \cap 1..k + 1)
    BY <2>1, SeqMonotonic
  <2>3. CASE k + 1 \in S
    <3>1. Places(S, k + 1) = Append(Places(S, k), k + 1) /\ k + 1 \in S \cap 1..k + 1
      BY <2>3, PlacesStep
    <3> QED BY <2>2, <3>1
  <2>4. CASE k + 1 \notin S
    BY <2>2, <2>4, PlacesStep
  <2> QED BY <2>3, <2>4
<1> HIDE DEF I
<1>3. \A k \in Nat : Places(S, k) \in Seq(S \cap 1..k)
  <2>1. \A k \in Nat : k \in I BY <1>1, <1>2, SetInduction
  <2> QED BY <2>1 DEF I
<1>4. \A k \in Nat : Len(Places(S, k)) \in Nat /\ DOMAIN Places(S, k) = 1..Len(Places(S, k))
  BY <1>3
<1> DEFINE J == {k \in Nat : m <= k => /\ Len(Places(S, m)) <= Len(Places(S, k))
                                      /\ \A i \in 1..Len(Places(S, m)) : Places(S, k)[i] = Places(S, m)[i]}
<1>5. 0 \in J
  <2> SUFFICES ASSUME m <= 0 PROVE /\ Len(Places(S, m)) <= Len(Places(S, 0))
                                   /\ \A i \in 1..Len(Places(S, m)) : Places(S, 0)[i] = Places(S, m)[i]
    OBVIOUS
  <2>1. m = 0 OBVIOUS
  <2> QED BY <1>4, <2>1
<1>6. ASSUME NEW k \in Nat, k \in J PROVE k + 1 \in J
  <2> SUFFICES ASSUME m <= k + 1
               PROVE /\ Len(Places(S, m)) <= Len(Places(S, k + 1))
                     /\ \A i \in 1..Len(Places(S, m)) : Places(S, k + 1)[i] = Places(S, m)[i]
    OBVIOUS
  <2>1. CASE m = k + 1
    BY <1>4, <2>1
  <2>2. CASE m <= k
    <3>1. /\ Len(Places(S, m)) <= Len(Places(S, k))
          /\ \A i \in 1..Len(Places(S, m)) : Places(S, k)[i] = Places(S, m)[i]
      BY <1>6, <2>2
    <3>2. CASE k + 1 \in S
      <4> DEFINE p == Places(S, k)
      <4>1. p \in Seq(S \cap 1..k) /\ Places(S, k + 1) = Append(p, k + 1)
        BY <1>3, <3>2, PlacesStep
      <4>2. Len(Append(p, k + 1)) = Len(p) + 1 /\ \A i \in 1..Len(p) : Append(p, k + 1)[i] = p[i]
        BY <4>1
      <4>3. Len(p) = Len(Places(S, k)) /\ p = Places(S, k) /\ Len(Places(S, m)) \in Nat /\ Len(p) \in Nat
        BY <1>4
      <4> HIDE DEF p
      <4>4. Len(Places(S, m)) <= Len(Places(S, k + 1))
        BY <3>1, <4>1, <4>2, <4>3
      <4>5. \A i \in 1..Len(Places(S, m)) : i \in 1..Len(p)
        BY <3>1, <4>3
      <4> QED BY <3>1, <4>1, <4>2, <4>3, <4>4, <4>5
    <3>3. CASE k + 1 \notin S
      BY <3>1, <3>3, PlacesStep
    <3> QED BY <3>2, <3>3
  <2> QED BY <2>1, <2>2
<1> HIDE DEF J
<1>7. /\ Len(Places(S, m)) <= Len(Places(S, n))
      /\ \A i \in 1..Len(Places(S, m)) : Places(S, n)[i] = Places(S, m)[i]
  <2>1. \A k \in Nat : k \in J BY <1>5, <1>6, SetInduction
  <2> QED BY <2>1 DEF J
<1> QED BY <1>3, <1>4, <1>7

(* ------------------------------- where it begins --------------------------------- *)

LEMMA SinceIs ==
  ASSUME NEW S, S \subseteq Nat \ {0}, NEW k \in Nat, k >= 1
  PROVE  /\ Since(S, k) \in 1..k
         /\ Since(S, 1) = 1
         /\ k \in S => Since(S, k + 1) = k + 1
         /\ k \notin S => Since(S, k + 1) = Since(S, k)
         /\ \A j \in S : ~(Since(S, k) <= j /\ j < k)
<1> DEFINE Before(n) == {0} \cup {j \in S : j < n}
<1>1. \A n \in Nat : Since(S, n) = 1 + Max(Before(n))
  BY DEF Since
<1>2. \A n \in Nat \ {0} : Before(n) \subseteq 0..n - 1 /\ n - 1 \in Nat /\ Before(n) # {}
  <2> SUFFICES ASSUME NEW n \in Nat \ {0}
               PROVE  Before(n) \subseteq 0..n - 1 /\ n - 1 \in Nat /\ Before(n) # {}
    OBVIOUS
  <2>1. \A j \in S : j \in Nat OBVIOUS
  <2>2. \A j \in Before(n) : j \in 0..n - 1
    BY <2>1
  <2>3. 0 \in Before(n) OBVIOUS
  <2>4. n - 1 \in Nat OBVIOUS
  <2> HIDE DEF Before
  <2> QED BY <2>2, <2>3, <2>4
<1>3. \A n \in Nat \ {0} : Max(Before(n)) \in Before(n) /\ \A y \in Before(n) : Max(Before(n)) >= y
  BY <1>2, MaxIsGreatest
<1>4. Max(Before(k)) \in 0..k - 1 BY <1>2, <1>3
<1>5. Since(S, k) \in 1..k BY <1>1, <1>4
<1>6. Since(S, 1) = 1
  <2>1. Max(Before(1)) \in 0..0 BY <1>2, <1>3
  <2> QED BY <1>1, <2>1
<1>7. ASSUME k \in S PROVE Since(S, k + 1) = k + 1
  <2>1. k \in Before(k + 1) /\ Max(Before(k + 1)) \in 0..k /\ Max(Before(k + 1)) >= k
    BY <1>2, <1>3, <1>7
  <2> QED BY <1>1, <2>1
<1>8. ASSUME k \notin S PROVE Since(S, k + 1) = Since(S, k)
  <2>1. \A j \in S : (j < k + 1 <=> j < k)
    <3>1. \A j \in S : j \in Nat /\ j # k BY <1>8
    <3> QED BY <3>1
  <2>2. k + 1 \in Nat OBVIOUS
  <2>3. \A j : j \in Before(k + 1) <=> j \in Before(k)
    BY <2>1
  <2> HIDE DEF Before
  <2>4. Before(k + 1) = Before(k) BY <2>3
  <2> QED BY <1>1, <2>2, <2>4
<1>9. \A j \in S : ~(Since(S, k) <= j /\ j < k)
  <2> SUFFICES ASSUME NEW j \in S, j < k PROVE ~(Since(S, k) <= j)
    OBVIOUS
  <2>1. j \in Before(k) /\ j \in Nat OBVIOUS
  <2>2. Max(Before(k)) >= j /\ Max(Before(k)) \in 0..k - 1
    BY <1>3, <1>4, <2>1
  <2> QED BY <1>1, <2>1, <2>2
<1> QED BY <1>5, <1>6, <1>7, <1>8, <1>9

(* ------------------------------ the lines of a wire ------------------------------ *)

LEMMA FieldTyped ==
  ASSUME NEW line \in Seq(STRING)
  PROVE  /\ FieldOf(line).value \in Seq(STRING)
         /\ line # <<>> /\ Head(line) = ":" => FieldOf(line).field = <<>>
<1> DEFINE colons == {i \in DOMAIN line : line[i] = ":"}
           cut    == IF colons = {} THEN Len(line) ELSE Min(colons) - 1
           rest   == IF colons = {} THEN <<>> ELSE SubSeq(line, cut + 2, Len(line))
<1>1. /\ FieldOf(line).value = IF rest # <<>> /\ Head(rest) = " " THEN Tail(rest) ELSE rest
      /\ FieldOf(line).field = SubSeq(line, 1, cut)
  BY DEF FieldOf
<1>2. colons \subseteq 1..Len(line) /\ Len(line) \in Nat
  OBVIOUS
<1>3. colons # {} => Min(colons) \in colons /\ \A y \in colons : Min(colons) <= y
  <2>1. colons \subseteq Nat BY <1>2
  <2> QED BY <2>1, MinIsLeast
<1>4. rest \in Seq(STRING)
  <2>1. CASE colons = {}
    BY <2>1
  <2>2. CASE colons # {}
    <3>1. cut + 2 \in 1..Len(line) + 1 /\ cut \in Nat
      BY <1>2, <1>3, <2>2
    <3>2. rest = SubSeq(line, cut + 2, Len(line))
      BY <2>2
    <3> HIDE DEF cut, rest, colons
    <3>3. cut + 2 \in Nat /\ cut + 2 >= 1 /\ cut + 2 <= Len(line) + 1 /\ Len(line) \in Nat
      BY <1>2, <3>1
    <3> QED BY <3>2, <3>3, PartOf
  <2> QED BY <2>1, <2>2
<1>5. FieldOf(line).value \in Seq(STRING)
  <2> HIDE DEF rest
  <2>1. rest # <<>> => Tail(rest) \in Seq(STRING)
    BY <1>4
  <2> QED BY <1>1, <1>4, <2>1
<1>6. ASSUME line # <<>>, Head(line) = ":" PROVE FieldOf(line).field = <<>>
  <2>1. 1 \in colons BY <1>6
  <2>2. Min(colons) = 1
    <3> HIDE DEF colons
    <3> DEFINE least == Min(colons)
    <3>1. least \in colons /\ least <= 1 BY <1>3, <2>1
    <3>2. least \in 1..Len(line) BY <1>2, <3>1
    <3>3. least = Min(colons) OBVIOUS
    <3> HIDE DEF least
    <3>4. least = 1 BY <1>2, <3>1, <3>2
    <3> QED BY <3>3, <3>4
  <2>3. cut = 0
    <3> HIDE DEF colons
    <3> QED BY <2>1, <2>2
  <2>4. SubSeq(line, 1, 0) = <<>>
    <3>1. SubSeq(line, 1, 0) \in Seq(STRING) /\ Len(SubSeq(line, 1, 0)) = 0 - 1 + 1
      BY PartOf
    <3> QED BY <3>1
  <2> HIDE DEF cut
  <2> QED BY <1>1, <2>3, <2>4
<1> QED BY <1>5, <1>6

LEMMA ValuesTyped ==
  ASSUME NEW lines \in Seq(Seq(STRING)), NEW first \in Nat \ {0}, NEW last \in Nat, last <= Len(lines),
         NEW field
  PROVE  ValuesOf(lines, first, last, field) \in Seq(Seq(STRING))
<1> DEFINE S == {i \in first..last : FieldOf(lines[i]).field = field}
           held == Places(S, last)
<1>1. ValuesOf(lines, first, last, field) = [i \in DOMAIN held |-> FieldOf(lines[held[i]]).value]
  BY DEF ValuesOf
<1>2. held \in Seq(S \cap 1..last)
  <2>1. last <= last OBVIOUS
  <2> HIDE DEF S
  <2> QED BY <2>1, PlacesFirst
<1> HIDE DEF held, S
<1>3. DOMAIN held = 1..Len(held) /\ Len(held) \in Nat /\ \A i \in DOMAIN held : held[i] \in 1..last
  BY <1>2
<1>4. \A k \in 1..last : lines[k] \in Seq(STRING)
  OBVIOUS
<1>5. \A i \in DOMAIN held : FieldOf(lines[held[i]]).value \in Seq(STRING)
  BY <1>3, <1>4, FieldTyped
<1> QED BY <1>1, <1>3, <1>5

LEMMA ValuesStep ==
  ASSUME NEW lines, NEW first \in Nat \ {0}, NEW last \in Nat, first <= last + 1, NEW field
  PROVE  /\ ValuesOf(lines, last + 1, last, field) = <<>>
         /\ FieldOf(lines[last + 1]).field = field =>
              ValuesOf(lines, first, last + 1, field)
                = Append(ValuesOf(lines, first, last, field), FieldOf(lines[last + 1]).value)
         /\ FieldOf(lines[last + 1]).field # field =>
              ValuesOf(lines, first, last + 1, field) = ValuesOf(lines, first, last, field)
<1> DEFINE S(from, n) == {i \in from..n : FieldOf(lines[i]).field = field}
           old == Places(S(first, last), last)
           new == Places(S(first, last + 1), last + 1)
<1>1. \A from, n : ValuesOf(lines, from, n, field)
                     = [i \in DOMAIN Places(S(from, n), n) |-> FieldOf(lines[Places(S(from, n), n)[i]]).value]
  BY DEF ValuesOf
<1>2. ValuesOf(lines, last + 1, last, field) = <<>>
  <2>1. Places({}, last) = <<>>
    <3> DEFINE I == {n \in Nat : Places({}, n) = <<>>}
    <3>1. 0 \in I BY PlacesStep
    <3>2. ASSUME NEW n \in Nat, n \in I PROVE n + 1 \in I
      BY <3>2, PlacesStep
    <3> HIDE DEF I
    <3>3. last \in I BY <3>1, <3>2, SetInduction
    <3> QED BY <3>3 DEF I
  <2>2. S(last + 1, last) = {} OBVIOUS
  <2> HIDE DEF S
  <2>3. Places(S(last + 1, last), last) = <<>>
    BY <2>1, <2>2
  <2> QED BY <1>1, <2>3
<1>3. Places(S(first, last + 1), last) = old
  <2>1. \A k \in 1..last : k \in S(first, last + 1) <=> k \in S(first, last)
    OBVIOUS
  <2> HIDE DEF S
  <2> QED BY <2>1, PlacesSame
<1>4. /\ ValuesOf(lines, first, last, field) = [i \in DOMAIN old |-> FieldOf(lines[old[i]]).value]
      /\ ValuesOf(lines, first, last + 1, field) = [i \in DOMAIN new |-> FieldOf(lines[new[i]]).value]
  BY <1>1
<1>5. last + 1 \in S(first, last + 1) <=> FieldOf(lines[last + 1]).field = field
  OBVIOUS
<1>6. /\ last + 1 \in S(first, last + 1) => new = Append(Places(S(first, last + 1), last), last + 1)
      /\ last + 1 \notin S(first, last + 1) => new = Places(S(first, last + 1), last)
  <2> HIDE DEF S
  <2> QED BY PlacesStep
<1>7. old \in Seq(Nat)
  <2>1. old \in Seq(S(first, last) \cap 1..last)
    <3>1. last <= last OBVIOUS
    <3> HIDE DEF S
    <3> QED BY <3>1, PlacesFirst
  <2>2. S(first, last) \cap 1..last \subseteq Nat
    OBVIOUS
  <2> HIDE DEF S, old
  <2> QED BY <2>1, <2>2, SeqMonotonic
<1> HIDE DEF S, old, new
<1>8. ASSUME FieldOf(lines[last + 1]).field = field
      PROVE  ValuesOf(lines, first, last + 1, field)
               = Append(ValuesOf(lines, first, last, field), FieldOf(lines[last + 1]).value)
  <2> DEFINE v == [i \in DOMAIN old |-> FieldOf(lines[old[i]]).value]
             x == FieldOf(lines[last + 1]).value
             w == [i \in DOMAIN new |-> FieldOf(lines[new[i]]).value]
             T == {FieldOf(lines[i]).value : i \in Nat}
  <2>1. new = Append(old, last + 1) BY <1>3, <1>5, <1>6, <1>8
  <2>2. /\ Len(old) \in Nat /\ DOMAIN old = 1..Len(old) /\ DOMAIN new = 1..Len(old) + 1
        /\ new[Len(old) + 1] = last + 1 /\ \A i \in 1..Len(old) : new[i] = old[i] /\ old[i] \in Nat
    BY <1>7, <2>1
  <2>3. v \in Seq(T) /\ Len(v) = Len(old) /\ \A i \in 1..Len(old) : v[i] = FieldOf(lines[old[i]]).value
    BY <2>2
  <2>4. w \in Seq(T) /\ Len(w) = Len(old) + 1
        /\ \A i \in 1..Len(old) + 1 : w[i] = FieldOf(lines[new[i]]).value
    <3>1. \A i \in 1..Len(old) + 1 : new[i] \in Nat
      BY <2>2
    <3> QED BY <2>2, <3>1
  <2>5. x \in T OBVIOUS
  <2>6. v = [i \in DOMAIN old |-> FieldOf(lines[old[i]]).value] /\ x = FieldOf(lines[last + 1]).value
        /\ w = [i \in DOMAIN new |-> FieldOf(lines[new[i]]).value]
    OBVIOUS
  <2> HIDE DEF v, w, x, T
  <2>7. Append(v, x) \in Seq(T) /\ Len(Append(v, x)) = Len(old) + 1
        /\ Append(v, x)[Len(old) + 1] = x /\ \A i \in 1..Len(old) : Append(v, x)[i] = v[i]
    BY <2>2, <2>3, <2>5
  <2>8. \A i \in 1..Len(w) : w[i] = Append(v, x)[i]
    <3> SUFFICES ASSUME NEW i \in 1..Len(w) PROVE w[i] = Append(v, x)[i]
      OBVIOUS
    <3>1. CASE i = Len(old) + 1
      BY <2>2, <2>4, <2>6, <2>7, <3>1
    <3>2. CASE i # Len(old) + 1
      <4>1. i \in 1..Len(old) /\ i \in 1..Len(old) + 1
        BY <2>2, <2>4, <3>2
      <4>2. w[i] = FieldOf(lines[new[i]]).value /\ new[i] = old[i]
        BY <2>2, <2>4, <4>1
      <4> QED BY <2>3, <2>7, <4>1, <4>2
    <3> QED BY <3>1, <3>2
  <2>9. w = Append(v, x) BY <2>4, <2>7, <2>8, SeqEqual
  <2> QED BY <1>4, <2>6, <2>9
<1>9. ASSUME FieldOf(lines[last + 1]).field # field
      PROVE  ValuesOf(lines, first, last + 1, field) = ValuesOf(lines, first, last, field)
  <2>1. new = old BY <1>3, <1>5, <1>6, <1>9
  <2> QED BY <1>4, <2>1
<1> QED BY <1>2, <1>8, <1>9

(* ------------------------------ what an event is told ---------------------------- *)

Told(told, line) ==
  IF line = <<>> THEN [pieces |-> <<>>, names |-> <<>>]
  ELSE [pieces |-> IF FieldOf(line).field = <<"data">> THEN Append(told.pieces, FieldOf(line).value)
                   ELSE told.pieces,
        names  |-> IF FieldOf(line).field = <<"event">> THEN Append(told.names, FieldOf(line).value)
                   ELSE told.names]

NothingTold == [pieces |-> <<>>, names |-> <<>>]

LEMMA ToldFirst ==
  ASSUME NEW lines \in Seq(Seq(STRING))
  PROVE  ToldAt(lines, 1) = NothingTold
<1> DEFINE blanks == Blanks(lines)
<1>1. blanks \subseteq Nat \ {0} /\ 1 \in Nat /\ 1 >= 1
  BY DEF Blanks
<1>2. ToldAt(lines, 1) = [pieces |-> ValuesOf(lines, Since(blanks, 1), 1 - 1, <<"data">>),
                          names  |-> ValuesOf(lines, Since(blanks, 1), 1 - 1, <<"event">>)]
  BY DEF ToldAt
<1> HIDE DEF blanks
<1>3. Since(blanks, 1) = 1 BY <1>1, SinceIs
<1>4. \A field : ValuesOf(lines, 0 + 1, 0, field) = <<>>
  <2>1. 0 + 1 \in Nat \ {0} /\ 0 \in Nat /\ 0 + 1 <= 0 + 1
    OBVIOUS
  <2> QED BY <2>1, ValuesStep
<1>5. \A field : ValuesOf(lines, 1, 0, field) = <<>>
  BY <1>4
<1> QED BY <1>2, <1>3, <1>5 DEF NothingTold

LEMMA ToldStep ==
  ASSUME NEW lines \in Seq(Seq(STRING)), NEW k \in DOMAIN lines
  PROVE  /\ ToldAt(lines, k).pieces \in Seq(Seq(STRING)) /\ ToldAt(lines, k).names \in Seq(Seq(STRING))
         /\ ToldAt(lines, k + 1) = Told(ToldAt(lines, k), lines[k])
<1> DEFINE blanks == Blanks(lines)
           first == Since(blanks, k)
<1>1. /\ k \in Nat /\ k >= 1 /\ k - 1 \in Nat /\ (k - 1) + 1 = k /\ (k + 1) - 1 = k /\ k - 1 <= Len(lines)
      /\ blanks \subseteq Nat \ {0} /\ (k \in blanks <=> lines[k] = <<>>) /\ 1 - 1 = 0 /\ 1 - 1 + 1 = 1
  BY DEF Blanks
<1>2. /\ first \in 1..k /\ Since(blanks, 1) = 1
      /\ k \in blanks => Since(blanks, k + 1) = k + 1
      /\ k \notin blanks => Since(blanks, k + 1) = first
  <2> HIDE DEF blanks
  <2> QED BY <1>1, SinceIs
<1>3. \A n : ToldAt(lines, n) = [pieces |-> ValuesOf(lines, Since(blanks, n), n - 1, <<"data">>),
                                  names  |-> ValuesOf(lines, Since(blanks, n), n - 1, <<"event">>)]
  BY DEF ToldAt
<1> HIDE DEF blanks, first
<1>4. first \in Nat \ {0} /\ first <= (k - 1) + 1 /\ first = Since(blanks, k)
  <2>1. first = Since(blanks, k) BY DEF first
  <2> QED BY <1>1, <1>2, <2>1
<1>6. \A field : ValuesOf(lines, first, k - 1, field) \in Seq(Seq(STRING))
  BY <1>1, <1>4, ValuesTyped
<1>7. CASE lines[k] = <<>>
  <2>1. Since(blanks, k + 1) = k + 1 BY <1>1, <1>2, <1>7
  <2>2. \A field : ValuesOf(lines, k + 1, k, field) = <<>>
    <3>1. k + 1 \in Nat \ {0} /\ k \in Nat /\ k + 1 <= k + 1
      BY <1>1
    <3> QED BY <3>1, ValuesStep
  <2>3. ToldAt(lines, k + 1) = [pieces |-> <<>>, names |-> <<>>]
    BY <1>1, <1>3, <2>1, <2>2
  <2>4. Told(ToldAt(lines, k), lines[k]) = [pieces |-> <<>>, names |-> <<>>]
    BY <1>7 DEF Told
  <2> QED BY <1>3, <1>4, <1>6, <2>3, <2>4
<1>8. CASE lines[k] # <<>>
  <2>1. Since(blanks, k + 1) = first BY <1>1, <1>2, <1>8
  <2>2. ASSUME NEW field
        PROVE  ValuesOf(lines, first, k, field)
                 = IF FieldOf(lines[k]).field = field
                   THEN Append(ValuesOf(lines, first, k - 1, field), FieldOf(lines[k]).value)
                   ELSE ValuesOf(lines, first, k - 1, field)
    <3> DEFINE last == k - 1
    <3>1. last \in Nat /\ last + 1 = k /\ first <= last + 1 /\ last = k - 1
      BY <1>1, <1>4
    <3> HIDE DEF last
    <3>2. first \in Nat \ {0} /\ first <= last + 1
      BY <1>4, <3>1
    <3>3. FieldOf(lines[last + 1]).field = field =>
            ValuesOf(lines, first, last + 1, field)
              = Append(ValuesOf(lines, first, last, field), FieldOf(lines[last + 1]).value)
      BY <3>1, <3>2, ValuesStep, ZenonT(30)
    <3>4. FieldOf(lines[last + 1]).field # field =>
            ValuesOf(lines, first, last + 1, field) = ValuesOf(lines, first, last, field)
      BY <3>1, <3>2, ValuesStep, SMTT(20)
    <3> QED BY <3>1, <3>3, <3>4
  <2> DEFINE told == ToldAt(lines, k)
  <2>3. told = [pieces |-> ValuesOf(lines, first, k - 1, <<"data">>),
                names  |-> ValuesOf(lines, first, k - 1, <<"event">>)]
    BY <1>3, <1>4
  <2>4. ToldAt(lines, k + 1) = [pieces |-> ValuesOf(lines, first, k, <<"data">>),
                                names  |-> ValuesOf(lines, first, k, <<"event">>)]
    BY <1>1, <1>3, <2>1
  <2>5. /\ told.pieces = ValuesOf(lines, first, k - 1, <<"data">>)
        /\ told.names = ValuesOf(lines, first, k - 1, <<"event">>)
    BY <2>3
  <2> HIDE DEF told
  <2>6. ToldAt(lines, k + 1) = Told(told, lines[k])
    BY <1>8, <2>2, <2>4, <2>5 DEF Told
  <2> QED BY <1>6, <2>5, <2>6 DEF told
<1> QED BY <1>7, <1>8

(* -------------------------------- pieces of data --------------------------------- *)

Bytes == STRING \cup {"lf"}

LEMMA JoinedAppend ==
  ASSUME NEW pieces \in Seq(Seq(STRING)), NEW piece \in Seq(STRING)
  PROVE  /\ Joined(pieces) \in Seq(Bytes)
         /\ pieces = <<>> => Joined(Append(pieces, piece)) = piece
         /\ pieces # <<>> => Joined(Append(pieces, piece)) = Joined(pieces) \o (<<"lf">> \o piece)
<1> DEFINE Set(all) == [i \in DOMAIN all |-> IF i = 1 THEN all[i] ELSE <<"lf">> \o all[i]]
           more == Append(pieces, piece)
           n == Len(pieces)
           last == IF pieces = <<>> THEN piece ELSE <<"lf">> \o piece
<1>1. \A all : Joined(all) = FlattenSeq(Set(all))
  BY DEF Joined
<1>2. /\ n \in Nat /\ DOMAIN pieces = 1..n /\ DOMAIN more = 1..n + 1 /\ more[n + 1] = piece
      /\ \A i \in 1..n : more[i] = pieces[i] /\ pieces[i] \in Seq(STRING)
      /\ (pieces = <<>> <=> n = 0)
  OBVIOUS
<1>3. \A s \in Seq(STRING) : s \in Seq(Bytes) /\ <<"lf">> \o s \in Seq(Bytes)
  <2> SUFFICES ASSUME NEW s \in Seq(STRING) PROVE s \in Seq(Bytes) /\ <<"lf">> \o s \in Seq(Bytes)
    OBVIOUS
  <2>1. STRING \subseteq Bytes /\ "lf" \in Bytes
    BY DEF Bytes
  <2>2. s \in Seq(Bytes) /\ <<"lf">> \in Seq(Bytes)
    <3> HIDE DEF Bytes
    <3>1. s \in Seq(Bytes) BY <2>1, SeqMonotonic
    <3>2. <<"lf">> \in Seq(Bytes) BY <2>1
    <3> QED BY <3>1, <3>2
  <2> QED BY <2>2, ConcatProperties
<1> HIDE DEF more, n
<1>4. Set(pieces) \in Seq(Seq(Bytes)) /\ last \in Seq(Bytes)
  <2>1. \A i \in 1..n : Set(pieces)[i] \in Seq(Bytes)
    BY <1>2, <1>3
  <2>2. last \in Seq(Bytes) BY <1>3
  <2>3. DOMAIN Set(pieces) = 1..n BY <1>2
  <2>4. Set(pieces) = [i \in 1..n |-> Set(pieces)[i]]
    BY <1>2
  <2> HIDE DEF Set
  <2>5. Set(pieces) \in [1..n -> Seq(Bytes)]
    BY <2>1, <2>4
  <2>6. Set(pieces) \in Seq(Seq(Bytes)) BY <1>2, <2>5
  <2> QED BY <2>2, <2>6
<1>5. Set(more) = Append(Set(pieces), last)
  <2>1. /\ DOMAIN Set(more) = 1..n + 1 /\ Set(more) = [i \in 1..n + 1 |-> Set(more)[i]]
        /\ DOMAIN Set(pieces) = 1..n
    BY <1>2
  <2>2. \A i \in 1..n : Set(more)[i] = Set(pieces)[i]
    BY <1>2
  <2>3. Set(more)[n + 1] = last
    <3>1. CASE n = 0
      BY <1>2, <3>1
    <3>2. CASE n # 0
      BY <1>2, <3>2
    <3> QED BY <3>1, <3>2
  <2> HIDE DEF Set, last
  <2>4. \A i \in 1..n : Set(pieces)[i] \in Seq(Bytes)
    BY <1>2, <1>4, <2>1
  <2>5. \A i \in 1..n + 1 : Set(more)[i] \in Seq(Bytes)
    <3> SUFFICES ASSUME NEW i \in 1..n + 1 PROVE Set(more)[i] \in Seq(Bytes)
      OBVIOUS
    <3>1. i = n + 1 \/ i \in 1..n BY <1>2
    <3> QED BY <1>4, <2>2, <2>3, <2>4, <3>1
  <2>6. Set(more) \in Seq(Seq(Bytes)) /\ Len(Set(more)) = n + 1
    <3>1. Set(more) \in [1..n + 1 -> Seq(Bytes)] /\ n + 1 \in Nat
      BY <1>2, <2>1, <2>5
    <3> QED BY <3>1
  <2>7. Len(Set(pieces)) = n BY <1>2, <1>4, <2>1
  <2>8. /\ Append(Set(pieces), last) \in Seq(Seq(Bytes)) /\ Len(Append(Set(pieces), last)) = n + 1
        /\ Append(Set(pieces), last)[n + 1] = last
        /\ \A i \in 1..n : Append(Set(pieces), last)[i] = Set(pieces)[i]
    BY <1>2, <1>4, <2>7
  <2>9. \A i \in 1..n + 1 : Set(more)[i] = Append(Set(pieces), last)[i]
    <3> SUFFICES ASSUME NEW i \in 1..n + 1 PROVE Set(more)[i] = Append(Set(pieces), last)[i]
      OBVIOUS
    <3>1. i = n + 1 \/ i \in 1..n BY <1>2
    <3> QED BY <2>2, <2>3, <2>8, <3>1
  <2> QED BY <2>6, <2>8, <2>9, SeqEqual
<1>6. FlattenSeq(Set(pieces)) \in Seq(Bytes) /\ FlattenSeq(Set(more)) = FlattenSeq(Set(pieces)) \o last
  <2> HIDE DEF Set, last
  <2> QED BY <1>4, <1>5, FlattenAppend
<1>7. Joined(pieces) \in Seq(Bytes) /\ Joined(more) = Joined(pieces) \o last
  <2> HIDE DEF Set, last
  <2> QED BY <1>1, <1>6
<1>8. ASSUME pieces = <<>> PROVE Joined(more) = piece
  <2>1. Set(pieces) = <<>> BY <1>2, <1>8
  <2>2. Joined(pieces) = <<>> BY <1>1, <2>1 DEF FlattenSeq
  <2>3. last = piece /\ <<>> \o piece = piece
    BY <1>8
  <2> HIDE DEF Set, last
  <2> QED BY <1>7, <2>2, <2>3
<1> QED BY <1>7, <1>8 DEF more

(* ------------------------------- lines that were read ---------------------------- *)

Decoders ==
  [line : Seq(STRING), name : Seq(STRING), data : Seq(Bytes), has : BOOLEAN, cr : BOOLEAN,
   wire : Nat, error : BOOLEAN, out : Seq([name : Seq(STRING), data : Seq(Bytes)])]

EventAt(lines, k) ==
  [name |-> NameOf(ToldAt(lines, k).names), data |-> Joined(ToldAt(lines, k).pieces)]

(* What has come out after m lines. *)
OutAt(lines, m) ==
  [e \in DOMAIN Places(EventEnds(lines), m) |-> EventAt(lines, Places(EventEnds(lines), m)[e])]

Telling(d, told) ==
  /\ d.has = (told.pieces # <<>>)
  /\ d.data = IF told.pieces = <<>> THEN <<>> ELSE Append(Joined(told.pieces), "lf")
  /\ d.name = NameOf(told.names)

LinesRead(d, lines, m) ==
  /\ ~d.error
  /\ d.out = OutAt(lines, m)
  /\ Telling(d, ToldAt(lines, m + 1))

LEMMA NamesTyped ==
  ASSUME NEW names \in Seq(Seq(STRING)), NEW name \in Seq(STRING)
  PROVE  /\ NameOf(names) \in Seq(STRING)
         /\ NameOf(Append(names, name)) = name
<1>1. names # <<>> => Last(names) \in Seq(STRING)
  BY DEF Last
<1>2. Append(names, name) # <<>> /\ Len(Append(names, name)) = Len(names) + 1
      /\ Append(names, name)[Len(names) + 1] = name
  <2> DEFINE T == Seq(STRING)
  <2>1. names \in Seq(T) /\ name \in T OBVIOUS
  <2> HIDE DEF T
  <2>2. Len(Append(names, name)) = Len(names) + 1 /\ Append(names, name)[Len(names) + 1] = name /\ Len(names) \in Nat
    BY <2>1
  <2>3. Append(names, name) # <<>> BY <2>1
  <2> QED BY <2>2, <2>3
<1> QED BY <1>1, <1>2 DEF NameOf, Last

LEMMA EventTyped ==
  ASSUME NEW lines \in Seq(Seq(STRING)), NEW k \in DOMAIN lines
  PROVE  EventAt(lines, k) \in [name : Seq(STRING), data : Seq(Bytes)]
<1>1. ToldAt(lines, k).pieces \in Seq(Seq(STRING)) /\ ToldAt(lines, k).names \in Seq(Seq(STRING))
  BY ToldStep
<1>2. <<>> \in Seq(STRING) OBVIOUS
<1>3. NameOf(ToldAt(lines, k).names) \in Seq(STRING)
  BY <1>1, <1>2, NamesTyped
<1>4. Joined(ToldAt(lines, k).pieces) \in Seq(Bytes)
  BY <1>1, <1>2, JoinedAppend
<1> QED BY <1>3, <1>4 DEF EventAt

LEMMA OutStep ==
  ASSUME NEW lines \in Seq(Seq(STRING)), NEW m \in Nat, m + 1 \in DOMAIN lines
  PROVE  /\ OutAt(lines, m) \in Seq([name : Seq(STRING), data : Seq(Bytes)])
         /\ m + 1 \in EventEnds(lines) => OutAt(lines, m + 1) = Append(OutAt(lines, m), EventAt(lines, m + 1))
         /\ m + 1 \notin EventEnds(lines) => OutAt(lines, m + 1) = OutAt(lines, m)
<1> DEFINE ends == EventEnds(lines)
           old == Places(ends, m)
           new == Places(ends, m + 1)
           Events == [name : Seq(STRING), data : Seq(Bytes)]
           v == OutAt(lines, m)
           w == OutAt(lines, m + 1)
           x == EventAt(lines, m + 1)
<1>1. v = [e \in DOMAIN old |-> EventAt(lines, old[e])] /\ w = [e \in DOMAIN new |-> EventAt(lines, new[e])]
  BY DEF OutAt
<1>2. old \in Seq(ends \cap 1..m)
  <2>1. m <= m OBVIOUS
  <2> HIDE DEF ends
  <2> QED BY <2>1, PlacesFirst
<1>3. /\ m + 1 \in ends => new = Append(old, m + 1)
      /\ m + 1 \notin ends => new = old
  BY PlacesStep
<1>4. \A k \in DOMAIN lines : EventAt(lines, k) \in Events
  BY EventTyped
<1>5. ends \subseteq DOMAIN lines /\ DOMAIN lines \subseteq Nat
  BY DEF EventEnds, Blanks
<1>6. x = EventAt(lines, m + 1) /\ x \in Events
  BY <1>4
<1> HIDE DEF ends, old, new, Events, v, w, x
<1>7. /\ Len(old) \in Nat /\ DOMAIN old = 1..Len(old) /\ old \in Seq(Nat)
      /\ \A e \in 1..Len(old) : old[e] \in DOMAIN lines
  <2>1. ends \cap 1..m \subseteq Nat OBVIOUS
  <2>2. old \in Seq(Nat) BY <1>2, <2>1, SeqMonotonic
  <2>3. \A e \in 1..Len(old) : old[e] \in ends
    BY <1>2
  <2> QED BY <1>5, <2>2, <2>3
<1>8. v \in Seq(Events) /\ Len(v) = Len(old) /\ \A e \in 1..Len(old) : v[e] = EventAt(lines, old[e])
  <2>1. v \in [1..Len(old) -> Events] BY <1>1, <1>4, <1>7
  <2> QED BY <1>1, <1>7, <2>1
<1>9. ASSUME m + 1 \in ends PROVE w = Append(v, x)
  <2>1. new = Append(old, m + 1) BY <1>3, <1>9
  <2>2. /\ DOMAIN new = 1..Len(old) + 1 /\ new[Len(old) + 1] = m + 1
        /\ \A e \in 1..Len(old) : new[e] = old[e]
    BY <1>7, <2>1
  <2>3. \A e \in 1..Len(old) + 1 : w[e] = EventAt(lines, new[e]) /\ new[e] \in DOMAIN lines
    <3> SUFFICES ASSUME NEW e \in 1..Len(old) + 1
                 PROVE w[e] = EventAt(lines, new[e]) /\ new[e] \in DOMAIN lines
      OBVIOUS
    <3>1. w[e] = EventAt(lines, new[e]) BY <1>1, <2>2
    <3>2. e = Len(old) + 1 \/ e \in 1..Len(old)
      BY <1>7
    <3>3. new[e] \in DOMAIN lines BY <1>7, <2>2, <3>2
    <3> QED BY <3>1, <3>3
  <2>4. w \in [1..Len(old) + 1 -> Events] BY <1>1, <1>4, <2>2, <2>3
  <2>5. w \in Seq(Events) /\ Len(w) = Len(old) + 1
    <3>1. DOMAIN w = 1..Len(old) + 1 /\ Len(old) + 1 \in Nat
      BY <1>7, <2>4
    <3>2. Len(w) = Len(old) + 1 BY <3>1
    <3>3. w \in Seq(Events) BY <2>4, <3>1
    <3> QED BY <3>2, <3>3
  <2>6. /\ Append(v, x) \in Seq(Events) /\ Len(Append(v, x)) = Len(old) + 1
        /\ Append(v, x)[Len(old) + 1] = x /\ \A e \in 1..Len(old) : Append(v, x)[e] = v[e]
    BY <1>6, <1>7, <1>8
  <2>7. \A e \in 1..Len(old) + 1 : w[e] = Append(v, x)[e]
    <3> SUFFICES ASSUME NEW e \in 1..Len(old) + 1 PROVE w[e] = Append(v, x)[e]
      OBVIOUS
    <3>1. CASE e = Len(old) + 1
      BY <1>6, <2>2, <2>3, <2>6, <3>1
    <3>2. CASE e \in 1..Len(old)
      BY <1>8, <2>2, <2>3, <2>6, <3>2
    <3>3. e = Len(old) + 1 \/ e \in 1..Len(old)
      BY <1>7
    <3> QED BY <3>1, <3>2, <3>3
  <2> QED BY <2>5, <2>6, <2>7, SeqEqual
<1>10. ASSUME m + 1 \notin ends PROVE w = v
  <2>1. new = old BY <1>3, <1>10
  <2> QED BY <1>1, <2>1
<1> QED BY <1>8, <1>9, <1>10 DEF ends, v, w, x, Events

LEMMA FrontOf ==
  ASSUME NEW T, NEW s \in Seq(T), NEW x \in T
  PROVE  Front(Append(s, x)) = s
<1> DEFINE all == Append(s, x)
           n == Len(s)
<1>1. all \in Seq(T) /\ Len(all) = n + 1 /\ n \in Nat /\ \A i \in 1..n : all[i] = s[i]
  OBVIOUS
<1>2. Front(all) = SubSeq(all, 1, Len(all) - 1)
  BY DEF Front
<1> HIDE DEF all
<1>3. n = Len(s) OBVIOUS
<1> HIDE DEF n
<1>4. Len(all) - 1 = n /\ 1 <= n + 1 /\ n <= Len(all) /\ 1 \in Nat /\ 1 >= 1 /\ n - 1 + 1 = n
  BY <1>1
<1>5. /\ SubSeq(all, 1, n) \in Seq(T) /\ Len(SubSeq(all, 1, n)) = n - 1 + 1
      /\ \A k \in 1..n - 1 + 1 : SubSeq(all, 1, n)[k] = all[1 + k - 1]
  BY <1>1, <1>4, PartOf
<1>6. \A k \in 1..n : 1 + k - 1 = k BY <1>1
<1>7. \A k \in 1..n : SubSeq(all, 1, n)[k] = s[k]
  BY <1>1, <1>4, <1>5, <1>6
<1>8. SubSeq(all, 1, n) = s BY <1>3, <1>4, <1>5, <1>7, SeqEqual
<1> QED BY <1>2, <1>4, <1>8 DEF all

(* One line more. *)
LEMMA LineConsumed ==
  ASSUME NEW lines \in Seq(Seq(STRING)), NEW m \in Nat, m + 1 \in DOMAIN lines,
         NEW d \in Decoders, LinesRead(d, lines, m), d.line = lines[m + 1],
         NEW c, c = consume_line(d)
  PROVE  /\ c \in Decoders /\ c.wire = d.wire /\ c.cr = d.cr
         /\ c.error => /\ c.out = d.out
                       /\ ToldAt(lines, m + 1 + 1).pieces # <<>>
                       /\ Len(Joined(ToldAt(lines, m + 1 + 1).pieces)) + 1 > MaxEventBytes
         /\ ~c.error => LinesRead(c, lines, m + 1) /\ c.line = <<>>
<1> DEFINE k == m + 1
           told == ToldAt(lines, k)
           next == ToldAt(lines, k + 1)
           value == FieldOf(d.line).value
           field == FieldOf(d.line).field
           kept == [d EXCEPT !.line = <<>>]
           Events == [name : Seq(STRING), data : Seq(Bytes)]
<1>1. /\ told.pieces \in Seq(Seq(STRING)) /\ told.names \in Seq(Seq(STRING))
      /\ next = Told(told, d.line)
  BY ToldStep
<1>2. /\ d.line \in Seq(STRING) /\ d.name \in Seq(STRING) /\ d.data \in Seq(Bytes) /\ d.has \in BOOLEAN
      /\ d.cr \in BOOLEAN /\ d.wire \in Nat /\ d.error \in BOOLEAN /\ d.out \in Seq(Events)
  BY DEF Decoders
<1>3. value \in Seq(STRING) /\ (d.line # <<>> /\ Head(d.line) = ":" => field = <<>>)
  BY <1>2, FieldTyped
<1>4. /\ ~d.error /\ d.out = OutAt(lines, m) /\ d.has = (told.pieces # <<>>)
      /\ d.data = (IF told.pieces = <<>> THEN <<>> ELSE Append(Joined(told.pieces), "lf"))
      /\ d.name = NameOf(told.names)
  BY DEF LinesRead, Telling
<1>5. Joined(told.pieces) \in Seq(Bytes) /\ NameOf(told.names) \in Seq(STRING) /\ "lf" \in Bytes
  BY <1>1, <1>3, JoinedAppend, NamesTyped DEF Bytes
<1>6. /\ k \in EventEnds(lines) => OutAt(lines, k) = Append(OutAt(lines, m), EventAt(lines, k))
      /\ k \notin EventEnds(lines) => OutAt(lines, k) = OutAt(lines, m)
  BY OutStep
<1>7. k \in EventEnds(lines) <=> d.line = <<>> /\ told.pieces # <<>>
  BY DEF EventEnds, Blanks
<1>8. /\ c = IF d.line = <<>> THEN Dispatch(d)
             ELSE IF Head(d.line) = ":" THEN kept
             ELSE IF field = <<"data">>
               THEN IF Len(value) + 1 > MaxEventBytes - Len(d.data) THEN fail(d)
                    ELSE [kept EXCEPT !.data = @ \o Append(value, "lf"), !.has = TRUE]
             ELSE IF field = <<"event">> THEN [kept EXCEPT !.name = value]
             ELSE kept
  BY DEF consume_line
<1> DEFINE After(line, name, data, has, error, out) ==
             [line |-> line, name |-> name, data |-> data, has |-> has, cr |-> d.cr,
              wire |-> d.wire, error |-> error, out |-> out]
<1>9. d = After(d.line, d.name, d.data, d.has, d.error, d.out)
  BY DEF Decoders
<1>10. <<>> \in Seq(STRING) /\ <<>> \in Seq(Bytes)
  OBVIOUS
<1>12. \A t : Telling(c, t) <=> /\ c.has = (t.pieces # <<>>)
                                /\ c.data = (IF t.pieces = <<>> THEN <<>> ELSE Append(Joined(t.pieces), "lf"))
                                /\ c.name = NameOf(t.names)
  BY DEF Telling
<1>13. LinesRead(c, lines, m + 1) <=> ~c.error /\ c.out = OutAt(lines, k) /\ Telling(c, next)
  BY DEF LinesRead
<1>14. k = m + 1 /\ next = ToldAt(lines, m + 1 + 1)
  OBVIOUS
<1> HIDE DEF k, told, next, value, field, kept, After, Events
<1>11. kept = After(<<>>, d.name, d.data, d.has, d.error, d.out)
  <2>1. kept = [d EXCEPT !.line = <<>>] BY DEF kept
  <2>2. kept = [line |-> <<>>, name |-> d.name, data |-> d.data, has |-> d.has, cr |-> d.cr,
                wire |-> d.wire, error |-> d.error, out |-> d.out]
    BY <2>1 DEF Decoders
  <2> QED BY <2>2 DEF After
<1>15. CASE d.line = <<>>
  <2>1. next = [pieces |-> <<>>, names |-> <<>>]
    BY <1>1, <1>15 DEF Told
  <2>2. c = After(d.line, <<>>, <<>>, FALSE, d.error,
                  IF d.has THEN Append(d.out, [name |-> d.name, data |-> Front(d.data)]) ELSE d.out)
    <3>1. c = Dispatch(d) BY <1>8, <1>15
    <3> QED BY <1>9, <3>1 DEF Dispatch, After
  <2>3. CASE d.has
    <3>1. told.pieces # <<>> /\ d.data = Append(Joined(told.pieces), "lf")
      BY <1>4, <2>3
    <3>2. Front(d.data) = Joined(told.pieces)
      BY <1>5, <3>1, FrontOf
    <3>3. [name |-> d.name, data |-> Front(d.data)] = EventAt(lines, k)
      BY <1>4, <3>2 DEF EventAt, told
    <3>4. EventAt(lines, k) \in Events
      BY <1>4, <1>5, <3>2, <3>3 DEF Events
    <3>5. c = After(<<>>, <<>>, <<>>, FALSE, d.error, Append(d.out, EventAt(lines, k)))
      BY <1>15, <2>2, <2>3, <3>3
    <3>6. Append(d.out, EventAt(lines, k)) \in Seq(Events)
      BY <1>2, <3>4
    <3>7. /\ c \in Decoders /\ c.wire = d.wire /\ c.cr = d.cr /\ c.line = <<>> /\ c.name = <<>> /\ c.data = <<>>
          /\ c.has = FALSE /\ c.error = d.error /\ c.out = Append(d.out, EventAt(lines, k))
      BY <1>2, <1>10, <3>5, <3>6 DEF After, Decoders, Events
    <3>8. c.out = OutAt(lines, k)
      BY <1>4, <1>6, <1>7, <1>15, <3>1, <3>7
    <3>9. Telling(c, next) BY <1>12, <2>1, <3>7 DEF NameOf
    <3> QED BY <1>4, <1>13, <3>7, <3>8, <3>9
  <2>4. CASE ~d.has
    <3>1. told.pieces = <<>> BY <1>4, <2>4
    <3>2. c = After(<<>>, <<>>, <<>>, FALSE, d.error, d.out)
      BY <1>15, <2>2, <2>4
    <3>3. /\ c \in Decoders /\ c.wire = d.wire /\ c.cr = d.cr /\ c.line = <<>> /\ c.name = <<>> /\ c.data = <<>>
          /\ c.has = FALSE /\ c.error = d.error /\ c.out = d.out
      BY <1>2, <1>10, <3>2 DEF After, Decoders, Events
    <3>4. c.out = OutAt(lines, k) BY <1>4, <1>6, <1>7, <3>1, <3>3
    <3>5. Telling(c, next) BY <1>12, <2>1, <3>3 DEF NameOf
    <3> QED BY <1>4, <1>13, <3>3, <3>4, <3>5
  <2> QED BY <1>2, <2>3, <2>4
<1>16. CASE d.line # <<>>
  <2>1. OutAt(lines, k) = d.out BY <1>4, <1>6, <1>7, <1>16
  <2>2. /\ next.pieces = IF field = <<"data">> THEN Append(told.pieces, value) ELSE told.pieces
        /\ next.names = IF field = <<"event">> THEN Append(told.names, value) ELSE told.names
    BY <1>1, <1>16 DEF Told, field, value
  <2>3. <<>> # <<"data">> /\ <<>> # <<"event">> /\ <<"data">> # <<"event">>
    OBVIOUS
  <2>4. ASSUME field # <<"data">>, field # <<"event">>, c = kept
        PROVE  /\ c \in Decoders /\ c.wire = d.wire /\ c.cr = d.cr /\ ~c.error /\ c.line = <<>>
               /\ LinesRead(c, lines, m + 1)
    <3>1. /\ c \in Decoders /\ c.wire = d.wire /\ c.cr = d.cr /\ c.line = <<>> /\ c.name = d.name
          /\ c.data = d.data /\ c.has = d.has /\ c.error = d.error /\ c.out = d.out
      BY <1>2, <1>10, <1>11, <2>4 DEF After, Decoders, Events
    <3>2. next.pieces = told.pieces /\ next.names = told.names
      BY <2>2, <2>4
    <3>3. Telling(c, next) BY <1>4, <1>12, <3>1, <3>2
    <3> QED BY <1>4, <1>13, <2>1, <3>1, <3>3
  <2>5. CASE Head(d.line) = ":"
    <3>1. field = <<>> /\ c = kept BY <1>3, <1>8, <1>16, <2>5
    <3> QED BY <2>3, <2>4, <3>1
  <2>6. CASE Head(d.line) # ":" /\ field = <<"data">>
    <3> DEFINE joined == Joined(next.pieces)
    <3>1. next.pieces = Append(told.pieces, value) /\ next.names = told.names /\ next.pieces # <<>>
      <4>1. next.pieces = Append(told.pieces, value) /\ next.names = told.names
        BY <2>2, <2>3, <2>6
      <4>2. Append(told.pieces, value) # <<>>
        BY <1>1, <1>3, AppendProperties, ZenonT(30)
      <4> QED BY <4>1, <4>2
    <3>2. value \in Seq(Bytes) /\ Append(value, "lf") \in Seq(Bytes) /\ Len(Append(value, "lf")) = Len(value) + 1
      <4>1. STRING \subseteq Bytes BY DEF Bytes
      <4>2. value \in Seq(Bytes) BY <1>3, <4>1, SeqMonotonic
      <4> QED BY <1>5, <4>2
    <3>3. /\ joined \in Seq(Bytes)
          /\ d.data \o Append(value, "lf") = Append(joined, "lf")
          /\ Len(d.data) + Len(value) = Len(joined)
      <4>1. CASE told.pieces = <<>>
        <5>1. joined = value BY <1>1, <1>3, <3>1, <4>1, JoinedAppend
        <5>2. d.data = <<>> BY <1>4, <4>1
        <5>3. <<>> \o Append(value, "lf") = Append(value, "lf")
          BY <3>2
        <5>4. Len(value) \in Nat BY <1>3
        <5> HIDE DEF joined
        <5> QED BY <3>2, <5>1, <5>2, <5>3, <5>4
      <4>2. CASE told.pieces # <<>>
        <5> DEFINE before == Joined(told.pieces)
        <5>1. joined = before \o (<<"lf">> \o value)
          BY <1>1, <1>3, <3>1, <4>2, JoinedAppend
        <5>2. before \in Seq(Bytes) BY <1>5
        <5>12. d.data = Append(before, "lf") BY <1>4, <4>2
        <5> HIDE DEF before, joined
        <5>3. <<"lf">> \in Seq(Bytes) BY <1>5
        <5>4. Append(before, "lf") = before \o <<"lf">>
          BY <1>5, <5>2, AppendIsConcat
        <5>5. Append(value, "lf") = value \o <<"lf">>
          BY <1>5, <3>2, AppendIsConcat
        <5>6. (before \o <<"lf">>) \o (value \o <<"lf">>) = ((before \o <<"lf">>) \o value) \o <<"lf">>
          <6>1. before \o <<"lf">> \in Seq(Bytes) BY <5>2, <5>3
          <6> QED BY <3>2, <5>3, <6>1, ConcatAssociative, SMTT(20)
        <5>7. (before \o <<"lf">>) \o value = before \o (<<"lf">> \o value)
          BY <3>2, <5>2, <5>3, ConcatAssociative, SMTT(20)
        <5>8. joined \in Seq(Bytes) /\ Len(joined) = Len(before) + 1 + Len(value)
          BY <3>2, <5>1, <5>2, <5>3
        <5>9. Append(joined, "lf") = joined \o <<"lf">>
          BY <1>5, <5>8
        <5>10. d.data \o Append(value, "lf") = Append(joined, "lf")
          BY <5>1, <5>4, <5>5, <5>6, <5>7, <5>9, <5>12
        <5>11. Len(d.data) = Len(before) + 1 /\ Len(before) \in Nat /\ Len(value) \in Nat
          BY <1>3, <1>5, <5>2, <5>12
        <5> QED BY <5>8, <5>10, <5>11
      <4> QED BY <4>1, <4>2
    <3>4. joined = Joined(ToldAt(lines, m + 1 + 1).pieces) /\ next.pieces = ToldAt(lines, m + 1 + 1).pieces
      BY <1>14
    <3> HIDE DEF joined
    <3>5. CASE Len(value) + 1 > MaxEventBytes - Len(d.data)
      <4>1. c = fail(d) BY <1>8, <1>16, <2>6, <3>5
      <4>2. c = After(d.line, d.name, d.data, d.has, TRUE, d.out)
        BY <1>9, <4>1 DEF fail, After
      <4>3. c \in Decoders /\ c.wire = d.wire /\ c.cr = d.cr /\ c.error = TRUE /\ c.out = d.out
        BY <1>2, <4>2 DEF After, Decoders, Events
      <4>4. Len(joined) + 1 > MaxEventBytes
        <5>1. MaxEventBytes \in Nat /\ Len(d.data) \in Nat /\ Len(value) \in Nat
          <6>1. MaxEventBytes \in Nat BY StreamLimits
          <6> QED BY <1>2, <1>3, <6>1
        <5> QED BY <3>3, <3>5, <5>1
      <4> QED BY <3>1, <3>4, <4>3, <4>4
    <3>6. CASE ~(Len(value) + 1 > MaxEventBytes - Len(d.data))
      <4>1. c = [kept EXCEPT !.data = @ \o Append(value, "lf"), !.has = TRUE]
        BY <1>8, <1>16, <2>6, <3>6
      <4>2. c = After(<<>>, d.name, d.data \o Append(value, "lf"), TRUE, d.error, d.out)
        BY <1>11, <4>1 DEF After
      <4> DEFINE whole == d.data \o Append(value, "lf")
      <4>3. whole \in Seq(Bytes) /\ c = After(<<>>, d.name, whole, TRUE, d.error, d.out)
            /\ whole = d.data \o Append(value, "lf")
        BY <1>2, <3>2, <4>2, ConcatProperties
      <4> HIDE DEF whole
      <4>4. /\ c \in Decoders /\ c.wire = d.wire /\ c.cr = d.cr /\ c.line = <<>> /\ c.name = d.name
            /\ c.data = whole /\ c.has = TRUE /\ c.error = d.error /\ c.out = d.out
        <5>1. c = After(<<>>, d.name, whole, TRUE, d.error, d.out) /\ whole \in Seq(Bytes)
          BY <4>3
        <5>2. c \in Decoders
          BY <1>2, <1>10, <5>1 DEF After, Decoders, Events
        <5> QED BY <5>1, <5>2 DEF After
      <4>5. Telling(c, next)
        BY <1>4, <1>12, <3>1, <3>3, <4>3, <4>4 DEF joined
      <4> QED BY <1>4, <1>13, <2>1, <4>4, <4>5
    <3> QED BY <3>5, <3>6
  <2>7. CASE Head(d.line) # ":" /\ field = <<"event">>
    <3>1. c = [kept EXCEPT !.name = value] BY <1>8, <1>16, <2>3, <2>7
    <3>2. c = After(<<>>, value, d.data, d.has, d.error, d.out)
      BY <1>11, <3>1 DEF After
    <3>3. /\ c \in Decoders /\ c.wire = d.wire /\ c.cr = d.cr /\ c.line = <<>> /\ c.name = value
          /\ c.data = d.data /\ c.has = d.has /\ c.error = d.error /\ c.out = d.out
      BY <1>2, <1>3, <1>10, <3>2 DEF After, Decoders, Events
    <3>4. next.pieces = told.pieces /\ next.names = Append(told.names, value)
      BY <2>2, <2>3, <2>7
    <3>5. NameOf(next.names) = value BY <1>1, <1>3, <3>4, NamesTyped
    <3>6. Telling(c, next) BY <1>4, <1>12, <3>3, <3>4, <3>5
    <3> QED BY <1>4, <1>13, <2>1, <3>3, <3>6
  <2>8. CASE Head(d.line) # ":" /\ field # <<"data">> /\ field # <<"event">>
    <3>1. c = kept BY <1>8, <1>16, <2>8
    <3> QED BY <2>4, <2>8, <3>1
  <2> QED BY <2>5, <2>6, <2>7, <2>8
<1> QED BY <1>15, <1>16

(* ---------------------------- the bytes that were read --------------------------- *)

EndsOf(wire) == Breaks(wire) \ SecondHalves(wire)

LinesTo(wire, n) == Len(Places(EndsOf(wire), n))

LEMMA LinesOfWire ==
  ASSUME NEW wire \in Seq(STRING), NEW lines, lines = EndedLines(wire), NEW n \in Nat, n <= Len(wire)
  PROVE  /\ lines \in Seq(Seq(STRING)) /\ Len(lines) \in Nat /\ Len(lines) = LinesTo(wire, Len(wire))
         /\ DOMAIN lines = 1..Len(lines)
         /\ LinesTo(wire, 0) = 0
         /\ LinesTo(wire, n) \in 0..Len(lines)
         /\ n < Len(wire) /\ n + 1 \notin EndsOf(wire) => LinesTo(wire, n + 1) = LinesTo(wire, n)
         /\ n < Len(wire) /\ n + 1 \in EndsOf(wire) =>
              /\ LinesTo(wire, n + 1) = LinesTo(wire, n) + 1
              /\ LinesTo(wire, n) + 1 \in DOMAIN lines
              /\ lines[LinesTo(wire, n) + 1] = SubSeq(wire, Since(Breaks(wire), n + 1), n)
<1> DEFINE N == Len(wire)
           E == EndsOf(wire)
           B == Breaks(wire)
           all == Places(E, N)
           Line(i) == SubSeq(wire, Since(B, i), i - 1)
<1>1. N \in Nat /\ DOMAIN wire = 1..N /\ B \subseteq 1..N /\ E \subseteq B
  BY DEF Breaks, EndsOf
<1>2. lines = [k \in DOMAIN all |-> Line(all[k])]
  BY DEF EndedLines, EndsOf
<1>3. all \in Seq(E \cap 1..N) /\ Len(all) \in Nat /\ DOMAIN all = 1..Len(all) /\ Len(all) = LinesTo(wire, N)
  <2>1. N <= N /\ N \in Nat BY <1>1
  <2> HIDE DEF N, E
  <2>2. all \in Seq(E \cap 1..N) /\ Len(all) \in Nat /\ DOMAIN all = 1..Len(all)
    BY <2>1, PlacesFirst
  <2> QED BY <2>2 DEF LinesTo, E
<1>4. \A i \in 1..N : Since(B, i) \in 1..i /\ Line(i) \in Seq(STRING)
  <2> SUFFICES ASSUME NEW i \in 1..N PROVE Since(B, i) \in 1..i /\ Line(i) \in Seq(STRING)
    OBVIOUS
  <2>1. i \in Nat /\ i >= 1 /\ B \subseteq Nat \ {0}
    BY <1>1
  <2>2. Since(B, i) \in 1..i
    <3> HIDE DEF B
    <3> QED BY <2>1, SinceIs
  <2> DEFINE first == Since(B, i)
             last == i - 1
  <2>3. first \in Nat /\ last \in Nat /\ first >= 1 /\ first <= last + 1 /\ last <= Len(wire)
    BY <1>1, <2>1, <2>2
  <2>4. Line(i) = SubSeq(wire, first, last)
    OBVIOUS
  <2> HIDE DEF first, last
  <2>5. SubSeq(wire, first, last) \in Seq(STRING)
    BY <2>3, PartOf
  <2> QED BY <2>2, <2>4, <2>5
<1>14. \A i : Line(i) = SubSeq(wire, Since(B, i), i - 1)
  OBVIOUS
<1> HIDE DEF N, E, B, all, Line
<1>5. \A k \in 1..Len(all) : all[k] \in 1..N
  BY <1>3
<1>6. lines \in Seq(Seq(STRING)) /\ Len(lines) = Len(all) /\ DOMAIN lines = 1..Len(all)
  <2>1. lines \in [1..Len(all) -> Seq(STRING)]
    BY <1>2, <1>3, <1>4, <1>5
  <2>2. DOMAIN lines = 1..Len(all) BY <2>1
  <2>3. lines \in Seq(Seq(STRING)) BY <1>3, <2>1
  <2> QED BY <1>3, <2>2, <2>3
<1>7. ASSUME NEW k \in Nat, k <= N
      PROVE  /\ Len(Places(E, k)) \in Nat /\ Len(Places(E, k)) <= Len(all)
             /\ \A i \in 1..Len(Places(E, k)) : all[i] = Places(E, k)[i]
             /\ Places(E, k) \in Seq(E \cap 1..k)
  <2>1. k <= k BY <1>7
  <2>2. Places(E, k) \in Seq(E \cap 1..k) BY <1>7, <2>1, PlacesFirst
  <2>3. /\ Len(Places(E, k)) \in Nat /\ Len(Places(E, k)) <= Len(Places(E, N))
        /\ \A i \in 1..Len(Places(E, k)) : Places(E, N)[i] = Places(E, k)[i]
    BY <1>1, <1>7, PlacesFirst
  <2> QED BY <2>2, <2>3 DEF all
<1>8. \A k : LinesTo(wire, k) = Len(Places(E, k))
  BY DEF LinesTo, E
<1>9. LinesTo(wire, 0) = 0
  <2>1. Places(E, 0) = <<>> BY PlacesStep
  <2> QED BY <1>8, <2>1
<1>10. LinesTo(wire, n) \in 0..Len(lines)
  <2>1. n <= N BY DEF N
  <2>2. Len(Places(E, n)) \in Nat /\ Len(Places(E, n)) <= Len(all)
    BY <1>7, <2>1
  <2>3. Len(lines) = Len(all) /\ Len(all) \in Nat /\ LinesTo(wire, n) = Len(Places(E, n))
    BY <1>3, <1>6, <1>8
  <2> QED BY <2>2, <2>3
<1>11. ASSUME n < N, n + 1 \notin E PROVE LinesTo(wire, n + 1) = LinesTo(wire, n)
  <2>1. Places(E, n + 1) = Places(E, n) BY <1>11, PlacesStep
  <2> QED BY <1>8, <2>1
<1>12. ASSUME n < N, n + 1 \in E
       PROVE  /\ LinesTo(wire, n + 1) = LinesTo(wire, n) + 1
              /\ LinesTo(wire, n) + 1 \in DOMAIN lines
              /\ lines[LinesTo(wire, n) + 1] = SubSeq(wire, Since(B, n + 1), n)
  <2> DEFINE p == Places(E, n)
             q == Places(E, n + 1)
             m == Len(p)
  <2>1. q = Append(p, n + 1) BY <1>12, PlacesStep
  <2>2. p \in Seq(E \cap 1..n) /\ m \in Nat
    <3>1. n <= N BY <1>1, <1>12
    <3> QED BY <1>7, <3>1
  <2>3. p \in Seq(Nat)
    <3>1. E \cap 1..n \subseteq Nat OBVIOUS
    <3> HIDE DEF p
    <3> QED BY <2>2, <3>1, SeqMonotonic
  <2>4. Len(q) <= Len(all) /\ \A i \in 1..Len(q) : all[i] = q[i]
    <3>1. n + 1 \in Nat /\ n + 1 <= N BY <1>1, <1>12
    <3> QED BY <1>7, <3>1
  <2>5. LinesTo(wire, n) = m /\ LinesTo(wire, n + 1) = Len(q)
    BY <1>8
  <2> HIDE DEF q
  <2>6. Len(q) = m + 1 /\ q[m + 1] = n + 1
    <3> HIDE DEF p
    <3>1. n + 1 \in Nat /\ m = Len(p) OBVIOUS
    <3> HIDE DEF m
    <3> QED BY <2>1, <2>3, <3>1, AppendProperties
  <2> HIDE DEF p, m
  <2>7. m + 1 \in 1..Len(all) /\ all[m + 1] = n + 1
    BY <1>3, <2>2, <2>4, <2>6
  <2>8. lines[m + 1] = Line(n + 1) BY <1>2, <1>3, <2>7
  <2>9. n + 1 - 1 = n OBVIOUS
  <2>10. lines[m + 1] = SubSeq(wire, Since(B, n + 1), n)
    <3>1. Line(n + 1) = SubSeq(wire, Since(B, n + 1), n + 1 - 1)
      BY <1>14
    <3> QED BY <2>8, <2>9, <3>1
  <2> QED BY <1>6, <2>5, <2>6, <2>7, <2>10
<1>13. Len(lines) \in Nat /\ Len(lines) = LinesTo(wire, Len(wire)) /\ DOMAIN lines = 1..Len(lines)
  BY <1>3, <1>6 DEF N
<1> QED BY <1>6, <1>9, <1>10, <1>11, <1>12, <1>13 DEF N, E, B

(* What the decoder is after n bytes of a wire: it has read the lines that ended    *)
(* and holds the one that did not; or it stopped at a limit.                        *)
ReadTo(d, wire, n) ==
  LET lines == EndedLines(wire)
  IN  /\ d \in Decoders
      /\ d.error => /\ LimitExceeded(wire, lines)
                    /\ \E m \in 0..Len(lines) : d.out = OutAt(lines, m)
      /\ ~d.error => /\ d.cr = (n \in 1..Len(wire) /\ wire[n] = "cr")
                     /\ d.line = SubSeq(wire, Since(Breaks(wire), n + 1), n)
                     /\ LinesRead(d, lines, LinesTo(wire, n))

LEMMA ByteFed ==
  ASSUME NEW wire \in Seq(STRING), NEW n \in Nat, n + 1 <= Len(wire), NEW d, ReadTo(d, wire, n),
         NEW e, e = FeedByte(d, wire[n + 1])
  PROVE  ReadTo(e, wire, n + 1) /\ e.wire = d.wire
<1> DEFINE N == Len(wire)
           lines == EndedLines(wire)
           m == LinesTo(wire, n)
           B == Breaks(wire)
           E == EndsOf(wire)
           byte == wire[n + 1]
           first == Since(B, n + 1)
           seen == [d EXCEPT !.cr = FALSE]
           ended == consume_line(seen)
<1>1. /\ N \in Nat /\ DOMAIN wire = 1..N /\ n + 1 \in 1..N /\ n < N /\ n <= N /\ byte \in STRING
      /\ n + 1 \in Nat /\ n + 1 >= 1 /\ B \subseteq Nat \ {0} /\ byte = wire[n + 1]
  BY DEF Breaks
<1>2. d \in Decoders BY DEF ReadTo
<1>3. e = IF d.error THEN d
          ELSE IF d.cr /\ byte = "lf" THEN seen
          ELSE IF byte \in {"cr", "lf"} THEN IF ended.error THEN ended ELSE [ended EXCEPT !.cr = byte = "cr"]
          ELSE IF Len(d.line) = MaxLineBytes THEN fail(seen)
          ELSE [seen EXCEPT !.line = Append(@, byte)]
  <2>1. seen.line = d.line BY <1>2 DEF Decoders
  <2> QED BY <2>1 DEF FeedByte
<1>4. CASE d.error
  <2>1. e = d BY <1>3, <1>4
  <2> QED BY <1>4, <2>1 DEF ReadTo
<1>5. CASE ~d.error
  <2>1. /\ d.cr = (n \in 1..N /\ wire[n] = "cr") /\ d.line = SubSeq(wire, first, n)
        /\ LinesRead(d, lines, m)
    BY <1>5 DEF ReadTo
  <2>2. /\ lines \in Seq(Seq(STRING)) /\ Len(lines) \in Nat /\ m \in 0..Len(lines) /\ m \in Nat
        /\ n + 1 \notin E => LinesTo(wire, n + 1) = m
    <3>1. m \in 0..Len(lines) /\ Len(lines) \in Nat /\ lines \in Seq(Seq(STRING))
      BY <1>1, LinesOfWire
    <3>2. n + 1 \notin E => LinesTo(wire, n + 1) = m
      BY <1>1, LinesOfWire
    <3> QED BY <3>1, <3>2
  <2>3. n + 1 \in E =>
          LinesTo(wire, n + 1) = m + 1 /\ m + 1 \in DOMAIN lines /\ lines[m + 1] = SubSeq(wire, first, n)
    BY <1>1, LinesOfWire
  <2>4. /\ first \in 1..n + 1
        /\ n + 1 \in B => Since(B, n + 2) = n + 2
        /\ n + 1 \notin B => Since(B, n + 2) = first
        /\ \A j \in B : ~(first <= j /\ j < n + 1)
    <3>1. n + 1 + 1 = n + 2 BY <1>1
    <3> HIDE DEF B
    <3>2. first \in 1..n + 1 /\ \A j \in B : ~(first <= j /\ j < n + 1)
      BY <1>1, SinceIs
    <3>3. n + 1 \in B => Since(B, n + 1 + 1) = n + 1 + 1
      BY <1>1, SinceIs
    <3>4. n + 1 \notin B => Since(B, n + 1 + 1) = first
      BY <1>1, SinceIs
    <3> QED BY <3>1, <3>2, <3>3, <3>4
  <2>5. /\ n + 1 \in B <=> byte \in {"cr", "lf"}
        /\ n + 1 \in E <=> byte \in {"cr", "lf"} /\ ~(d.cr /\ byte = "lf")
    <3>1. n + 1 \in B <=> byte \in {"cr", "lf"}
      BY <1>1 DEF Breaks
    <3>2. n + 1 \in SecondHalves(wire) <=> n + 1 \in B /\ n + 1 > 1 /\ byte = "lf" /\ wire[n] = "cr"
      <4>1. n + 1 - 1 = n BY <1>1
      <4> QED BY <4>1 DEF SecondHalves
    <3>3. d.cr <=> n + 1 > 1 /\ wire[n] = "cr"
      <4>1. n \in 1..N <=> n + 1 > 1 BY <1>1
      <4>2. d.cr = (n \in 1..N /\ wire[n] = "cr")
        BY <2>1
      <4> QED BY <4>1, <4>2, Zenon
    <3> QED BY <3>1, <3>2, <3>3 DEF EndsOf
  <2>6. /\ d.line \in Seq(STRING) /\ d.error = FALSE /\ d.wire \in Nat /\ d.out = OutAt(lines, m)
        /\ Telling(d, ToldAt(lines, m + 1))
    BY <1>2, <1>5, <2>1 DEF Decoders, LinesRead
  <2>7. seen \in Decoders /\ seen.line = d.line /\ seen.wire = d.wire /\ seen.cr = FALSE /\ seen.out = d.out
        /\ seen.error = d.error /\ seen.has = d.has /\ seen.data = d.data /\ seen.name = d.name
    BY <1>2 DEF Decoders
  <2>8. LinesRead(seen, lines, m) BY <2>6, <2>7 DEF LinesRead, Telling
  <2>9. \A x \in Decoders : ReadTo(x, wire, n + 1) <=>
          /\ x.error => /\ LimitExceeded(wire, lines)
                        /\ \E k \in 0..Len(lines) : x.out = OutAt(lines, k)
          /\ ~x.error => /\ x.cr = (byte = "cr")
                         /\ x.line = SubSeq(wire, Since(B, n + 2), n + 1)
                         /\ LinesRead(x, lines, LinesTo(wire, n + 1))
    <3>1. n + 1 + 1 = n + 2 BY <1>1
    <3> QED BY <1>1, <3>1 DEF ReadTo
  <2>10. n + 1 \in B => SubSeq(wire, Since(B, n + 2), n + 1) = <<>>
    <3>1. /\ n + 2 \in Nat /\ n + 1 \in Nat /\ n + 2 >= 1 /\ n + 2 <= n + 1 + 1 /\ n + 1 <= Len(wire)
          /\ n + 1 - (n + 2) + 1 = 0
      BY <1>1
    <3>2. SubSeq(wire, n + 2, n + 1) \in Seq(STRING) /\ Len(SubSeq(wire, n + 2, n + 1)) = n + 1 - (n + 2) + 1
      BY <3>1, PartOf
    <3>3. SubSeq(wire, n + 2, n + 1) = <<>> BY <3>1, <3>2
    <3> QED BY <2>4, <3>3
  <2> HIDE DEF N, lines, m, B, E, byte, first, seen, ended
  <2>11. CASE d.cr /\ byte = "lf"
    <3>1. e = seen BY <1>3, <1>5, <2>11
    <3>2. LinesTo(wire, n + 1) = m /\ n + 1 \in B
      BY <2>2, <2>5, <2>11
    <3>3. d.line = <<>>
      <4>1. n \in B /\ n \in Nat /\ n >= 1
        <5>1. n \in 1..N /\ wire[n] = "cr" BY <2>1, <2>11
        <5> QED BY <1>1, <5>1 DEF B, Breaks
      <4>2. first = n + 1 BY <2>4, <4>1
      <4>3. /\ n + 1 \in Nat /\ n + 1 >= 1 /\ n + 1 <= n + 1 /\ n <= Len(wire) /\ n - (n + 1) + 1 = 0
        BY <1>1, <4>1 DEF N
      <4>4. SubSeq(wire, n + 1, n) \in Seq(STRING) /\ Len(SubSeq(wire, n + 1, n)) = n - (n + 1) + 1
        BY <4>3, PartOf
      <4> QED BY <2>1, <4>2, <4>3, <4>4
    <3>4. byte # "cr" BY <2>11
    <3> QED BY <2>6, <2>7, <2>8, <2>9, <2>10, <3>1, <3>2, <3>3, <3>4
  <2>12. CASE byte \in {"cr", "lf"} /\ ~(d.cr /\ byte = "lf")
    <3>1. n + 1 \in E /\ n + 1 \in B BY <2>5, <2>12
    <3>2. LinesTo(wire, n + 1) = m + 1 /\ m + 1 \in DOMAIN lines /\ seen.line = lines[m + 1]
      BY <2>1, <2>3, <2>7, <3>1
    <3>3. e = IF ended.error THEN ended ELSE [ended EXCEPT !.cr = byte = "cr"]
      BY <1>3, <1>5, <2>12
    <3>4. /\ ended \in Decoders /\ ended.wire = seen.wire /\ ended.cr = seen.cr
          /\ ended.error => /\ ended.out = seen.out
                            /\ ToldAt(lines, m + 1 + 1).pieces # <<>>
                            /\ Len(Joined(ToldAt(lines, m + 1 + 1).pieces)) + 1 > MaxEventBytes
          /\ ~ended.error => LinesRead(ended, lines, m + 1) /\ ended.line = <<>>
      <4>1. ended = consume_line(seen) BY DEF ended
      <4> QED BY <2>2, <2>7, <2>8, <3>2, <4>1, LineConsumed
    <3>5. CASE ended.error
      <4>1. LimitExceeded(wire, lines)
        BY <3>2, <3>4, <3>5 DEF LimitExceeded
      <4>2. e = ended /\ ended.out = OutAt(lines, m)
        BY <2>6, <2>7, <3>3, <3>4, <3>5
      <4> QED BY <2>2, <2>7, <2>9, <3>4, <3>5, <4>1, <4>2
    <3>6. CASE ~ended.error
      <4>1. e = [ended EXCEPT !.cr = byte = "cr"]
        BY <3>3, <3>6
      <4>2. /\ e \in Decoders /\ e.cr = (byte = "cr") /\ e.wire = ended.wire /\ e.line = ended.line
            /\ e.out = ended.out /\ e.error = ended.error /\ e.has = ended.has /\ e.data = ended.data
            /\ e.name = ended.name
        BY <3>4, <4>1 DEF Decoders
      <4>3. LinesRead(e, lines, m + 1)
        BY <3>4, <3>6, <4>2 DEF LinesRead, Telling
      <4> QED BY <2>7, <2>9, <2>10, <3>1, <3>2, <3>4, <3>6, <4>2, <4>3
    <3> QED BY <3>5, <3>6
  <2>13. CASE byte \notin {"cr", "lf"}
    <3>1. n + 1 \notin B /\ n + 1 \notin E /\ LinesTo(wire, n + 1) = m /\ Since(B, n + 2) = first
      BY <2>2, <2>4, <2>5, <2>13
    <3>2. /\ first \in Nat /\ first >= 1 /\ first <= n + 1 /\ n <= Len(wire)
          /\ Len(d.line) = n - first + 1 /\ \A k \in 1..n - first + 1 : d.line[k] = wire[first + k - 1]
      <4>1. first \in Nat /\ first >= 1 /\ first <= n + 1 /\ n <= Len(wire)
        BY <1>1, <2>4 DEF N
      <4>2. /\ Len(SubSeq(wire, first, n)) = n - first + 1
            /\ \A k \in 1..n - first + 1 : SubSeq(wire, first, n)[k] = wire[first + k - 1]
        BY <4>1, PartOf
      <4> QED BY <2>1, <4>1, <4>2
    <3>3. CASE Len(d.line) = MaxLineBytes
      <4>1. e = fail(seen) BY <1>3, <1>5, <2>13, <3>3
      <4>2. /\ e \in Decoders /\ e.error = TRUE /\ e.out = seen.out /\ e.wire = seen.wire
        BY <2>7, <4>1 DEF fail, Decoders
      <4>3. LimitExceeded(wire, lines)
        <5>1. MaxLineBytes = n - first + 1 /\ MaxLineBytes \in Nat
          <6>1. MaxLineBytes \in Nat BY StreamLimits
          <6> QED BY <3>2, <3>3, <6>1
        <5>2. first \in 1..Len(wire) - MaxLineBytes /\ first + MaxLineBytes = n + 1
          BY <1>1, <3>2, <5>1 DEF N
        <5>3. (first..first + MaxLineBytes) \cap B = {}
          <6> SUFFICES ASSUME NEW j \in B, j \in first..n + 1 PROVE FALSE
            BY <5>2
          <6>1. j \in Nat /\ j # n + 1 BY <1>1, <3>1
          <6> QED BY <1>1, <2>4, <3>2, <6>1
        <5> QED BY <5>2, <5>3 DEF LimitExceeded, B
      <4> QED BY <2>2, <2>6, <2>7, <2>9, <4>2, <4>3
    <3>4. CASE Len(d.line) # MaxLineBytes
      <4>1. e = [seen EXCEPT !.line = Append(@, byte)]
        BY <1>3, <1>5, <2>11, <2>13, <3>4
      <4>2. Append(d.line, byte) \in Seq(STRING)
        BY <1>1, <2>6
      <4> DEFINE more == Append(d.line, byte)
      <4>3. more \in Seq(STRING) /\ e = [seen EXCEPT !.line = more] /\ more = Append(d.line, byte)
        BY <2>7, <4>1, <4>2
      <4> HIDE DEF more
      <4>4. /\ e \in Decoders /\ e.cr = FALSE /\ e.wire = d.wire /\ e.line = more
            /\ e.out = d.out /\ e.error = d.error /\ e.has = d.has /\ e.data = d.data /\ e.name = d.name
        BY <2>7, <4>3 DEF Decoders
      <4>5. more = SubSeq(wire, first, n + 1)
        <5>1. first <= n + 1 + 1 /\ n + 1 <= Len(wire) /\ n + 1 \in Nat /\ n + 1 - first + 1 = Len(d.line) + 1
          BY <1>1, <3>2 DEF N
        <5>2. /\ SubSeq(wire, first, n + 1) \in Seq(STRING)
              /\ Len(SubSeq(wire, first, n + 1)) = n + 1 - first + 1
              /\ \A k \in 1..n + 1 - first + 1 : SubSeq(wire, first, n + 1)[k] = wire[first + k - 1]
          BY <3>2, <5>1, PartOf
        <5>3. Len(more) = Len(d.line) + 1 /\ more[Len(d.line) + 1] = byte /\ Len(d.line) \in Nat
              /\ \A k \in 1..Len(d.line) : more[k] = d.line[k]
          BY <1>1, <2>6, <4>3
        <5>4. \A k \in 1..Len(d.line) + 1 : more[k] = SubSeq(wire, first, n + 1)[k]
          <6> SUFFICES ASSUME NEW k \in 1..Len(d.line) + 1 PROVE more[k] = SubSeq(wire, first, n + 1)[k]
            OBVIOUS
          <6>1. SubSeq(wire, first, n + 1)[k] = wire[first + k - 1]
            BY <5>1, <5>2
          <6>2. CASE k = Len(d.line) + 1
            <7>1. first + k - 1 = n + 1 BY <1>1, <3>2, <6>2
            <7> QED BY <1>1, <5>3, <6>1, <6>2, <7>1
          <6>3. CASE k \in 1..Len(d.line)
            <7>1. k \in 1..n - first + 1 BY <3>2, <6>3
            <7> QED BY <3>2, <5>3, <6>1, <6>3, <7>1
          <6>4. k = Len(d.line) + 1 \/ k \in 1..Len(d.line)
            BY <5>3
          <6> QED BY <6>2, <6>3, <6>4
        <5>5. Len(more) = Len(SubSeq(wire, first, n + 1)) /\ Len(more) = Len(d.line) + 1
          BY <5>1, <5>2, <5>3
        <5> QED BY <4>3, <5>2, <5>4, <5>5, SeqEqual
      <4>6. LinesRead(e, lines, m)
        BY <2>1, <4>4 DEF LinesRead, Telling
      <4>7. byte # "cr" BY <2>13
      <4> QED BY <2>6, <2>9, <3>1, <4>4, <4>5, <4>6, <4>7
    <3> QED BY <3>3, <3>4
  <2> QED BY <2>11, <2>12, <2>13
<1> QED BY <1>2, <1>4, <1>5 DEF Decoders

IsFed(f, begun, bytes, n) ==
  f = [i \in 0..n |-> IF i = 0 THEN begun ELSE FeedByte(f[i - 1], bytes[i])]

LEMMA FedExists ==
  ASSUME NEW begun, NEW bytes, NEW N \in Nat
  PROVE  \E f : IsFed(f, begun, bytes, N)
<1> DEFINE S == {n \in Nat : \E f : IsFed(f, begun, bytes, n)}
<1>1. 0 \in S
  <2> DEFINE f == [i \in 0..0 |-> begun]
  <2>1. \A i \in 0..0 : f[i] = (IF i = 0 THEN begun ELSE FeedByte(f[i - 1], bytes[i]))
    OBVIOUS
  <2>2. f = [i \in 0..0 |-> f[i]] OBVIOUS
  <2> HIDE DEF f
  <2>3. IsFed(f, begun, bytes, 0) BY <2>1, <2>2 DEF IsFed
  <2> QED BY <2>3
<1>2. ASSUME NEW n \in Nat, n \in S PROVE n + 1 \in S
  <2>1. PICK f : IsFed(f, begun, bytes, n)
    BY <1>2
  <2> DEFINE last == FeedByte(f[n], bytes[n + 1])
             g == [i \in 0..n + 1 |-> IF i = n + 1 THEN last ELSE f[i]]
  <2>2. \A i \in 0..n + 1 : g[i] = (IF i = 0 THEN begun ELSE FeedByte(g[i - 1], bytes[i]))
    <3> SUFFICES ASSUME NEW i \in 0..n + 1
                 PROVE g[i] = (IF i = 0 THEN begun ELSE FeedByte(g[i - 1], bytes[i]))
      OBVIOUS
    <3>1. CASE i = n + 1
      <4>1. g[i] = last /\ i # 0 /\ i - 1 = n /\ g[i - 1] = f[n]
        BY <3>1
      <4> QED BY <3>1, <4>1
    <3>2. CASE i \in 0..n
      <4>1. g[i] = f[i] /\ (i # 0 => g[i - 1] = f[i - 1])
        BY <3>2
      <4>2. f[i] = (IF i = 0 THEN begun ELSE FeedByte(f[i - 1], bytes[i]))
        BY <2>1, <3>2 DEF IsFed
      <4> HIDE DEF g
      <4> QED BY <4>1, <4>2
    <3> QED BY <3>1, <3>2
  <2>3. g = [i \in 0..n + 1 |-> g[i]] OBVIOUS
  <2>4. IsFed(g, begun, bytes, n + 1)
    <3> HIDE DEF g
    <3> QED BY <2>2, <2>3 DEF IsFed
  <2> HIDE DEF g
  <2>5. \E h : IsFed(h, begun, bytes, n + 1)
    BY <2>4
  <2> QED BY <2>5
<1> HIDE DEF S
<1>3. N \in S BY <1>1, <1>2, SetInduction
<1> QED BY <1>3 DEF S

(* A chunk of a wire. *)
LEMMA ChunkFed ==
  ASSUME NEW wire \in Seq(STRING), NEW n \in Nat, NEW last \in Nat, n <= last, last <= Len(wire),
         NEW d, ReadTo(d, wire, n), ~d.error => d.wire = n,
         NEW e, e = feed(d, SubSeq(wire, n + 1, last))
  PROVE  ReadTo(e, wire, last) /\ (~e.error => e.wire = last)
<1> DEFINE bytes == SubSeq(wire, n + 1, last)
           size == last - n
           begun == [d EXCEPT !.wire = @ + Len(bytes)]
           fed == CHOOSE f : IsFed(f, begun, bytes, Len(bytes))
<1>1. size \in Nat /\ n + size = last /\ n + 1 >= 1 /\ n + 1 \in Nat /\ n + 1 <= last + 1
      /\ last - (n + 1) + 1 = size
  OBVIOUS
<1>2. Len(bytes) = size /\ \A k \in 1..size : bytes[k] = wire[n + k]
  <2> HIDE DEF size
  <2>1. /\ Len(bytes) = last - (n + 1) + 1
        /\ \A k \in 1..last - (n + 1) + 1 : bytes[k] = wire[n + 1 + k - 1]
    BY <1>1, PartOf
  <2>2. \A k \in 1..size : n + 1 + k - 1 = n + k
    BY <1>1
  <2> QED BY <1>1, <2>1, <2>2
<1>3. e = IF d.error THEN d ELSE IF Len(bytes) > MaxWireBytes - d.wire THEN fail(d) ELSE fed[Len(bytes)]
  BY DEF feed, IsFed
<1>4. IsFed(fed, begun, bytes, Len(bytes))
  <2> HIDE DEF begun, bytes
  <2>1. \E f : IsFed(f, begun, bytes, Len(bytes))
    BY <1>1, <1>2, FedExists
  <2> QED BY <2>1
<1>5. d \in Decoders BY DEF ReadTo
<1>6. CASE d.error
  <2>1. e = d BY <1>3, <1>6
  <2> QED BY <1>6, <2>1 DEF ReadTo
<1>7. CASE ~d.error
  <2>1. d.wire = n /\ d.out = OutAt(EndedLines(wire), LinesTo(wire, n)) /\ LinesTo(wire, n) \in 0..Len(EndedLines(wire))
    <3>1. n <= Len(wire) OBVIOUS
    <3>2. LinesTo(wire, n) \in 0..Len(EndedLines(wire))
      BY <3>1, LinesOfWire
    <3> QED BY <1>7, <3>2 DEF ReadTo, LinesRead
  <2> HIDE DEF bytes, size, fed
  <2>2. CASE Len(bytes) > MaxWireBytes - d.wire
    <3>1. e = fail(d) BY <1>3, <1>7, <2>2
    <3>2. e \in Decoders /\ e.error = TRUE /\ e.out = d.out
      BY <1>5, <3>1 DEF fail, Decoders
    <3>3. Len(wire) > MaxWireBytes
      <4>1. MaxWireBytes \in Nat BY StreamLimits
      <4> QED BY <1>1, <1>2, <2>1, <2>2, <4>1
    <3> QED BY <2>1, <3>2, <3>3 DEF ReadTo, LimitExceeded
  <2>3. CASE ~(Len(bytes) > MaxWireBytes - d.wire)
    <3>1. e = fed[size] BY <1>2, <1>3, <1>7, <2>3
    <3>2. \A i \in 0..size : fed[i] = IF i = 0 THEN begun ELSE FeedByte(fed[i - 1], bytes[i])
      <4> HIDE DEF begun
      <4> QED BY <1>2, <1>4 DEF IsFed
    <3>3. ReadTo(begun, wire, n) /\ begun.wire = last
      <4>1. /\ begun \in Decoders /\ begun.wire = last /\ begun.line = d.line /\ begun.name = d.name
            /\ begun.data = d.data /\ begun.has = d.has /\ begun.cr = d.cr /\ begun.error = d.error
            /\ begun.out = d.out
        BY <1>1, <1>2, <1>5, <2>1 DEF Decoders
      <4> HIDE DEF begun
      <4> QED BY <1>7, <4>1 DEF ReadTo, LinesRead, Telling
    <3> HIDE DEF begun
    <3> DEFINE I == {i \in Nat : i <= size => ReadTo(fed[i], wire, n + i) /\ fed[i].wire = last}
    <3>4. 0 \in I
      <4>1. fed[0] = begun /\ n + 0 = n BY <1>1, <3>2
      <4> QED BY <3>3, <4>1
    <3>5. ASSUME NEW i \in Nat, i \in I PROVE i + 1 \in I
      <4> SUFFICES ASSUME i + 1 <= size
                   PROVE ReadTo(fed[i + 1], wire, n + (i + 1)) /\ fed[i + 1].wire = last
        OBVIOUS
      <4>1. ReadTo(fed[i], wire, n + i) /\ fed[i].wire = last
        BY <1>1, <3>5
      <4>2. /\ i + 1 \in 0..size /\ i + 1 # 0 /\ i + 1 - 1 = i /\ i + 1 \in 1..size
            /\ n + i \in Nat /\ n + i + 1 <= Len(wire) /\ n + (i + 1) = n + i + 1
        BY <1>1
      <4>3. fed[i + 1] = FeedByte(fed[i], wire[n + i + 1])
        BY <1>2, <3>2, <4>2
      <4>4. ReadTo(fed[i + 1], wire, n + i + 1) /\ fed[i + 1].wire = fed[i].wire
        BY <4>1, <4>2, <4>3, ByteFed
      <4> QED BY <4>1, <4>2, <4>4
    <3> HIDE DEF I
    <3>6. size \in I BY <1>1, <3>4, <3>5, SetInduction
    <3>7. size <= size BY <1>1
    <3> QED BY <1>1, <3>1, <3>6, <3>7 DEF I
  <2> QED BY <2>2, <2>3
<1> QED BY <1>5, <1>6, <1>7 DEF Decoders

LEMMA WireRead ==
  ASSUME NEW wire \in Seq(STRING), NEW cut \in 0..Len(wire), NEW e,
         e = feed(feed(NewDecoder, SubSeq(wire, 1, cut)), SubSeq(wire, cut + 1, Len(wire)))
  PROVE  ReadTo(e, wire, Len(wire))
<1> DEFINE lines == EndedLines(wire)
           N == Len(wire)
           first == feed(NewDecoder, SubSeq(wire, 1, cut))
<1>1. cut \in Nat /\ N \in Nat /\ 0 <= cut /\ cut <= N /\ N <= N /\ 0 + 1 = 1 /\ 0 \in Nat
  OBVIOUS
<1>2. ReadTo(NewDecoder, wire, 0) /\ NewDecoder.wire = 0
  <2>1. NewDecoder \in Decoders /\ NewDecoder.wire = 0
    BY DEF NewDecoder, Decoders
  <2>2. LinesTo(wire, 0) = 0 /\ lines \in Seq(Seq(STRING))
    BY <1>1, LinesOfWire
  <2>3. Since(Breaks(wire), 1) = 1
    <3>1. Breaks(wire) \subseteq Nat \ {0} /\ 1 \in Nat /\ 1 >= 1
      BY DEF Breaks
    <3> QED BY <3>1, SinceIs
  <2>4. SubSeq(wire, 1, 0) = <<>>
    <3>1. SubSeq(wire, 1, 0) \in Seq(STRING) /\ Len(SubSeq(wire, 1, 0)) = 0 - 1 + 1
      BY PartOf
    <3> QED BY <3>1
  <2>5. OutAt(lines, 0) = <<>>
    <3>1. Places(EventEnds(lines), 0) = <<>> BY PlacesStep
    <3> QED BY <3>1 DEF OutAt
  <2>6. ToldAt(lines, 0 + 1) = NothingTold
    <3>1. 0 + 1 = 1 OBVIOUS
    <3> HIDE DEF lines
    <3> QED BY <2>2, <3>1, ToldFirst
  <2>7. LinesRead(NewDecoder, lines, 0)
    <3>1. /\ NewDecoder.error = FALSE /\ NewDecoder.out = <<>> /\ NewDecoder.has = FALSE
          /\ NewDecoder.data = <<>> /\ NewDecoder.name = <<>>
      BY DEF NewDecoder
    <3> DEFINE told == ToldAt(lines, 0 + 1)
    <3>2. told.pieces = <<>> /\ told.names = <<>>
      BY <2>6 DEF NothingTold
    <3> HIDE DEF told
    <3>3. Telling(NewDecoder, told) BY <3>1, <3>2 DEF Telling, NameOf
    <3> HIDE DEF lines
    <3> QED BY <2>5, <3>1, <3>3 DEF LinesRead, told
  <2> HIDE DEF lines
  <2>8. /\ NewDecoder.error = FALSE /\ NewDecoder.cr = FALSE /\ NewDecoder.line = <<>>
    BY DEF NewDecoder
  <2>9. 0 \notin 1..Len(wire) /\ 0 + 1 = 1 OBVIOUS
  <2> QED BY <2>1, <2>2, <2>3, <2>4, <2>7, <2>8, <2>9 DEF ReadTo, lines
<1>3. ReadTo(first, wire, cut) /\ (~first.error => first.wire = cut)
  BY <1>1, <1>2, ChunkFed
<1>4. e = feed(first, SubSeq(wire, cut + 1, N))
  OBVIOUS
<1> HIDE DEF first
<1> QED BY <1>1, <1>3, <1>4, ChunkFed

(* However the wire is cut, what comes out are the events of its lines, in order,   *)
(* all of them unless a limit was exceeded, and the stream is complete when the     *)
(* wire is (sse_decoder.cpp:19, 55, 84).                                            *)
THEOREM EventsComeWhole == Spec => []EventsAreWhole
<1>1. AnswerInv => EventsAreWhole
  <2> SUFFICES ASSUME AnswerInv, Answered("wire") PROVE EventsAreWhole
    BY DEF EventsAreWhole
  <2> DEFINE wire == asked.wire
             lines == EndedLines(wire)
             events == EventsOf(lines)
             d == answer.value
             N == Len(wire)
             ends == Places(EventEnds(lines), Len(lines))
  <2>1. wire \in Seq(STRING) /\ asked.cut \in 0..Len(wire)
    <3>1. wire \in Wires /\ asked.cut \in 0..Len(wire)
      BY CallsNameTools DEF AnswerInv, Posed, Answered
    <3> QED BY <3>1, WiresAreBytes
  <2>2. d = feed(feed(NewDecoder, SubSeq(wire, 1, asked.cut)), SubSeq(wire, asked.cut + 1, Len(wire)))
    BY AnswerOf DEF Answered
  <2>3. ReadTo(d, wire, N) BY <2>1, <2>2, WireRead
  <2>4. /\ N \in Nat /\ N <= N /\ lines \in Seq(Seq(STRING)) /\ Len(lines) \in Nat
        /\ Len(lines) = LinesTo(wire, N) /\ DOMAIN lines = 1..Len(lines)
    <3>1. N \in Nat /\ N <= N BY <2>1
    <3>2. lines \in Seq(Seq(STRING)) /\ Len(lines) \in Nat
      BY <2>1, <3>1, LinesOfWire
    <3>3. Len(lines) = LinesTo(wire, Len(wire)) /\ DOMAIN lines = 1..Len(lines)
      BY <2>1, <3>1, LinesOfWire
    <3> QED BY <3>1, <3>2, <3>3
  <2>5. /\ EventsAreWhole <=>
             /\ Len(d.out) <= Len(events)
             /\ \A i \in DOMAIN d.out :
                  /\ d.out[i].data = Joined(events[i].pieces)
                  /\ d.out[i].name = NameOf(events[i].names)
             /\ IF d.error THEN LimitExceeded(wire, lines)
                ELSE /\ Len(d.out) = Len(events)
                     /\ Framed(d) <=> Complete(wire, lines)
    BY DEF EventsAreWhole
  <2>6. /\ d \in Decoders
        /\ d.error => LimitExceeded(wire, lines) /\ \E m \in 0..Len(lines) : d.out = OutAt(lines, m)
        /\ ~d.error => /\ d.cr = (N \in 1..Len(wire) /\ wire[N] = "cr")
                       /\ d.line = SubSeq(wire, Since(Breaks(wire), N + 1), N)
                       /\ LinesRead(d, lines, LinesTo(wire, N))
    BY <2>3 DEF ReadTo
  <2>7. events = [e \in DOMAIN ends |-> ToldAt(lines, ends[e])]
    BY DEF EventsOf
  <2>8. Len(ends) \in Nat /\ DOMAIN ends = 1..Len(ends)
    <3>1. Len(lines) <= Len(lines) BY <2>4
    <3> HIDE DEF lines
    <3> QED BY <2>4, <3>1, PlacesFirst
  <2>9. \A m : OutAt(lines, m) = [e \in DOMAIN Places(EventEnds(lines), m) |->
                                    EventAt(lines, Places(EventEnds(lines), m)[e])]
    BY DEF OutAt
  <2>10. wire = asked.wire /\ d = answer.value
    OBVIOUS
  <2>11. \A k : /\ EventAt(lines, k).data = Joined(ToldAt(lines, k).pieces)
                /\ EventAt(lines, k).name = NameOf(ToldAt(lines, k).names)
    BY DEF EventAt
  <2> HIDE DEF wire, lines, events, d, N
  <2>12. ASSUME NEW m \in 0..Len(lines), d.out = OutAt(lines, m)
         PROVE  /\ Len(d.out) <= Len(events)
                /\ m = Len(lines) => Len(d.out) = Len(events)
                /\ \A i \in DOMAIN d.out : /\ d.out[i].data = Joined(events[i].pieces)
                                           /\ d.out[i].name = NameOf(events[i].names)
    <3> DEFINE some == Places(EventEnds(lines), m)
    <3>1. /\ Len(some) \in Nat /\ DOMAIN some = 1..Len(some) /\ Len(some) <= Len(ends)
          /\ \A i \in 1..Len(some) : ends[i] = some[i]
      <4>1. m \in Nat /\ m <= Len(lines) BY <2>4
      <4> QED BY <2>4, <4>1, PlacesFirst
    <3>2. d.out = [e \in DOMAIN some |-> EventAt(lines, some[e])]
      BY <2>9, <2>12
    <3>3. m = Len(lines) => some = ends OBVIOUS
    <3> HIDE DEF some, ends
    <3>4. Len(events) = Len(ends) /\ Len(d.out) = Len(some) /\ DOMAIN d.out = 1..Len(some)
      <4>1. DOMAIN events = 1..Len(ends) /\ DOMAIN d.out = 1..Len(some)
        BY <2>7, <2>8, <3>1, <3>2
      <4> QED BY <2>8, <3>1, <4>1
    <3>5. ASSUME NEW i \in DOMAIN d.out
          PROVE  d.out[i].data = Joined(events[i].pieces) /\ d.out[i].name = NameOf(events[i].names)
      <4>1. i \in 1..Len(some) /\ i \in 1..Len(ends)
        BY <2>8, <3>1, <3>4
      <4>2. d.out[i] = EventAt(lines, some[i]) /\ events[i] = ToldAt(lines, ends[i]) /\ ends[i] = some[i]
        BY <2>7, <2>8, <3>1, <3>2, <4>1
      <4> QED BY <2>11, <4>2
    <3> QED BY <3>1, <3>3, <3>4, <3>5
  <2>13. CASE d.error
    <3>1. PICK m \in 0..Len(lines) : d.out = OutAt(lines, m)
      BY <2>6, <2>13
    <3> QED BY <2>5, <2>6, <2>12, <2>13, <3>1
  <2>14. CASE ~d.error
    <3> DEFINE rest == ToldAt(lines, Len(lines) + 1)
    <3>1. /\ d.out = OutAt(lines, Len(lines)) /\ Telling(d, rest)
          /\ d.line = SubSeq(wire, Since(Breaks(wire), N + 1), N)
      BY <2>4, <2>6, <2>14 DEF LinesRead
    <3>2. d.has = (rest.pieces # <<>>) /\ d.name = NameOf(rest.names)
      BY <3>1 DEF Telling
    <3>3. Complete(wire, lines) <=>
            (wire = <<>> \/ N \in Breaks(wire)) /\ rest.pieces = <<>> /\ NameOf(rest.names) = <<>>
      BY DEF Complete, N
    <3>4. Framed(d) <=> d.line = <<>> /\ rest.pieces = <<>> /\ NameOf(rest.names) = <<>>
      <4> HIDE DEF rest
      <4> QED BY <2>14, <3>2 DEF Framed
    <3>5. d.line = <<>> <=> wire = <<>> \/ N \in Breaks(wire)
      <4> DEFINE B == Breaks(wire)
                 first == Since(B, N + 1)
      <4>1. B \subseteq Nat \ {0} /\ DOMAIN wire = 1..N /\ B \subseteq 1..N /\ (wire = <<>> <=> N = 0)
        BY <2>1, <2>4 DEF Breaks, N
      <4>2. /\ first \in 1..N + 1 /\ (N = 0 => first = 1)
        <5>1. N + 1 \in Nat /\ N + 1 >= 1 BY <2>4
        <5>2. first \in 1..N + 1
          <6> HIDE DEF B
          <6> QED BY <4>1, <5>1, SinceIs
        <5> HIDE DEF B, first
        <5> QED BY <2>4, <5>2
      <4>3. N >= 1 => (N \in B => first = N + 1) /\ (N \notin B => first = Since(B, N))
        <5> HIDE DEF B
        <5>1. ASSUME N >= 1 PROVE N \in B => first = N + 1
          BY <2>4, <4>1, <5>1, SinceIs
        <5>2. ASSUME N >= 1 PROVE N \notin B => first = Since(B, N)
          BY <2>4, <4>1, <5>2, SinceIs
        <5> QED BY <5>1, <5>2
      <4>4. N >= 1 => Since(B, N) \in 1..N
        <5> HIDE DEF B
        <5> QED BY <2>4, <4>1, SinceIs
      <4>5. first = N + 1 <=> wire = <<>> \/ N \in B
        <5> HIDE DEF B, first
        <5> QED BY <2>4, <4>1, <4>2, <4>3, <4>4
      <4>6. Len(d.line) = N - first + 1 /\ d.line \in Seq(STRING)
        <5> HIDE DEF first
        <5>1. first \in Nat /\ first >= 1 /\ first <= N + 1 /\ N <= Len(wire)
          BY <2>4, <4>2 DEF N
        <5>2. SubSeq(wire, first, N) \in Seq(STRING) /\ Len(SubSeq(wire, first, N)) = N - first + 1
          BY <2>1, <2>4, <5>1, PartOf
        <5>3. d.line = SubSeq(wire, first, N) BY <3>1 DEF first
        <5> QED BY <5>2, <5>3
      <4> HIDE DEF B, first
      <4>7. d.line = <<>> <=> first = N + 1 BY <2>4, <4>2, <4>6
      <4> QED BY <4>5, <4>7 DEF B
    <3> HIDE DEF rest
    <3>6. Framed(d) <=> Complete(wire, lines)
      BY <3>3, <3>4, <3>5
    <3>7. Len(lines) \in 0..Len(lines) BY <2>4
    <3> QED BY <2>5, <2>12, <2>14, <3>1, <3>6, <3>7
  <2> QED BY <2>6, <2>13, <2>14
<1> QED BY <1>1, AnswersAreTheCodes, PTL

(* What is sent to the model and what comes back from it keep their frames.         *)
THEOREM TalkIsFramed == Spec => []ModelTalkIsFramed
BY EvidenceIsQuoted, EventsComeWhole, PTL DEF ModelTalkIsFramed

(* ------------------------------ the pages of a file ------------------------------ *)

(* The sums of a sequence from one place on, a recursive function of the last one.   *)
IsSum(f, s, first, last) ==
  f = [end \in first - 1..last |-> IF end < first THEN 0 ELSE f[end - 1] + s[end]]

LEMMA SumExists ==
  ASSUME NEW s, NEW first \in Nat \ {0}, NEW last \in Nat, first <= last + 1,
         \A i \in first..last : s[i] \in Nat
  PROVE  \E f \in [first - 1..last -> Nat] : IsSum(f, s, first, last)
<1> DEFINE To(n) == first - 1 + n
           S == {n \in Nat : To(n) <= last => \E f \in [first - 1..To(n) -> Nat] : IsSum(f, s, first, To(n))}
<1>1. 0 \in S
  <2> DEFINE f == [end \in first - 1..To(0) |-> 0]
  <2>1. f \in [first - 1..To(0) -> Nat] OBVIOUS
  <2>2. \A end \in first - 1..To(0) : f[end] = (IF end < first THEN 0 ELSE f[end - 1] + s[end])
    OBVIOUS
  <2>3. f = [end \in first - 1..To(0) |-> f[end]]
    OBVIOUS
  <2> HIDE DEF f
  <2>4. IsSum(f, s, first, To(0)) BY <2>2, <2>3 DEF IsSum
  <2> QED BY <2>1, <2>4
<1>2. ASSUME NEW n \in Nat, n \in S PROVE n + 1 \in S
  <2> SUFFICES ASSUME To(n + 1) <= last
               PROVE  \E f \in [first - 1..To(n + 1) -> Nat] : IsSum(f, s, first, To(n + 1))
    OBVIOUS
  <2>1. PICK f \in [first - 1..To(n) -> Nat] : IsSum(f, s, first, To(n))
    BY <1>2
  <2> DEFINE end1 == To(n + 1)
             g == [end \in first - 1..end1 |-> IF end = end1 THEN f[end1 - 1] + s[end1] ELSE f[end]]
  <2>2. end1 \in first..last /\ end1 - 1 = To(n) /\ f[To(n)] \in Nat /\ s[end1] \in Nat
    OBVIOUS
  <2>3. g \in [first - 1..end1 -> Nat] BY <2>2
  <2>4. ASSUME NEW end \in first - 1..end1
        PROVE  g[end] = (IF end < first THEN 0 ELSE g[end - 1] + s[end])
    <3>1. CASE end = end1
      <4>1. g[end] = f[end1 - 1] + s[end1] /\ ~(end < first) /\ g[end - 1] = f[end1 - 1]
        BY <3>1, <2>2
      <4> QED BY <3>1, <4>1
    <3>2. CASE end # end1
      <4>1. end \in first - 1..To(n) /\ g[end] = f[end] /\ (~(end < first) => g[end - 1] = f[end - 1])
        BY <3>2, <2>2
      <4>2. f[end] = (IF end < first THEN 0 ELSE f[end - 1] + s[end])
        BY <2>1, <4>1 DEF IsSum
      <4> HIDE DEF g
      <4> QED BY <4>1, <4>2
    <3> QED BY <3>1, <3>2
  <2>5. g = [end \in first - 1..end1 |-> g[end]]
    OBVIOUS
  <2> HIDE DEF g
  <2>6. IsSum(g, s, first, To(n + 1)) BY <2>4, <2>5 DEF IsSum
  <2> QED BY <2>3, <2>6
<1> HIDE DEF S
<1>3. last - (first - 1) \in S BY <1>1, <1>2, SetInduction
<1>4. To(last - (first - 1)) = last OBVIOUS
<1> QED BY <1>3, <1>4 DEF S

LEMMA SumIs ==
  ASSUME NEW s, NEW first \in Nat \ {0}, NEW last \in Nat, first <= last + 1,
         \A i \in first..last : s[i] \in Nat,
         NEW f, f = CHOOSE g : IsSum(g, s, first, last)
  PROVE  /\ \A end \in first - 1..last : f[end] = IF end < first THEN 0 ELSE f[end - 1] + s[end]
         /\ first <= last => f[first] = s[first]
<1>1. IsSum(f, s, first, last) BY SumExists
<1>2. \A end \in first - 1..last : f[end] = IF end < first THEN 0 ELSE f[end - 1] + s[end]
  BY <1>1 DEF IsSum
<1>3. first <= last => f[first] = s[first]
  <2> SUFFICES ASSUME first <= last PROVE f[first] = s[first]
    OBVIOUS
  <2>1. first \in first - 1..last /\ ~(first < first) /\ first - 1 \in first - 1..last /\ first - 1 < first
    OBVIOUS
  <2>2. f[first] = f[first - 1] + s[first] /\ f[first - 1] = 0
    BY <1>2, <2>1
  <2>3. s[first] \in Nat OBVIOUS
  <2> QED BY <2>2, <2>3
<1> QED BY <1>2, <1>3

(* A page either says why its first line is in no answer, or goes up to some line.   *)
IsPage(page, file, start) ==
  \/ /\ page = PageFault("limit_exceeded")
     /\ file.raw[start] > PageBytes \/ file.escaped[start] > MaxResultBytes
  \/ \E end \in start..Len(file.raw) : page = Page(start, end, Len(file.raw))

LEMMA LinePage ==
  ASSUME NEW lines \in Seq(Nat), NEW start \in 1..Len(lines)
  PROVE  LET page == line_page(lines, start, PageLines, PageBytes)
         IN  \/ page = PageFault("limit_exceeded") /\ lines[start] > PageBytes
             \/ \E end \in start..Len(lines) : page = Page(start, end, Len(lines))
<1> DEFINE bytes == CHOOSE g : IsSum(g, lines, start, Len(lines))
           Fitting == {end \in start..Len(lines) : end < start + PageLines /\ bytes[end] <= PageBytes}
           end1 == CHOOSE end \in Fitting : \A e \in Fitting : e <= end
           page == line_page(lines, start, PageLines, PageBytes)
<1>1. PageLines \in Nat \ {0} /\ PageBytes \in Nat
  BY FilesAreLines
<1>2. lines # <<>> /\ start \in Nat \ {0} /\ ~(start > Len(lines)) /\ lines[start] \in Nat
  OBVIOUS
<1>3. page = IF lines[start] > PageBytes THEN PageFault("limit_exceeded") ELSE Page(start, end1, Len(lines))
  BY <1>2 DEF line_page, IsSum
<1>4. ASSUME ~(lines[start] > PageBytes) PROVE end1 \in start..Len(lines)
  <2>1. bytes[start] = lines[start]
    <3>1. \A i \in start..Len(lines) : lines[i] \in Nat
      OBVIOUS
    <3>2. Len(lines) \in Nat /\ start <= Len(lines) + 1 /\ start <= Len(lines)
      OBVIOUS
    <3> HIDE DEF bytes
    <3>3. bytes = CHOOSE g : IsSum(g, lines, start, Len(lines))
      BY DEF bytes
    <3> QED BY <1>2, <3>1, <3>2, <3>3, SumIs
  <2> HIDE DEF bytes
  <2>2. start \in Fitting BY <1>1, <1>2, <1>4, <2>1
  <2>3. Fitting \subseteq 0..Len(lines) /\ Len(lines) \in Nat
    OBVIOUS
  <2>4. \E end \in Fitting : \A e \in Fitting : e <= end
    <3> HIDE DEF Fitting
    <3>1. Max(Fitting) \in Fitting /\ \A y \in Fitting : Max(Fitting) >= y
      BY <2>2, <2>3, MaxIsGreatest
    <3>2. \A y \in Fitting : y <= Max(Fitting)
      BY <2>3, <3>1
    <3> QED BY <3>1, <3>2
  <2>5. end1 \in Fitting BY <2>4
  <2> QED BY <2>5
<1> HIDE DEF page, end1
<1> QED BY <1>3, <1>4 DEF page

LEMMA ReadPage ==
  ASSUME NEW file \in Files, NEW start \in 1..Len(file.raw)
  PROVE  IsPage(read_page(file.raw, file.escaped, start, PageLines, PageBytes), file, start)
<1> DEFINE total == Len(file.raw)
           lined == line_page(file.raw, start, PageLines, PageBytes)
           page == read_page(file.raw, file.escaped, start, PageLines, PageBytes)
<1>1. file.raw \in Seq(Nat) /\ file.escaped \in Seq(Nat) /\ Len(file.escaped) = total /\ MaxResultBytes \in Nat
  BY FilesAreLines
<1>2. \/ lined = PageFault("limit_exceeded") /\ file.raw[start] > PageBytes
      \/ \E end \in start..total : lined = Page(start, end, total)
  BY <1>1, LinePage
<1>3. page = IF lined.fault # "" THEN lined ELSE bounded_read_json(lined, file.escaped)
  BY DEF read_page
<1> HIDE DEF lined, page
<1>4. CASE lined = PageFault("limit_exceeded") /\ file.raw[start] > PageBytes
  <2>1. page = lined BY <1>3, <1>4 DEF PageFault
  <2> QED BY <1>4, <2>1 DEF IsPage, page
<1>5. ASSUME NEW end \in start..total, lined = Page(start, end, total) PROVE IsPage(page, file, start)
  <2>1. lined.fault = "" /\ lined.start = start /\ lined.end = end /\ lined.total = total
    BY <1>5 DEF Page
  <2>2. page = bounded_read_json(lined, file.escaped)
    BY <1>3, <2>1
  <2> DEFINE size == CHOOSE g : IsSum(g, file.escaped, lined.start, lined.end)
             Fitting == {e \in lined.start..lined.end : size[e] <= MaxResultBytes}
             end1 == CHOOSE e \in Fitting : \A x \in Fitting : x <= e
  <2>3. page = IF lined.end < lined.start \/ size[lined.end] <= MaxResultBytes THEN lined
               ELSE IF Fitting = {} THEN PageFault("limit_exceeded")
               ELSE Page(lined.start, end1, lined.total)
    BY <2>2 DEF bounded_read_json, IsSum
  <2>4. start \in Nat \ {0} /\ end \in Nat /\ start <= end /\ end <= total /\ start <= end + 1 /\ total \in Nat
        /\ ~(end < start)
    BY <1>1
  <2> HIDE DEF size
  <2>5. size[start] = file.escaped[start]
    <3>1. ASSUME NEW i \in start..end PROVE file.escaped[i] \in Nat
      <4>1. i \in 1..Len(file.escaped) BY <1>1, <2>4
      <4> QED BY <1>1, <4>1, SMTT(20)
    <3>2. size = CHOOSE g : IsSum(g, file.escaped, start, end)
      BY <2>1 DEF size
    <3> QED BY <2>4, <3>1, <3>2, SumIs, SMTT(20)
  <2>9. Fitting = {e \in start..end : size[e] <= MaxResultBytes}
    BY <2>1
  <2> HIDE DEF Fitting, end1
  <2>6. CASE size[end] <= MaxResultBytes
    BY <1>5, <2>1, <2>3, <2>6 DEF IsPage
  <2>7. CASE ~(size[end] <= MaxResultBytes) /\ Fitting = {}
    <3>1. page = PageFault("limit_exceeded") BY <2>1, <2>3, <2>4, <2>7
    <3>2. ~(size[start] <= MaxResultBytes)
      <4>1. start \in start..end BY <2>4
      <4> QED BY <2>7, <2>9, <4>1
    <3>3. file.escaped[start] \in Nat
      <4>1. start \in 1..Len(file.escaped) BY <1>1
      <4> QED BY <1>1, <4>1, SMTT(60)
    <3>4. file.escaped[start] > MaxResultBytes
      BY <1>1, <2>5, <3>2, <3>3
    <3> QED BY <3>1, <3>4 DEF IsPage
  <2>8. CASE ~(size[end] <= MaxResultBytes) /\ Fitting # {}
    <3>1. page = Page(start, end1, total) BY <2>1, <2>3, <2>4, <2>8
    <3>2. Fitting \subseteq 0..end BY <2>4, <2>9
    <3>3. \E e \in Fitting : \A x \in Fitting : x <= e
      <4>1. Max(Fitting) \in Fitting /\ \A y \in Fitting : Max(Fitting) >= y
        BY <2>4, <2>8, <3>2, MaxIsGreatest
      <4>2. \A y \in Fitting : y <= Max(Fitting)
        BY <2>4, <3>2, <4>1
      <4> QED BY <4>1, <4>2
    <3>4. end1 \in Fitting BY <3>3 DEF end1
    <3>5. end1 \in start..total BY <2>4, <2>9, <3>4
    <3> QED BY <3>1, <3>5 DEF IsPage
  <2> QED BY <2>6, <2>7, <2>8
<1> QED BY <1>2, <1>4, <1>5 DEF page

PageAt(file, start) == read_page(file.raw, file.escaped, start, PageLines, PageBytes)

HasLines(file, L) == L = Len(file.raw)

(* The recursive function of PagesOf, from a line on. *)
IsPages(f, file, least, past) ==
  f = [start \in least..past |->
         IF PageAt(file, start).fault # "" \/ PageAt(file, start).next = NoLine THEN <<PageAt(file, start)>>
         ELSE <<PageAt(file, start)>> \o f[PageAt(file, start).next]]

Reaches(page, start, total) == \E end \in start..total : page = Page(start, end, total)

LEMMA NextPage ==
  ASSUME NEW file \in Files, NEW L \in Nat, HasLines(file, L), NEW start \in 1..L,
         PageAt(file, start).fault = ""
  PROVE  Reaches(PageAt(file, start), start, L)
<1> DEFINE page == PageAt(file, start)
<1>1. IsPage(page, file, start) BY ReadPage DEF PageAt, HasLines
<1> HIDE DEF page
<1>2. page # PageFault("limit_exceeded")
  <2>1. PageFault("limit_exceeded").fault = "limit_exceeded"
    BY DEF PageFault
  <2> QED BY <2>1 DEF page
<1>3. Reaches(page, start, L)
  BY <1>1, <1>2 DEF IsPage, HasLines, Reaches
<1> QED BY <1>3 DEF page

LEMMA ReachedPage ==
  ASSUME NEW L \in Nat, NEW start \in 1..L, NEW page, Reaches(page, start, L)
  PROVE  /\ page.start = start /\ page.end \in start..L
         /\ page.next # NoLine => page.next \in start + 1..L /\ page.next - 1 = page.end
         /\ page.next = NoLine => page.end = L
<1>1. PICK end \in start..L : page = Page(start, end, L)
  BY DEF Reaches
<1>2. page.start = start /\ page.end = end /\ page.next = IF end < L THEN end + 1 ELSE NoLine
  BY <1>1 DEF Page
<1> QED BY <1>2 DEF NoLine

LEMMA PastTheEnd ==
  ASSUME NEW file \in Files, NEW L \in Nat, HasLines(file, L), L > 0
  PROVE  PageAt(file, L + 1).fault # ""
<1> DEFINE start == L + 1
           lined == line_page(file.raw, start, PageLines, PageBytes)
<1>1. file.raw \in Seq(Nat) /\ file.raw # <<>> /\ L \in Nat /\ start > Len(file.raw)
  BY FilesAreLines DEF HasLines
<1>2. lined = PageFault("invalid_arguments")
  BY <1>1 DEF line_page
<1>3. PageFault("invalid_arguments").fault = "invalid_arguments"
  BY DEF PageFault
<1> HIDE DEF lined
<1>4. lined.fault = "invalid_arguments" BY <1>2, <1>3
<1>5. PageAt(file, start) = lined BY <1>4 DEF PageAt, read_page, lined
<1> QED BY <1>4, <1>5

LEMMA PagesExist ==
  ASSUME NEW file \in Files, NEW L \in Nat, HasLines(file, L), L > 0
  PROVE  \E f : IsPages(f, file, 1, L + 1)
<1> DEFINE At(s) == PageAt(file, s)
           Ends(s) == At(s).fault # "" \/ At(s).next = NoLine
           S == {n \in Nat : n <= L => \E f : IsPages(f, file, L + 1 - n, L + 1)}
<1>1. 0 \in S
  <2> DEFINE f == [start \in L + 1..L + 1 |-> <<At(start)>>]
  <2>1. \A start \in L + 1..L + 1 : f[start] = (IF Ends(start) THEN <<At(start)>> ELSE <<At(start)>> \o f[At(start).next])
    <3>1. \A start \in L + 1..L + 1 : f[start] = <<At(start)>> /\ start = L + 1
      OBVIOUS
    <3>2. Ends(L + 1) BY PastTheEnd
    <3> HIDE DEF f, At, Ends
    <3> QED BY <3>1, <3>2
  <2>2. f = [start \in L + 1..L + 1 |-> f[start]]
    OBVIOUS
  <2> HIDE DEF f
  <2>3. IsPages(f, file, L + 1, L + 1) BY <2>1, <2>2 DEF IsPages
  <2>4. L + 1 - 0 = L + 1 OBVIOUS
  <2> QED BY <2>3, <2>4
<1>2. ASSUME NEW n \in Nat, n \in S PROVE n + 1 \in S
  <2> DEFINE k == L + 1 - (n + 1)
  <2> SUFFICES ASSUME n + 1 <= L PROVE \E f : IsPages(f, file, k, L + 1)
    OBVIOUS
  <2>1. PICK f : IsPages(f, file, L + 1 - n, L + 1)
    <3>1. n <= L OBVIOUS
    <3> QED BY <1>2, <3>1
  <2> HIDE DEF S
  <2>2. k \in 1..L /\ k \in Int /\ L + 1 - n = k + 1
    OBVIOUS
  <2> DEFINE made == IF Ends(k) THEN <<At(k)>> ELSE <<At(k)>> \o f[At(k).next]
             g == [s \in k..L + 1 |-> IF s = k THEN made ELSE f[s]]
  <2> HIDE DEF k, S
  <2>3. ASSUME NEW s \in k..L + 1, ~Ends(s) PROVE At(s).next \in k + 1..L + 1
    <3>1. s # L + 1 BY <2>3, PastTheEnd
    <3>2. s \in 1..L BY <2>2, <3>1
    <3>3. At(s).fault = "" /\ At(s).next # NoLine
      BY <2>3
    <3>6. Reaches(At(s), s, L) BY <3>2, <3>3, NextPage
    <3> HIDE DEF At
    <3>7. At(s).next \in s + 1..L BY <3>2, <3>3, <3>6, ReachedPage
    <3> QED BY <2>2, <3>2, <3>7
  <2>4. ASSUME NEW s \in k..L + 1
        PROVE  g[s] = (IF Ends(s) THEN <<At(s)>> ELSE <<At(s)>> \o g[At(s).next])
    <3> HIDE DEF At, Ends
    <3>1. ASSUME ~Ends(s) PROVE g[At(s).next] = f[At(s).next]
      <4>1. At(s).next \in k + 1..L + 1 BY <2>3, <3>1
      <4> QED BY <2>2, <4>1
    <3>2. CASE s = k
      <4>1. g[s] = made BY <3>2
      <4> HIDE DEF g
      <4> QED BY <3>1, <3>2, <4>1
    <3>3. CASE s # k
      <4>1. s \in k + 1..L + 1 /\ g[s] = f[s] BY <2>2, <3>3
      <4>2. f[s] = (IF Ends(s) THEN <<At(s)>> ELSE <<At(s)>> \o f[At(s).next])
        BY <2>1, <2>2, <4>1 DEF IsPages, At, Ends
      <4> HIDE DEF g
      <4> QED BY <3>1, <4>1, <4>2
    <3> QED BY <3>2, <3>3
  <2>5. g = [s \in k..L + 1 |-> g[s]] OBVIOUS
  <2> HIDE DEF g
  <2>6. IsPages(g, file, k, L + 1) BY <2>4, <2>5 DEF IsPages
  <2> QED BY <2>6
<1> HIDE DEF S
<1>3. L \in S BY <1>1, <1>2, SetInduction
<1>4. L + 1 - L = 1 /\ L <= L OBVIOUS
<1> QED BY <1>3, <1>4 DEF S

(* What follows a page, page after page without a gap, up to the last line or to one  *)
(* that fits no answer.                                                               *)
AllPages(file, L) == {PageAt(file, start) : start \in 1..L}
Stuck(file, reached) ==
  file.raw[reached + 1] > PageBytes \/ file.escaped[reached + 1] > MaxResultBytes

Fine(page) == page.fault = ""
EndOf(page) == page.end
Joins(page, before) == page.fault = "" => page.start = before + 1
StopsAt(page, file, L, before) ==
  IF page.fault = "" THEN page.end = L ELSE Stuck(file, before)

Follow(pages, file, L, before) ==
  /\ Len(pages) > 0
  /\ \A i \in 1..Len(pages) - 1 : Fine(pages[i]) /\ Joins(pages[i + 1], EndOf(pages[i]))
  /\ Joins(pages[1], before)
  /\ Len(pages) = 1 => StopsAt(pages[1], file, L, before)
  /\ Len(pages) > 1 => StopsAt(pages[Len(pages)], file, L, EndOf(pages[Len(pages) - 1]))

LEMMA FollowOne ==
  ASSUME NEW T, NEW file, NEW L, NEW before, NEW page \in T,
         Joins(page, before), StopsAt(page, file, L, before)
  PROVE  Follow(<<page>>, file, L, before)
<1> DEFINE pages == <<page>>
<1>1. Len(pages) = 1 /\ pages[1] = page OBVIOUS
<1> HIDE DEF pages
<1>2. Follow(pages, file, L, before) BY <1>1 DEF Follow
<1> QED BY <1>2 DEF pages

LEMMA FollowMore ==
  ASSUME NEW T, NEW file, NEW L, NEW before, NEW page \in T, NEW tail \in Seq(T),
         Follow(tail, file, L, EndOf(page)), Fine(page), Joins(page, before)
  PROVE  Follow(<<page>> \o tail, file, L, before)
<1> DEFINE pages == <<page>> \o tail
           n == Len(tail)
<1>1. n \in Nat /\ n > 0 BY DEF Follow
<1>2. Len(pages) = n + 1 /\ pages[1] = page /\ \A i \in 2..n + 1 : pages[i] = tail[i - 1]
  OBVIOUS
<1>3. /\ \A i \in 1..n - 1 : Fine(tail[i]) /\ Joins(tail[i + 1], EndOf(tail[i]))
      /\ Joins(tail[1], EndOf(page))
      /\ n = 1 => StopsAt(tail[1], file, L, EndOf(page))
      /\ n > 1 => StopsAt(tail[n], file, L, EndOf(tail[n - 1]))
  BY DEF Follow
<1> HIDE DEF pages, n
<1>4. pages[n + 1] = tail[n] /\ pages[2] = tail[1] /\ (n > 1 => pages[n] = tail[n - 1])
  BY <1>1, <1>2
<1>5. ASSUME NEW i \in 1..n PROVE Fine(pages[i]) /\ Joins(pages[i + 1], EndOf(pages[i]))
  <2>1. CASE i = 1
    BY <1>2, <1>3, <1>4, <2>1
  <2>2. CASE i # 1
    <3>1. i - 1 \in 1..n - 1 /\ i \in 2..n + 1 /\ i + 1 \in 2..n + 1 /\ (i + 1) - 1 = (i - 1) + 1
      BY <1>1, <2>2
    <3>2. pages[i] = tail[i - 1] /\ pages[i + 1] = tail[(i - 1) + 1]
      BY <1>2, <3>1
    <3> QED BY <1>3, <3>1, <3>2
  <2> QED BY <2>1, <2>2
<1>6. StopsAt(pages[n + 1], file, L, EndOf(pages[n]))
  <2>1. CASE n = 1
    BY <1>2, <1>3, <1>4, <2>1
  <2>2. CASE n # 1
    BY <1>1, <1>3, <1>4, <2>2
  <2> QED BY <2>1, <2>2
<1>7. n + 1 > 0 /\ n + 1 > 1 /\ n + 1 # 1 /\ (n + 1) - 1 = n
  BY <1>1
<1>8. Follow(pages, file, L, before)
  BY <1>2, <1>5, <1>6, <1>7 DEF Follow
<1> QED BY <1>8 DEF pages

LEMMA PagesFollow ==
  ASSUME NEW file \in Files, NEW L \in Nat, HasLines(file, L), L > 0,
         NEW f, IsPages(f, file, 1, L + 1)
  PROVE  f[1] \in Seq(AllPages(file, L)) /\ Follow(f[1], file, L, 0)
<1> DEFINE T == AllPages(file, L)
           S == {n \in Nat : \A start \in 1..L :
                   start >= L + 1 - n => f[start] \in Seq(T) /\ Follow(f[start], file, L, start - 1)}
<1>1. 0 \in S OBVIOUS
<1>2. ASSUME NEW n \in Nat, n \in S PROVE n + 1 \in S
  <2> SUFFICES ASSUME NEW start \in 1..L, start >= L + 1 - (n + 1)
               PROVE  f[start] \in Seq(T) /\ Follow(f[start], file, L, start - 1)
    OBVIOUS
  <2>1. \A next \in 1..L : next >= start + 1 => f[next] \in Seq(T) /\ Follow(f[next], file, L, next - 1)
    BY <1>2
  <2> HIDE DEF S
  <2> DEFINE page == PageAt(file, start)
             Ends == page.fault # "" \/ page.next = NoLine
  <2>2. f[start] = IF Ends THEN <<page>> ELSE <<page>> \o f[page.next]
    <3>1. start \in 1..L + 1 OBVIOUS
    <3> QED BY <3>1 DEF IsPages
  <2>3. page \in T BY DEF AllPages
  <2>4. page.fault = "" => Reaches(page, start, L)
    BY NextPage
  <2>5. page.fault # "" => Stuck(file, start - 1)
    <3>1. IsPage(page, file, start) BY ReadPage DEF PageAt, HasLines
    <3> HIDE DEF page, T
    <3>2. CASE page = PageFault("limit_exceeded") /\ (file.raw[start] > PageBytes \/ file.escaped[start] > MaxResultBytes)
      <4>1. start - 1 + 1 = start OBVIOUS
      <4> QED BY <3>2, <4>1 DEF Stuck
    <3>3. ASSUME NEW end, page = Page(start, end, Len(file.raw)) PROVE page.fault = ""
      BY <3>3 DEF Page
    <3> QED BY <3>1, <3>2, <3>3 DEF IsPage
  <2> DEFINE before == start - 1
  <2>9. before + 1 = start OBVIOUS
  <2> HIDE DEF page, T, before
  <2>6. CASE page.fault # ""
    <3>1. Joins(page, before) /\ StopsAt(page, file, L, before) /\ f[start] = <<page>>
      BY <2>2, <2>5, <2>6 DEF Joins, StopsAt, before
    <3>2. Follow(f[start], file, L, before) /\ f[start] \in Seq(T)
      BY <2>3, <3>1, FollowOne
    <3> QED BY <3>2 DEF before
  <2>7. CASE page.fault = "" /\ page.next = NoLine
    <3>8. Reaches(page, start, L) BY <2>4, <2>7
    <3>9. page.start = start /\ (page.next = NoLine => page.end = L)
      BY <3>8, ReachedPage
    <3>1. page.start = start /\ page.end = L BY <2>7, <3>9
    <3>2. Joins(page, before) /\ StopsAt(page, file, L, before) /\ f[start] = <<page>>
      BY <2>2, <2>7, <2>9, <3>1 DEF Joins, StopsAt
    <3>3. Follow(f[start], file, L, before) /\ f[start] \in Seq(T)
      BY <2>3, <3>2, FollowOne
    <3> QED BY <3>3 DEF before
  <2>8. CASE page.fault = "" /\ page.next # NoLine
    <3>8. Reaches(page, start, L) BY <2>4, <2>8
    <3>9. /\ page.start = start
          /\ page.next # NoLine => page.next \in start + 1..L /\ page.next - 1 = page.end
      BY <3>8, ReachedPage
    <3>1. page.start = start /\ page.next \in start + 1..L /\ page.next - 1 = page.end
      BY <2>8, <3>9
    <3> DEFINE tail == f[page.next]
    <3>2. page.next \in 1..L /\ page.next >= start + 1
      BY <3>1
    <3>3. tail \in Seq(T) /\ Follow(tail, file, L, page.next - 1)
      BY <2>1, <3>2
    <3>4. Follow(tail, file, L, EndOf(page)) /\ Fine(page)
      BY <2>8, <3>1, <3>3 DEF EndOf, Fine
    <3>5. Joins(page, before) /\ f[start] = <<page>> \o tail
      BY <2>2, <2>8, <2>9, <3>1 DEF Joins
    <3> HIDE DEF tail
    <3>6. f[start] \in Seq(T) BY <2>3, <3>3, <3>5
    <3>7. Follow(f[start], file, L, before)
      BY <2>3, <3>3, <3>4, <3>5, FollowMore
    <3> QED BY <3>6, <3>7 DEF before
  <2> QED BY <2>6, <2>7, <2>8
<1> HIDE DEF S
<1>3. L \in S BY <1>1, <1>2, SetInduction
<1>4. 1 \in 1..L /\ 1 >= L + 1 - L OBVIOUS
<1>5. 1 - 1 = 0 OBVIOUS
<1> QED BY <1>3, <1>4, <1>5 DEF S

LEMMA PagesAsked ==
  ASSUME AnswerInv, Answered("read")
  PROVE  answer.value = PagesOf(asked.file) /\ asked.file \in Files
<1>1. answer.value = PagesOf(asked.file) BY AnswerOf DEF Answered
<1>2. asked.file \in Files
  BY CallsNameTools DEF Answered, AnswerInv, Posed
<1> QED BY <1>1, <1>2

LEMMA EmptyPage ==
  ASSUME NEW file \in Files, HasLines(file, 0)
  PROVE  LET page == PageAt(file, 1)
         IN  page.fault = "" /\ page.start = 1 /\ page.end = 0 /\ page.next = NoLine
<1> DEFINE page == PageAt(file, 1)
           lined == line_page(file.raw, 1, PageLines, PageBytes)
<1>1. file.raw = <<>>
  <2>1. file.raw \in Seq(Nat) /\ Len(file.raw) = 0
    BY FilesAreLines DEF HasLines
  <2> QED BY <2>1
<1>2. lined = Page(1, 0, 0) BY <1>1 DEF line_page
<1>3. page = IF lined.fault # "" THEN lined ELSE bounded_read_json(lined, file.escaped)
  BY DEF PageAt, read_page
<1> HIDE DEF lined, page
<1>9. ~(0 < 0) OBVIOUS
<1>10. lined = [fault |-> "", start |-> 1, end |-> 0, total |-> 0, next |-> NoLine]
  BY <1>2, <1>9, Zenon DEF Page
<1>4. lined.fault = "" /\ lined.start = 1 /\ lined.end = 0
  BY <1>10, Zenon
<1>5. lined.next = NoLine BY <1>10, Zenon
<1>6. lined.end < lined.start
  <2>1. 0 < 1 OBVIOUS
  <2> QED BY <1>4, <2>1, Zenon
<1>7. page = lined BY <1>3, <1>4, <1>6 DEF bounded_read_json
<1>8. page.fault = "" /\ page.start = 1 /\ page.end = 0 /\ page.next = NoLine
  BY <1>4, <1>5, <1>7
<1> QED BY <1>8 DEF page

LEMMA PagesAre ==
  ASSUME NEW file \in Files, NEW L \in Nat, HasLines(file, L)
  PROVE  \E f : IsPages(f, file, 1, L + 1) /\ PagesOf(file) = f[1]
<1>1. \E f : IsPages(f, file, 1, L + 1)
  <2>1. CASE L > 0
    BY <2>1, PagesExist
  <2>2. CASE L = 0
    <3> DEFINE page == PageAt(file, 1)
               f == [start \in 1..L + 1 |-> <<page>>]
    <3>1. page.fault = "" /\ page.next = NoLine
      <4>1. HasLines(file, 0) BY <2>2
      <4> QED BY <4>1, EmptyPage
    <3>2. \A start \in 1..L + 1 : start = 1 /\ f[start] = <<page>>
      BY <2>2
    <3>3. f = [start \in 1..L + 1 |-> f[start]]
      OBVIOUS
    <3> HIDE DEF f
    <3>4. IsPages(f, file, 1, L + 1) BY <3>1, <3>2, <3>3 DEF IsPages
    <3> QED BY <3>4
  <2> QED BY <2>1, <2>2
<1> DEFINE from == CHOOSE f : IsPages(f, file, 1, L + 1)
<1>2. IsPages(from, file, 1, L + 1) BY <1>1
<1>3. PagesOf(file) = from[1]
  <2>1. L = Len(file.raw) BY DEF HasLines
  <2> QED BY <2>1 DEF PagesOf, IsPages, PageAt
<1> HIDE DEF from
<1> QED BY <1>2, <1>3

LEMMA PagesAreFollowed ==
  ASSUME NEW file \in Files, NEW L \in Nat, HasLines(file, L),
         NEW f, IsPages(f, file, 1, L + 1)
  PROVE  \E T : f[1] \in Seq(T) /\ Follow(f[1], file, L, 0)
<1>1. CASE L > 0
  BY <1>1, PagesFollow
<1>2. CASE L = 0
  <2> DEFINE page == PageAt(file, 1)
             T == {page}
  <2>1. page.fault = "" /\ page.start = 1 /\ page.end = 0 /\ page.next = NoLine
    <3>1. HasLines(file, 0) BY <1>2
    <3> QED BY <3>1, EmptyPage
  <2>2. f[1] = IF page.fault # "" \/ page.next = NoLine THEN <<page>> ELSE <<page>> \o f[page.next]
    <3>1. 1 \in 1..L + 1 OBVIOUS
    <3> QED BY <3>1 DEF IsPages
  <2>6. 0 + 1 = 1 OBVIOUS
  <2> HIDE DEF page
  <2>3. f[1] = <<page>> /\ page \in T BY <2>1, <2>2
  <2>4. Joins(page, 0) /\ StopsAt(page, file, L, 0)
    BY <1>2, <2>1, <2>6, Zenon DEF Joins, StopsAt
  <2> HIDE DEF T
  <2>5. Follow(f[1], file, L, 0) /\ f[1] \in Seq(T)
    BY <2>3, <2>4, FollowOne
  <2> QED BY <2>5
<1> QED BY <1>1, <1>2

(* What follows, said of the pages that are whole. *)
LEMMA FrontIs ==
  ASSUME NEW T, NEW s \in Seq(T), Len(s) > 0
  PROVE  /\ Front(s) \in Seq(T) /\ Len(Front(s)) = Len(s) - 1
         /\ \A k \in 1..Len(s) - 1 : Front(s)[k] = s[k]
<1> DEFINE n == Len(s) - 1
<1>1. Front(s) = SubSeq(s, 1, n) BY DEF Front
<1>2. n \in Nat /\ 1 <= n + 1 /\ n <= Len(s) /\ 1 \in Nat /\ 1 >= 1 /\ n - 1 + 1 = n
  OBVIOUS
<1>3. \A k \in 1..n : 1 + k - 1 = k BY <1>2
<1>4. /\ SubSeq(s, 1, n) \in Seq(T) /\ Len(SubSeq(s, 1, n)) = n - 1 + 1
      /\ \A k \in 1..n - 1 + 1 : SubSeq(s, 1, n)[k] = s[1 + k - 1]
  BY <1>2, PartOf
<1> QED BY <1>1, <1>2, <1>3, <1>4

WholeOf(pages) == IF Fine(Last(pages)) THEN pages ELSE Front(pages)
ReachedBy(whole) == IF whole = <<>> THEN 0 ELSE EndOf(Last(whole))

LEMMA FollowedWhole ==
  ASSUME NEW T, NEW pages \in Seq(T), NEW file, NEW L, Follow(pages, file, L, 0)
  PROVE  /\ WholeOf(pages) \in Seq(T)
         /\ \A i \in 1..Len(WholeOf(pages)) :
              /\ Fine(WholeOf(pages)[i])
              /\ Joins(WholeOf(pages)[i], IF i = 1 THEN 0 ELSE EndOf(WholeOf(pages)[i - 1]))
         /\ StopsAt(Last(pages), file, L, ReachedBy(Front(pages)))
<1> DEFINE n == Len(pages)
           whole == WholeOf(pages)
<1>1. n \in Nat /\ n > 0 /\ Last(pages) = pages[n]
  BY DEF Follow, Last
<1>2. Front(pages) \in Seq(T) /\ Len(Front(pages)) = n - 1 /\ \A k \in 1..n - 1 : Front(pages)[k] = pages[k]
  BY <1>1, FrontIs
<1>3. whole \in Seq(T) /\ Len(whole) \in {n - 1, n} /\ (Len(whole) = n => whole = pages /\ Fine(pages[n]))
      /\ \A k \in 1..Len(whole) : whole[k] = pages[k]
  BY <1>1, <1>2 DEF WholeOf
<1>4. /\ \A i \in 1..n - 1 : Fine(pages[i]) /\ Joins(pages[i + 1], EndOf(pages[i]))
      /\ Joins(pages[1], 0)
      /\ n = 1 => StopsAt(pages[1], file, L, 0)
      /\ n > 1 => StopsAt(pages[n], file, L, EndOf(pages[n - 1]))
  BY DEF Follow
<1> HIDE DEF n, whole
<1>5. ASSUME NEW i \in 1..Len(whole)
      PROVE  Fine(whole[i]) /\ Joins(whole[i], IF i = 1 THEN 0 ELSE EndOf(whole[i - 1]))
  <2>1. i \in 1..n /\ whole[i] = pages[i] /\ (i = n => Len(whole) = n)
    BY <1>1, <1>3
  <2>2. Fine(pages[i]) BY <1>1, <1>3, <1>4, <2>1
  <2>3. CASE i = 1
    BY <1>4, <2>1, <2>2, <2>3
  <2>4. CASE i # 1
    <3>1. i - 1 \in 1..n - 1 /\ i - 1 \in 1..Len(whole) /\ (i - 1) + 1 = i
      BY <1>1, <1>3, <2>1, <2>4
    <3>2. whole[i - 1] = pages[i - 1] /\ Joins(pages[i], EndOf(pages[i - 1]))
      BY <1>3, <1>4, <3>1
    <3> QED BY <2>1, <2>2, <2>4, <3>2
  <2> QED BY <2>3, <2>4
<1>6. StopsAt(pages[n], file, L, ReachedBy(Front(pages)))
  <2>1. CASE n = 1
    <3>1. Front(pages) = <<>> BY <1>2, <2>1
    <3> QED BY <1>4, <2>1, <3>1 DEF ReachedBy
  <2>2. CASE n # 1
    <3>1. n > 1 /\ n - 1 \in 1..n - 1 /\ Front(pages) # <<>>
      BY <1>1, <1>2, <2>2
    <3>2. Last(Front(pages)) = pages[n - 1] BY <1>2, <3>1 DEF Last
    <3> QED BY <1>4, <3>1, <3>2 DEF ReachedBy
  <2> QED BY <2>1, <2>2
<1>7. whole \in Seq(T) BY <1>3
<1> QED BY <1>1, <1>5, <1>6, <1>7 DEF whole

(* The pages that the followed `next` gives are the lines of the file, each once and  *)
(* whole, for every file and every bound; only a line that fits no answer stops them  *)
(* (workspace_text.cpp:186, workspace_tool_gateway.cpp:293).                          *)
THEOREM FilesAreReadWhole == Spec => []PagesAreWhole
<1>1. AnswerInv => PagesAreWhole
  <2> SUFFICES ASSUME AnswerInv, Answered("read") PROVE PagesAreWhole
    BY DEF PagesAreWhole
  <2> DEFINE file == asked.file
             pages == answer.value
             L == Len(file.raw)
             n == Len(pages)
             stop == Last(pages)
             whole == IF stop.fault = "" THEN pages ELSE Front(pages)
             reached == IF whole = <<>> THEN 0 ELSE Last(whole).end
  <2>1. pages = PagesOf(file) /\ file \in Files
    BY PagesAsked
  <2>2. L \in Nat /\ HasLines(file, L)
    BY <2>1, FilesAreLines DEF HasLines
  <2>3. PICK f : IsPages(f, file, 1, L + 1) /\ PagesOf(file) = f[1]
    BY <2>1, <2>2, PagesAre
  <2> HIDE DEF file, pages, L, n
  <2>4. PICK T : pages \in Seq(T) /\ Follow(pages, file, L, 0)
    BY <2>1, <2>2, <2>3, PagesAreFollowed
  <2>5. whole = WholeOf(pages) /\ reached = ReachedBy(whole)
    BY DEF WholeOf, ReachedBy, Fine, EndOf
  <2> HIDE DEF stop, whole, reached
  <2>6. /\ whole \in Seq(T)
        /\ \A i \in 1..Len(whole) : Fine(whole[i]) /\ Joins(whole[i], IF i = 1 THEN 0 ELSE EndOf(whole[i - 1]))
        /\ StopsAt(stop, file, L, ReachedBy(Front(pages)))
    BY <2>4, <2>5, FollowedWhole DEF stop
  <2>7. ASSUME NEW i \in DOMAIN whole
        PROVE  whole[i].fault = "" /\ whole[i].start = IF i = 1 THEN 1 ELSE whole[i - 1].end + 1
    <3>1. i \in 1..Len(whole) /\ 0 + 1 = 1 BY <2>6
    <3>2. Fine(whole[i]) /\ Joins(whole[i], IF i = 1 THEN 0 ELSE EndOf(whole[i - 1]))
      BY <2>6, <3>1
    <3>3. CASE i = 1
      BY <3>1, <3>2, <3>3 DEF Fine, Joins
    <3>4. CASE i # 1
      BY <3>2, <3>4 DEF Fine, Joins, EndOf
    <3> QED BY <3>3, <3>4
  <2>10. pages # <<>>
    <3>1. Len(pages) > 0 BY <2>4 DEF Follow
    <3> QED BY <3>1
  <2>8. stop.fault = "" => reached = L
    <3> SUFFICES ASSUME stop.fault = "" PROVE reached = L
      OBVIOUS
    <3>1. whole = pages /\ stop.end = L BY <2>6 DEF whole, StopsAt
    <3>2. whole # <<>> BY <2>10, <3>1
    <3>3. reached = stop.end BY <3>1, <3>2 DEF reached, stop
    <3> QED BY <3>1, <3>3
  <2>9. stop.fault # "" => Stuck(file, reached)
    <3> SUFFICES ASSUME stop.fault # "" PROVE Stuck(file, reached)
      OBVIOUS
    <3>1. whole = Front(pages) /\ StopsAt(stop, file, L, reached)
      BY <2>5, <2>6 DEF whole
    <3> QED BY <3>1 DEF StopsAt
  <2> QED
    BY <2>7, <2>8, <2>9 DEF PagesAreWhole, stop, whole, reached, pages, file, L, Stuck
<1> QED BY <1>1, AnswersAreTheCodes, PTL

(* ----------------------------- the output of a command --------------------------- *)

(* Two parts of a text at a place, put together again. *)
LEMMA PartsTogether ==
  ASSUME NEW T, NEW s \in Seq(T), NEW k \in 0..Len(s)
  PROVE  s = SubSeq(s, 1, k) \o SubSeq(s, k + 1, Len(s))
<1> DEFINE L == Len(s)
           a == SubSeq(s, 1, k)
           b == SubSeq(s, k + 1, L)
<1>1. L \in Nat /\ k \in Nat /\ k <= L /\ k - 1 + 1 = k /\ L - (k + 1) + 1 = L - k
  OBVIOUS
<1>5. L = Len(s) OBVIOUS
<1> HIDE DEF L
<1>2. a \in Seq(T) /\ Len(a) = k /\ \A i \in 1..k : a[i] = s[i]
  <2>1. 1 \in Nat /\ 1 >= 1 /\ 1 <= k + 1 BY <1>1
  <2>2. /\ SubSeq(s, 1, k) \in Seq(T) /\ Len(SubSeq(s, 1, k)) = k - 1 + 1
        /\ \A i \in 1..k - 1 + 1 : SubSeq(s, 1, k)[i] = s[1 + i - 1]
    BY <1>1, <1>5, <2>1, PartOf
  <2>3. \A i \in 1..k : 1 + i - 1 = i BY <1>1
  <2> QED BY <1>1, <2>2, <2>3
<1>3. b \in Seq(T) /\ Len(b) = L - k /\ \A i \in 1..L - k : b[i] = s[k + i]
  <2>1. k + 1 \in Nat /\ k + 1 >= 1 /\ k + 1 <= L + 1 /\ L <= Len(s)
    BY <1>1, <1>5
  <2>2. /\ SubSeq(s, k + 1, L) \in Seq(T) /\ Len(SubSeq(s, k + 1, L)) = L - (k + 1) + 1
        /\ \A i \in 1..L - (k + 1) + 1 : SubSeq(s, k + 1, L)[i] = s[k + 1 + i - 1]
    BY <1>1, <2>1, PartOf
  <2>3. \A i \in 1..L - k : k + 1 + i - 1 = k + i
    BY <1>1
  <2> QED BY <1>1, <2>2, <2>3
<1> HIDE DEF a, b
<1>9. SubSeq(s, 1, k) = a /\ SubSeq(s, k + 1, Len(s)) = b
  BY <1>5 DEF a, b
<1>4. /\ a \o b \in Seq(T) /\ Len(a \o b) = k + (L - k)
      /\ \A i \in 1..k + (L - k) : (a \o b)[i] = IF i <= k THEN a[i] ELSE b[i - k]
  <2>1. /\ a \o b \in Seq(T) /\ Len(a \o b) = Len(a) + Len(b)
        /\ \A i \in 1..Len(a) + Len(b) : (a \o b)[i] = IF i <= Len(a) THEN a[i] ELSE b[i - Len(a)]
    BY <1>2, <1>3, ConcatProperties
  <2> QED BY <1>2, <1>3, <2>1
<1>6. k + (L - k) = L BY <1>1
<1>7. \A i \in 1..L : (a \o b)[i] = s[i]
  <2> SUFFICES ASSUME NEW i \in 1..L PROVE (a \o b)[i] = s[i]
    OBVIOUS
  <2>1. CASE i <= k
    <3>1. i \in 1..k BY <1>1, <2>1
    <3> QED BY <1>2, <1>4, <1>6, <2>1, <3>1
  <2>2. CASE ~(i <= k)
    <3>1. i - k \in 1..L - k /\ k + (i - k) = i
      BY <1>1, <2>2
    <3> QED BY <1>3, <1>4, <1>6, <2>2, <3>1
  <2> QED BY <2>1, <2>2
<1>8. a \o b = s BY <1>4, <1>5, <1>6, <1>7, SeqEqual
<1> QED BY <1>8, <1>9

(* The first part of a concatenation, and the second. *)
LEMMA ConcatParts ==
  ASSUME NEW T, NEW a \in Seq(T), NEW b \in Seq(T)
  PROVE  /\ SubSeq(a \o b, 1, Len(a)) = a
         /\ SubSeq(a \o b, Len(a) + 1, Len(a \o b)) = b
<1> DEFINE s == a \o b
           m == Len(a)
           n == Len(b)
<1>1. m \in Nat /\ n \in Nat /\ s \in Seq(T) /\ Len(s) = m + n
      /\ \A i \in 1..m + n : s[i] = IF i <= m THEN a[i] ELSE b[i - m]
  BY ConcatProperties
<1>2. m = Len(a) /\ n = Len(b) OBVIOUS
<1> HIDE DEF s, m, n
<1>3. SubSeq(s, 1, m) = a
  <2>1. 1 \in Nat /\ 1 >= 1 /\ 1 <= m + 1 /\ m <= Len(s) /\ m - 1 + 1 = m
    BY <1>1
  <2>2. /\ SubSeq(s, 1, m) \in Seq(T) /\ Len(SubSeq(s, 1, m)) = m - 1 + 1
        /\ \A i \in 1..m - 1 + 1 : SubSeq(s, 1, m)[i] = s[1 + i - 1]
    BY <1>1, <2>1, PartOf
  <2>3. \A i \in 1..m : SubSeq(s, 1, m)[i] = a[i]
    <3> SUFFICES ASSUME NEW i \in 1..m PROVE SubSeq(s, 1, m)[i] = a[i]
      OBVIOUS
    <3>1. 1 + i - 1 = i /\ i \in 1..m + n /\ i <= m
      BY <1>1
    <3> QED BY <1>1, <2>1, <2>2, <3>1
  <2> QED BY <1>2, <2>1, <2>2, <2>3, SeqEqual
<1>4. SubSeq(s, m + 1, m + n) = b
  <2>1. m + 1 \in Nat /\ m + n \in Nat /\ m + 1 >= 1 /\ m + 1 <= m + n + 1 /\ m + n <= Len(s) /\ m + n - (m + 1) + 1 = n
    BY <1>1
  <2>2. /\ SubSeq(s, m + 1, m + n) \in Seq(T) /\ Len(SubSeq(s, m + 1, m + n)) = m + n - (m + 1) + 1
        /\ \A i \in 1..m + n - (m + 1) + 1 : SubSeq(s, m + 1, m + n)[i] = s[m + 1 + i - 1]
    BY <1>1, <2>1, PartOf
  <2>3. \A i \in 1..n : SubSeq(s, m + 1, m + n)[i] = b[i]
    <3> SUFFICES ASSUME NEW i \in 1..n PROVE SubSeq(s, m + 1, m + n)[i] = b[i]
      OBVIOUS
    <3>1. m + 1 + i - 1 = m + i /\ m + i \in 1..m + n /\ ~(m + i <= m) /\ m + i - m = i
      BY <1>1
    <3> QED BY <1>1, <2>1, <2>2, <3>1
  <2> QED BY <1>2, <2>1, <2>2, <2>3, SeqEqual
<1> QED BY <1>1, <1>2, <1>3, <1>4 DEF s

(* A first and a last part that do not overlap are an extract. *)
LEMMA PartsAreExtract ==
  ASSUME NEW T, NEW text \in Seq(T), NEW L \in Nat, Len(text) = L,
         NEW first \in 0..L, NEW from \in first..L
  PROVE  LET shown == SubSeq(text, 1, first) \o SubSeq(text, from + 1, L)
         IN  shown \in Seq(T) /\ IsExtract(shown, text)
<1> DEFINE a == SubSeq(text, 1, first)
           b == SubSeq(text, from + 1, L)
           rest == SubSeq(text, 1, from)
           shown == a \o b
<1>1. a \in Seq(T) /\ Len(a) = first
  <2>1. 1 \in Nat /\ 1 >= 1 /\ 1 <= first + 1 /\ first <= Len(text) /\ first - 1 + 1 = first /\ first \in Nat
    OBVIOUS
  <2> QED BY <2>1, PartOf
<1>2. b \in Seq(T) /\ Len(b) = L - from
  <2>1. from + 1 \in Nat /\ from + 1 >= 1 /\ from + 1 <= L + 1 /\ L <= Len(text) /\ L - (from + 1) + 1 = L - from
    OBVIOUS
  <2> QED BY <2>1, PartOf
<1>3. rest \in Seq(T)
  <2>1. 1 \in Nat /\ 1 >= 1 /\ 1 <= from + 1 /\ from <= Len(text) /\ from \in Nat
    OBVIOUS
  <2> QED BY <2>1, PartOf
<1>4. text = rest \o b
  <2>1. from \in 0..Len(text) OBVIOUS
  <2> QED BY <2>1, PartsTogether
<1>5. IsSuffix(b, text)
  <2> HIDE DEF rest, b
  <2> QED BY <1>2, <1>3, <1>4, SuffixOfConcat
<1>6. IsPrefix(a, text)
  <2>1. Len(a) <= Len(text) BY <1>1
  <2>2. SubSeq(a, 1, Len(a)) = a
    <3>1. 1 \in Nat /\ 1 >= 1 /\ 1 <= first + 1 /\ first <= Len(a) /\ first - 1 + 1 = first /\ first \in Nat
      BY <1>1
    <3> HIDE DEF a
    <3>2. /\ SubSeq(a, 1, first) \in Seq(T) /\ Len(SubSeq(a, 1, first)) = first - 1 + 1
          /\ \A i \in 1..first - 1 + 1 : SubSeq(a, 1, first)[i] = a[1 + i - 1]
      BY <1>1, <3>1, PartOf
    <3>3. \A i \in 1..first : 1 + i - 1 = i OBVIOUS
    <3>4. \A i \in 1..first : SubSeq(a, 1, first)[i] = a[i]
      BY <3>1, <3>2, <3>3
    <3> QED BY <1>1, <3>1, <3>2, <3>4, SeqEqual
  <2>3. SubSeq(text, 1, Len(a)) = a BY <1>1
  <2> HIDE DEF a
  <2> QED BY <2>1, <2>2, <2>3 DEF IsPrefix
<1> HIDE DEF a, b, rest
<1>7. SubSeq(shown, 1, Len(a)) = a /\ SubSeq(shown, Len(a) + 1, Len(shown)) = b
  BY <1>1, <1>2, ConcatParts
<1>8. shown \in Seq(T) /\ Len(shown) = first + (L - from)
  BY <1>1, <1>2, ConcatProperties
<1> HIDE DEF shown
<1>9. first \in 0..Len(shown) /\ Len(shown) <= Len(text)
  BY <1>8
<1>10. IsExtract(shown, text)
  <2>1. IsPrefix(SubSeq(shown, 1, first), text) /\ IsSuffix(SubSeq(shown, first + 1, Len(shown)), text)
    BY <1>1, <1>5, <1>6, <1>7
  <2> QED BY <1>9, <2>1 DEF IsExtract
<1> QED BY <1>8, <1>10 DEF shown, a, b

LEMMA SizeIs ==
  ASSUME NEW text \in Seq(Nat)
  PROVE  encoded_payload_size(text) \in Nat
<1> DEFINE L == Len(text)
           IsSize(f) == f = [n \in 0..L |-> IF n = 0 THEN 0 ELSE f[n - 1] + text[n]]
           size == CHOOSE f : IsSize(f)
<1>1. L \in Nat /\ \A i \in 1..L : text[i] \in Nat
  OBVIOUS
<1>2. L = Len(text) OBVIOUS
<1> HIDE DEF L
<1>3. PICK f \in [1 - 1..L -> Nat] : IsSum(f, text, 1, L)
  <2>1. 1 \in Nat \ {0} /\ 1 <= L + 1 BY <1>1
  <2> QED BY <1>1, <2>1, SumExists
<1>4. IsSize(f)
  <2>1. ASSUME NEW n \in 0..L PROVE f[n] = (IF n = 0 THEN 0 ELSE f[n - 1] + text[n])
    <3>1. n \in 1 - 1..L /\ (n < 1 <=> n = 0)
      BY <1>1
    <3>2. f[n] = IF n < 1 THEN 0 ELSE f[n - 1] + text[n]
      BY <1>3, <3>1 DEF IsSum
    <3> QED BY <3>1, <3>2
  <2>2. f = [n \in 0..L |-> f[n]] OBVIOUS
  <2> QED BY <2>1, <2>2
<1>5. IsSize(size) BY <1>4
<1> HIDE DEF size
<1> DEFINE S == {n \in Nat : n <= L => size[n] \in Nat}
<1>6. 0 \in S BY <1>1, <1>5
<1>7. ASSUME NEW n \in Nat, n \in S PROVE n + 1 \in S
  <2> SUFFICES ASSUME n + 1 <= L PROVE size[n + 1] \in Nat
    OBVIOUS
  <2>1. size[n] \in Nat /\ n + 1 \in 0..L /\ n + 1 \in 1..L /\ (n + 1) - 1 = n /\ n + 1 # 0
    BY <1>1, <1>7
  <2>2. size[n + 1] = size[n] + text[n + 1]
    BY <1>5, <2>1
  <2>3. text[n + 1] \in Nat BY <1>1, <2>1
  <2> QED BY <2>1, <2>2, <2>3
<1> HIDE DEF S
<1>8. L \in S BY <1>1, <1>6, <1>7, SetInduction
<1>9. size[L] \in Nat BY <1>1, <1>8 DEF S
<1>10. encoded_payload_size(text) = size[L]
  BY DEF encoded_payload_size, size, L
<1> QED BY <1>9, <1>10

LEMMA RetainedIsExtract ==
  ASSUME NEW text \in Seq(Nat), NEW kept \in 0..Len(text)
  PROVE  retain_prefix_and_tail(text, kept) \in Seq(Nat) /\ IsExtract(retain_prefix_and_tail(text, kept), text)
<1> DEFINE L == Len(text)
           prefix == IF kept > RetainedPrefix THEN RetainedPrefix ELSE 0
           tail == kept - prefix
           shown == retain_prefix_and_tail(text, kept)
<1>1. L \in Nat /\ L = Len(text) /\ kept \in 0..L
  OBVIOUS
<1>2. shown = IF kept >= L THEN text ELSE SubSeq(text, 1, prefix) \o SubSeq(text, L - tail + 1, L)
  BY DEF retain_prefix_and_tail
<1> HIDE DEF shown, L
<1>3. CASE kept >= L
  <2>1. L \in 0..L /\ L \in L..L /\ Len(text) = L
    BY <1>1
  <2> DEFINE both == SubSeq(text, 1, L) \o SubSeq(text, L + 1, L)
  <2>2. both \in Seq(Nat) /\ IsExtract(both, text)
    BY <1>1, <2>1, PartsAreExtract
  <2>3. text = both BY <1>1, <2>1, PartsTogether
  <2> HIDE DEF both
  <2> QED BY <1>2, <1>3, <2>2, <2>3 DEF shown
<1>4. CASE ~(kept >= L)
  <2>1. RetainedPrefix \in Nat BY ContentBounds
  <2> DEFINE from == L - tail
             both == SubSeq(text, 1, prefix) \o SubSeq(text, from + 1, L)
  <2>2. prefix \in 0..L /\ from \in prefix..L
    BY <1>1, <1>4, <2>1
  <2>3. shown = both BY <1>2, <1>4
  <2> HIDE DEF prefix, tail, from
  <2>4. both \in Seq(Nat) /\ IsExtract(both, text)
    BY <1>1, <2>2, PartsAreExtract
  <2> HIDE DEF both
  <2> QED BY <2>3, <2>4 DEF shown
<1> QED BY <1>3, <1>4

LEMMA TextIsExtract ==
  ASSUME NEW text \in Seq(Nat)
  PROVE  IsExtract(text, text)
<1>1. Len(text) \in 0..Len(text) /\ Len(text) >= Len(text)
  OBVIOUS
<1>2. retain_prefix_and_tail(text, Len(text)) = text
  BY <1>1 DEF retain_prefix_and_tail
<1>3. IsExtract(retain_prefix_and_tail(text, Len(text)), text)
  BY <1>1, RetainedIsExtract
<1> QED BY <1>2, <1>3

LEMMA Quotient ==
  ASSUME NEW a \in Nat, NEW b \in Nat, NEW c \in Nat, c > 0
  PROVE  (a * b) \div c \in Nat
<1>1. a * b \in Nat OBVIOUS
<1> DEFINE d == a * b
<1> HIDE DEF d
<1>2. d \in Nat => d \div c \in Nat OBVIOUS
<1> QED BY <1>1, <1>2 DEF d

(* The recursive function of fit_encoded_payload, up to a number of characters.      *)
Kept(text, kept) == retain_prefix_and_tail(text, kept)
Fewer(text, budget, kept) ==
  IF (kept * budget) \div encoded_payload_size(Kept(text, kept)) < kept
  THEN (kept * budget) \div encoded_payload_size(Kept(text, kept)) ELSE kept - 1

IsFit(f, text, budget, most) ==
  f = [kept \in 0..most |->
         IF kept = 0 THEN <<>>
         ELSE IF encoded_payload_size(Kept(text, kept)) <= budget THEN Kept(text, kept)
         ELSE f[Fewer(text, budget, kept)]]

LEMMA FewerKept ==
  ASSUME NEW text \in Seq(Nat), NEW budget \in Nat, NEW kept \in 1..Len(text),
         ~(encoded_payload_size(Kept(text, kept)) <= budget)
  PROVE  Fewer(text, budget, kept) \in 0..kept - 1
<1> DEFINE size == encoded_payload_size(Kept(text, kept))
           scaled == (kept * budget) \div size
<1>1. size \in Nat /\ kept \in Nat
  <2>1. kept \in 0..Len(text) OBVIOUS
  <2> QED BY <2>1, RetainedIsExtract, SizeIs DEF Kept
<1> HIDE DEF size
<1>2. size > 0 BY <1>1 DEF size
<1>3. scaled \in Nat BY <1>1, <1>2, Quotient
<1>4. Fewer(text, budget, kept) = IF scaled < kept THEN scaled ELSE kept - 1
  BY DEF Fewer, size
<1> HIDE DEF scaled
<1> QED BY <1>1, <1>3, <1>4

LEMMA FitExists ==
  ASSUME NEW text \in Seq(Nat), NEW budget \in Nat, NEW L \in Nat, Len(text) = L
  PROVE  \E f : IsFit(f, text, budget, L)
<1> DEFINE Fits(k) == encoded_payload_size(Kept(text, k)) <= budget
           Less(k) == Fewer(text, budget, k)
           S == {n \in Nat : n <= L => \E f : IsFit(f, text, budget, n)}
<1>1. \A k \in 1..L : ~Fits(k) => Less(k) \in 0..k - 1
  BY FewerKept
<1>2. 0 \in S
  <2> DEFINE f == [k \in 0..0 |-> <<>>]
  <2>1. \A k \in 0..0 : f[k] = (IF k = 0 THEN <<>> ELSE IF Fits(k) THEN Kept(text, k) ELSE f[Less(k)])
    OBVIOUS
  <2>2. f = [k \in 0..0 |-> f[k]] OBVIOUS
  <2> HIDE DEF f
  <2>3. IsFit(f, text, budget, 0) BY <2>1, <2>2 DEF IsFit
  <2> QED BY <2>3
<1>3. ASSUME NEW n \in Nat, n \in S PROVE n + 1 \in S
  <2> SUFFICES ASSUME n + 1 <= L PROVE \E f : IsFit(f, text, budget, n + 1)
    OBVIOUS
  <2>1. PICK f : IsFit(f, text, budget, n)
    <3>1. n <= L OBVIOUS
    <3> QED BY <1>3, <3>1
  <2> HIDE DEF S, Fits, Less
  <2> DEFINE k1 == n + 1
             made == IF Fits(k1) THEN Kept(text, k1) ELSE f[Less(k1)]
             g == [k \in 0..k1 |-> IF k = k1 THEN made ELSE f[k]]
  <2>2. k1 \in 1..L /\ k1 # 0 /\ k1 - 1 = n /\ k1 \in Nat
    OBVIOUS
  <2>3. ASSUME NEW k \in 0..k1
        PROVE  g[k] = (IF k = 0 THEN <<>> ELSE IF Fits(k) THEN Kept(text, k) ELSE g[Less(k)])
    <3>1. ASSUME k # 0, ~Fits(k) PROVE g[Less(k)] = f[Less(k)]
      <4>1. k \in 1..L BY <2>2, <3>1
      <4>2. Less(k) \in 0..k - 1 BY <1>1, <3>1, <4>1
      <4>3. Less(k) \in 0..k1 /\ Less(k) # k1 BY <2>2, <4>2
      <4> QED BY <4>3
    <3> HIDE DEF k1
    <3>2. CASE k = k1
      <4>1. g[k] = made BY <2>2, <3>2
      <4> HIDE DEF g
      <4> QED BY <2>2, <3>1, <3>2, <4>1
    <3>3. CASE k # k1
      <4>1. k \in 0..n /\ g[k] = f[k] BY <2>2, <3>3
      <4>2. f[k] = (IF k = 0 THEN <<>> ELSE IF Fits(k) THEN Kept(text, k) ELSE f[Less(k)])
        BY <2>1, <4>1 DEF IsFit, Fits, Less
      <4> HIDE DEF g
      <4> QED BY <3>1, <4>1, <4>2
    <3> QED BY <3>2, <3>3
  <2>4. g = [k \in 0..k1 |-> g[k]] OBVIOUS
  <2> HIDE DEF g
  <2>5. IsFit(g, text, budget, k1) BY <2>3, <2>4 DEF IsFit, Fits, Less
  <2> QED BY <2>5
<1> HIDE DEF S
<1>4. L \in S BY <1>2, <1>3, SetInduction
<1> QED BY <1>4 DEF S

Shows(shown, text, budget) ==
  shown \in Seq(Nat) /\ IsExtract(shown, text) /\ encoded_payload_size(shown) <= budget

LEMMA NothingHasSize == encoded_payload_size(<<>>) = 0
<1> DEFINE f == [n \in 0..0 |-> 0]
           IsSize(g) == g = [n \in 0..Len(<<>>) |-> IF n = 0 THEN 0 ELSE g[n - 1] + <<>>[n]]
           size == CHOOSE g : IsSize(g)
<1>1. Len(<<>>) = 0 OBVIOUS
<1>2. \A n \in 0..Len(<<>>) : n = 0 BY <1>1
<1>3. IsSize(f) BY <1>1, <1>2
<1>4. IsSize(size) BY <1>3
<1> HIDE DEF size
<1>5. 0 \in 0..Len(<<>>) BY <1>1
<1>6. size[0] = 0 BY <1>4, <1>5
<1>7. encoded_payload_size(<<>>) = size[Len(<<>>)]
  BY DEF encoded_payload_size, size
<1> QED BY <1>1, <1>6, <1>7

LEMMA NothingIsExtract ==
  ASSUME NEW text \in Seq(Nat), NEW budget \in Nat
  PROVE  Shows(<<>>, text, budget)
<1> DEFINE L == Len(text)
           none == SubSeq(text, 1, 0) \o SubSeq(text, L + 1, L)
<1>1. L \in Nat /\ Len(text) = L /\ 0 \in 0..L /\ L \in 0..L
  OBVIOUS
<1>2. none \in Seq(Nat) /\ IsExtract(none, text)
  <2> HIDE DEF L
  <2> QED BY <1>1, PartsAreExtract
<1>3. SubSeq(text, 1, 0) = <<>> /\ SubSeq(text, L + 1, L) = <<>>
  OBVIOUS
<1>4. none = <<>> BY <1>3
<1> HIDE DEF none
<1>5. 0 <= budget OBVIOUS
<1> QED BY <1>2, <1>4, <1>5, NothingHasSize DEF Shows

LEMMA FitShows ==
  ASSUME NEW text \in Seq(Nat), NEW budget \in Nat, NEW L \in Nat, Len(text) = L,
         NEW f, IsFit(f, text, budget, L)
  PROVE  Shows(f[L], text, budget)
<1> DEFINE Fits(k) == encoded_payload_size(Kept(text, k)) <= budget
           Less(k) == Fewer(text, budget, k)
           S == {n \in Nat : \A k \in 0..L : k <= n => Shows(f[k], text, budget)}
<1>1. \A k \in 1..L : ~Fits(k) => Less(k) \in 0..k - 1
  BY FewerKept
<1>2. \A k \in 0..L : f[k] = IF k = 0 THEN <<>> ELSE IF Fits(k) THEN Kept(text, k) ELSE f[Less(k)]
  BY DEF IsFit
<1>3. \A k \in 0..L : Fits(k) => Shows(Kept(text, k), text, budget)
  BY RetainedIsExtract DEF Shows, Kept
<1> HIDE DEF Fits, Less
<1>4. 0 \in S
  <2>1. 0 \in 0..L OBVIOUS
  <2>2. f[0] = <<>> BY <1>2, <2>1
  <2>3. Shows(f[0], text, budget) BY <2>2, NothingIsExtract
  <2>4. \A k \in 0..L : k <= 0 => k = 0 OBVIOUS
  <2> QED BY <2>3, <2>4
<1>5. ASSUME NEW n \in Nat, n \in S PROVE n + 1 \in S
  <2> SUFFICES ASSUME NEW k \in 0..L, k <= n + 1 PROVE Shows(f[k], text, budget)
    OBVIOUS
  <2>1. \A j \in 0..L : j <= n => Shows(f[j], text, budget)
    BY <1>5
  <2> HIDE DEF S
  <2>2. CASE k = 0
    BY <2>1, <2>2
  <2>3. CASE k # 0 /\ Fits(k)
    BY <1>2, <1>3, <2>3
  <2>4. CASE k # 0 /\ ~Fits(k)
    <3>1. k \in 1..L BY <2>4
    <3>2. Less(k) \in 0..k - 1 BY <1>1, <2>4, <3>1
    <3>3. Less(k) \in 0..L /\ Less(k) <= n BY <3>1, <3>2
    <3>4. f[k] = f[Less(k)] BY <1>2, <2>4
    <3> QED BY <2>1, <3>3, <3>4
  <2> QED BY <2>2, <2>3, <2>4
<1> HIDE DEF S
<1>6. L \in S BY <1>4, <1>5, SetInduction
<1>7. L \in 0..L /\ L <= L OBVIOUS
<1> QED BY <1>6, <1>7 DEF S

(* What does not fit is shown in part, and the part fits.                            *)
LEMMA FittedShows ==
  ASSUME NEW text \in Seq(Nat), NEW budget \in Nat
  PROVE  Shows(fit_encoded_payload(text, budget), text, budget)
<1> DEFINE L == Len(text)
           fit == CHOOSE f : IsFit(f, text, budget, L)
<1>1. L \in Nat /\ Len(text) = L OBVIOUS
<1>2. IsFit(fit, text, budget, L)
  <2>1. \E f : IsFit(f, text, budget, L)
    <3> HIDE DEF L
    <3> QED BY <1>1, FitExists
  <2> QED BY <2>1
<1>3. Shows(fit[L], text, budget)
  <2> HIDE DEF L, fit
  <2> QED BY <1>1, <1>2, FitShows
<1>4. fit_encoded_payload(text, budget) = IF encoded_payload_size(text) <= budget THEN text ELSE fit[L]
  BY DEF fit_encoded_payload, fit, L, IsFit, Fewer, Kept
<1>5. encoded_payload_size(text) <= budget => Shows(text, text, budget)
  BY TextIsExtract DEF Shows
<1> QED BY <1>3, <1>4, <1>5

(* One stream, given its budget.                                                     *)
ShownStream(shown, text, budget) ==
  /\ Shows(shown.text, text, budget)
  /\ shown.text # text => shown.truncated
  /\ encoded_payload_size(text) <= budget => shown.text = text

LEMMA CutShows ==
  ASSUME NEW text \in Seq(Nat), NEW budget \in Nat, NEW already
  PROVE  ShownStream(Cut(text, budget, already), text, budget)
<1>1. Shows(fit_encoded_payload(text, budget), text, budget)
  BY FittedShows
<1>2. encoded_payload_size(text) \in Nat BY SizeIs
<1>3. CASE encoded_payload_size(text) > budget
  <2>1. ~(encoded_payload_size(text) <= budget)
    BY <1>2, <1>3
  <2>2. /\ Cut(text, budget, already).text = fit_encoded_payload(text, budget)
        /\ Cut(text, budget, already).truncated = TRUE
    BY <1>3 DEF Cut
  <2> QED BY <1>1, <2>1, <2>2 DEF ShownStream
<1>4. CASE ~(encoded_payload_size(text) > budget)
  <2>1. encoded_payload_size(text) <= budget
    BY <1>2, <1>4
  <2>2. Cut(text, budget, already).text = text
    BY <1>4 DEF Cut
  <2>3. Shows(text, text, budget) BY <2>1, TextIsExtract DEF Shows
  <2> QED BY <2>2, <2>3 DEF ShownStream
<1> QED BY <1>3, <1>4

(* The two budgets never exceed the room, and a stream that needs less than half of  *)
(* it has what it needs.                                                             *)
LEMMA BudgetsFit ==
  ASSUME NEW room \in Nat, NEW out \in Nat, NEW err \in Nat, out + err > room,
         NEW half \in Nat, half = room \div 2
  PROVE  LET budget == IF out < half THEN out ELSE IF err < room - half THEN room - err ELSE half
         IN  /\ budget \in 0..room
             /\ out < half => out <= budget
             /\ err < half => err <= room - budget
<1>1. half <= room /\ half <= room - half
  OBVIOUS
<1> QED BY <1>1

(* The budgets of the two streams of an output.                                      *)
OutRoom(output) ==
  LET out == encoded_payload_size(output.stdout)
      err == encoded_payload_size(output.stderr)
  IN  IF out + err <= MaxContent THEN out ELSE OutBudget(out, err)

ErrRoom(output) ==
  LET out == encoded_payload_size(output.stdout)
      err == encoded_payload_size(output.stderr)
  IN  IF out + err <= MaxContent THEN err ELSE MaxContent - OutBudget(out, err)

LEMMA RoomsFit ==
  ASSUME NEW output \in Outputs
  PROVE  /\ OutRoom(output) \in Nat /\ ErrRoom(output) \in Nat
         /\ OutRoom(output) + ErrRoom(output) <= MaxContent
         /\ encoded_payload_size(output.stdout) < MaxContent \div 2 =>
              encoded_payload_size(output.stdout) <= OutRoom(output)
         /\ encoded_payload_size(output.stderr) < MaxContent \div 2 =>
              encoded_payload_size(output.stderr) <= ErrRoom(output)
<1> DEFINE out == encoded_payload_size(output.stdout)
           err == encoded_payload_size(output.stderr)
           half == MaxContent \div 2
           budget == OutBudget(out, err)
           orr == OutRoom(output)
           er == ErrRoom(output)
<1>1. out \in Nat /\ err \in Nat BY OutputsAreTexts, SizeIs
<1>2. MaxContent \in Nat BY ContentBounds
<1>3. half \in Nat /\ half = MaxContent \div 2
  BY <1>2
<1>4. budget = IF out < half THEN out ELSE IF err < MaxContent - half THEN MaxContent - err ELSE half
  BY DEF OutBudget
<1>5. /\ orr = IF out + err <= MaxContent THEN out ELSE budget
      /\ er = IF out + err <= MaxContent THEN err ELSE MaxContent - budget
  BY DEF OutRoom, ErrRoom
<1> HIDE DEF out, err, half, budget, orr, er
<1>6. CASE out + err <= MaxContent
  BY <1>1, <1>2, <1>5, <1>6 DEF out, err, half, orr, er
<1>7. CASE ~(out + err <= MaxContent)
  <2>1. out + err > MaxContent BY <1>1, <1>2, <1>7
  <2>2. /\ budget \in 0..MaxContent
        /\ out < half => out <= budget
        /\ err < half => err <= MaxContent - budget
    BY <1>1, <1>2, <1>3, <1>4, <2>1, BudgetsFit
  <2>3. /\ orr \in Nat /\ er \in Nat /\ orr + er <= MaxContent
        /\ out < half => out <= orr
        /\ err < half => err <= er
    BY <1>2, <1>5, <1>7, <2>2
  <2> QED BY <2>3 DEF out, err, half, orr, er
<1> QED BY <1>6, <1>7

LEMMA OutputAsked ==
  ASSUME AnswerInv, Answered("build")
  PROVE  answer.value = bounded_process_result(asked.output) /\ asked.output \in Outputs
<1>1. answer.value = bounded_process_result(asked.output)
  BY AnswerOf DEF Answered
<1>2. asked.output \in Outputs
  BY CallsNameTools DEF Answered, AnswerInv, Posed
<1> QED BY <1>1, <1>2

(* The two streams of an answer that was given are cut to those budgets.             *)
LEMMA ResultIsCut ==
  ASSUME NEW output \in Outputs, bounded_process_result(output).ok
  PROVE  /\ bounded_process_result(output).stdout = Cut(output.stdout, OutRoom(output), output.truncated)
         /\ bounded_process_result(output).stderr = Cut(output.stderr, ErrRoom(output), FALSE)
<1> DEFINE blind == \/ \E i \in DOMAIN output.stdout : output.stdout[i] = 0
                    \/ \E i \in DOMAIN output.stderr : output.stderr[i] = 0
           made == [ok |-> TRUE,
                    stdout |-> Cut(output.stdout, OutRoom(output), output.truncated),
                    stderr |-> Cut(output.stderr, ErrRoom(output), FALSE),
                    is_error |-> output.timed_out \/ output.exit_code # 0]
<1>1. bounded_process_result(output) = IF blind THEN Unavailable ELSE made
  BY DEF bounded_process_result, OutRoom, ErrRoom
<1>2. ~blind BY <1>1 DEF Unavailable
<1> QED BY <1>1, <1>2

(* What a build tool answers of its command's output: both streams fit the answer,   *)
(* a stream that is not whole is a first and a last part of what was written and is  *)
(* called truncated, and one that needs less than half of the room is whole          *)
(* (bounded_process_result, cmake_tool_gateway.cpp).                                 *)
THEOREM OutputIsShownAsWritten == Spec => []OutputIsShown
<1>1. AnswerInv => OutputIsShown
  <2> SUFFICES ASSUME AnswerInv, Answered("build"), answer.value.ok
               PROVE  LET Stream(shown, text) ==
                            /\ IsExtract(shown.text, text)
                            /\ shown.text # text => shown.truncated
                            /\ encoded_payload_size(text) < MaxContent \div 2 => shown.text = text
                      IN  /\ Stream(answer.value.stdout, asked.output.stdout)
                          /\ Stream(answer.value.stderr, asked.output.stderr)
                          /\ encoded_payload_size(answer.value.stdout.text)
                               + encoded_payload_size(answer.value.stderr.text) <= MaxContent
    BY DEF OutputIsShown
  <2> DEFINE value == answer.value
             output == asked.output
             out == OutRoom(output)
             err == ErrRoom(output)
  <2>1. value = bounded_process_result(output) /\ output \in Outputs /\ value.ok
    BY OutputAsked
  <2>2. output.stdout \in Seq(Nat) /\ output.stderr \in Seq(Nat) /\ MaxContent \in Nat
    BY <2>1, OutputsAreTexts, ContentBounds
  <2>3. /\ out \in Nat /\ err \in Nat /\ out + err <= MaxContent
        /\ encoded_payload_size(output.stdout) < MaxContent \div 2 => encoded_payload_size(output.stdout) <= out
        /\ encoded_payload_size(output.stderr) < MaxContent \div 2 => encoded_payload_size(output.stderr) <= err
    BY <2>1, RoomsFit
  <2>4. value.stdout = Cut(output.stdout, out, output.truncated) /\ value.stderr = Cut(output.stderr, err, FALSE)
    <3> HIDE DEF value, output
    <3> QED BY <2>1, ResultIsCut
  <2> HIDE DEF value, output, out, err
  <2>5. ShownStream(value.stdout, output.stdout, out) /\ ShownStream(value.stderr, output.stderr, err)
    BY <2>2, <2>3, <2>4, CutShows
  <2>6. /\ value.stdout.text \in Seq(Nat) /\ encoded_payload_size(value.stdout.text) <= out
        /\ value.stderr.text \in Seq(Nat) /\ encoded_payload_size(value.stderr.text) <= err
    BY <2>5 DEF ShownStream, Shows
  <2>7. encoded_payload_size(value.stdout.text) + encoded_payload_size(value.stderr.text) <= MaxContent
    <3> DEFINE a == encoded_payload_size(value.stdout.text)
               b == encoded_payload_size(value.stderr.text)
    <3>1. a \in Nat /\ b \in Nat /\ a <= out /\ b <= err
      BY <2>6, SizeIs
    <3> HIDE DEF a, b
    <3>2. a + b <= MaxContent BY <2>2, <2>3, <3>1
    <3> QED BY <3>2 DEF a, b
  <2> QED BY <2>3, <2>5, <2>7 DEF ShownStream, Shows, value, output
<1> QED BY <1>1, AnswersAreTheCodes, PTL

(* ----------------------------- listing and searching ----------------------------- *)

(* The elements of a sequence. *)
LEMMA Elements ==
  ASSUME NEW T, NEW s \in Seq(T)
  PROVE  /\ \A x : x \in ToSet(s) <=> \E i \in 1..Len(s) : s[i] = x
         /\ ToSet(s) \subseteq T /\ Len(s) \in Nat /\ DOMAIN s = 1..Len(s)
<1>1. DOMAIN s = 1..Len(s) /\ Len(s) \in Nat /\ \A i \in 1..Len(s) : s[i] \in T
  OBVIOUS
<1> QED BY <1>1 DEF ToSet

LEMMA OfTwo ==
  ASSUME NEW T, NEW a \in Seq(T), NEW b \in Seq(T)
  PROVE  ToSet(a \o b) = ToSet(a) \cup ToSet(b)
<1>1. /\ a \o b \in Seq(T) /\ Len(a \o b) = Len(a) + Len(b) /\ Len(a) \in Nat /\ Len(b) \in Nat
      /\ \A i \in 1..Len(a) + Len(b) : (a \o b)[i] = IF i <= Len(a) THEN a[i] ELSE b[i - Len(a)]
  BY ConcatProperties
<1> DEFINE c == a \o b
           m == Len(a)
           n == Len(b)
<1>2. c \in Seq(T) /\ Len(c) = m + n /\ m \in Nat /\ n \in Nat
      /\ \A i \in 1..m + n : c[i] = IF i <= m THEN a[i] ELSE b[i - m]
  BY <1>1
<1>3. /\ \A x : x \in ToSet(a) <=> \E i \in 1..m : a[i] = x
      /\ \A x : x \in ToSet(b) <=> \E i \in 1..n : b[i] = x
      /\ \A x : x \in ToSet(c) <=> \E i \in 1..Len(c) : c[i] = x
  BY <1>2, Elements
<1> HIDE DEF c, m, n
<1>4. ASSUME NEW x \in ToSet(c) PROVE x \in ToSet(a) \cup ToSet(b)
  <2>1. PICK i \in 1..m + n : c[i] = x
    BY <1>2, <1>3, <1>4
  <2>2. CASE i <= m
    <3>1. i \in 1..m /\ a[i] = x BY <1>2, <2>1, <2>2
    <3> QED BY <1>3, <3>1
  <2>3. CASE ~(i <= m)
    <3>1. i - m \in 1..n /\ b[i - m] = x BY <1>2, <2>1, <2>3
    <3> QED BY <1>3, <3>1
  <2> QED BY <2>2, <2>3
<1>5. ASSUME NEW x \in ToSet(a) PROVE x \in ToSet(c)
  <2>1. PICK i \in 1..m : a[i] = x
    BY <1>3, <1>5
  <2>2. i \in 1..m + n /\ c[i] = x BY <1>2, <2>1
  <2> QED BY <1>2, <1>3, <2>2
<1>6. ASSUME NEW x \in ToSet(b) PROVE x \in ToSet(c)
  <2>1. PICK i \in 1..n : b[i] = x
    BY <1>3, <1>6
  <2>2. m + i \in 1..m + n /\ ~(m + i <= m) /\ m + i - m = i
    BY <1>2
  <2>3. c[m + i] = x BY <1>2, <2>1, <2>2
  <2> QED BY <1>2, <1>3, <2>2, <2>3
<1> QED BY <1>4, <1>5, <1>6 DEF c

(* No two elements of a sequence are the same: kept by joining two that share none.  *)
LEMMA TwoDistinct ==
  ASSUME NEW T, NEW a \in Seq(T), NEW b \in Seq(T), IsInjective(a), IsInjective(b),
         ToSet(a) \cap ToSet(b) = {}
  PROVE  IsInjective(a \o b)
<1> DEFINE c == a \o b
           m == Len(a)
           n == Len(b)
<1>2. c \in Seq(T) /\ Len(c) = m + n /\ m \in Nat /\ n \in Nat
      /\ \A i \in 1..m + n : c[i] = IF i <= m THEN a[i] ELSE b[i - m]
  BY ConcatProperties
<1>3. /\ \A i \in 1..m : a[i] \in ToSet(a)
      /\ \A i \in 1..n : b[i] \in ToSet(b)
  BY Elements
<1>4. /\ \A i, j \in 1..m : a[i] = a[j] => i = j
      /\ \A i, j \in 1..n : b[i] = b[j] => i = j
      /\ DOMAIN c = 1..m + n
  <2>1. DOMAIN a = 1..m /\ DOMAIN b = 1..n /\ DOMAIN c = 1..Len(c)
    BY <1>2, Elements
  <2> QED BY <1>2, <2>1 DEF IsInjective
<1> HIDE DEF c, m, n
<1>5. ASSUME NEW i \in 1..m + n, NEW j \in 1..m + n, c[i] = c[j] PROVE i = j
  <2>1. CASE i <= m /\ j <= m
    <3>1. i \in 1..m /\ j \in 1..m /\ a[i] = a[j]
      BY <1>2, <1>5, <2>1
    <3> QED BY <1>4, <3>1
  <2>2. CASE ~(i <= m) /\ ~(j <= m)
    <3>1. i - m \in 1..n /\ j - m \in 1..n /\ b[i - m] = b[j - m]
      BY <1>2, <1>5, <2>2
    <3>2. i - m = j - m BY <1>4, <3>1
    <3> QED BY <1>2, <3>2
  <2>3. CASE i <= m /\ ~(j <= m)
    <3>1. i \in 1..m /\ j - m \in 1..n /\ a[i] = b[j - m]
      BY <1>2, <1>5, <2>3
    <3> QED BY <1>3, <3>1
  <2>4. CASE ~(i <= m) /\ j <= m
    <3>1. j \in 1..m /\ i - m \in 1..n /\ a[j] = b[i - m]
      BY <1>2, <1>5, <2>4
    <3> QED BY <1>3, <3>1
  <2> QED BY <2>1, <2>2, <2>3, <2>4
<1>6. IsInjective(c) BY <1>4, <1>5 DEF IsInjective
<1> QED BY <1>6 DEF c

(* What is left of a sequence when some of its elements are left out.                *)
IsThose(f, s, set, N) ==
  f = [n \in 0..N |-> IF n = 0 THEN <<>>
                      ELSE IF s[n] \in set THEN Append(f[n - 1], s[n]) ELSE f[n - 1]]

LEMMA ThoseIs ==
  ASSUME NEW T, NEW s \in Seq(T), NEW set
  PROVE  \E f : IsThose(f, s, set, Len(s)) /\ Those(s, set) = f[Len(s)]
<1> DEFINE N == Len(s)
<1>1. N \in Nat /\ \A i \in 1..N : s[i] \in T
  OBVIOUS
<1>2. Those(s, set) = (CHOOSE f : IsThose(f, s, set, N))[N]
  BY DEF Those, IsThose
<1> HIDE DEF N
<1>3. \E f : IsThose(f, s, set, N)
  <2> DEFINE step == [p \in (1..N) \X Seq(T) |-> IF s[p[1]] \in set THEN Append(p[2], s[p[1]]) ELSE p[2]]
  <2>1. step \in [(1..N) \X Seq(T) -> Seq(T)] /\ <<>> \in Seq(T)
    <3>1. \A p \in (1..N) \X Seq(T) : s[p[1]] \in T /\ p[2] \in Seq(T)
      BY <1>1
    <3>2. \A p \in (1..N) \X Seq(T) : Append(p[2], s[p[1]]) \in Seq(T)
      BY <3>1, AppendProperties
    <3>3. \A p \in (1..N) \X Seq(T) : step[p] \in Seq(T)
      BY <3>1, <3>2
    <3> QED BY <3>3
  <2>2. \A k \in 1..N, t \in Seq(T) : step[<<k, t>>] = IF s[k] \in set THEN Append(t, s[k]) ELSE t
    OBVIOUS
  <2> HIDE DEF step
  <2>3. PICK f : Passes(f, <<>>, step, N, Seq(T))
    BY <1>1, <2>1, PassesExist
  <2>4. \A k \in 0..N : f[k] = IF k = 0 THEN <<>> ELSE IF s[k] \in set THEN Append(f[k - 1], s[k]) ELSE f[k - 1]
    <3>1. \A k \in 0..N : k # 0 => k \in 1..N
      BY <1>1
    <3> QED BY <2>2, <2>3, <3>1 DEF Passes
  <2> QED BY <2>3, <2>4 DEF IsThose, Passes
<1> DEFINE upto == CHOOSE f : IsThose(f, s, set, N)
<1>4. IsThose(upto, s, set, N) BY <1>3
<1> QED BY <1>2, <1>4 DEF N

LEMMA ThoseAre ==
  ASSUME NEW T, NEW s \in Seq(T), NEW set
  PROVE  /\ Those(s, set) \in Seq(T) /\ Len(Those(s, set)) <= Len(s)
         /\ ToSet(Those(s, set)) = ToSet(s) \cap set
         /\ IsInjective(s) => IsInjective(Those(s, set))
<1> DEFINE N == Len(s)
           Upto(n) == {s[i] : i \in 1..n} \cap set
           Good(n, t) == /\ t \in Seq(T) /\ Len(t) <= n /\ ToSet(t) = Upto(n)
                         /\ IsInjective(s) => IsInjective(t)
<1>1. N \in Nat /\ DOMAIN s = 1..N /\ \A i \in 1..N : s[i] \in T
  OBVIOUS
<1>2. PICK f : IsThose(f, s, set, N) /\ Those(s, set) = f[N]
  BY ThoseIs
<1>3. \A n \in 0..N : f[n] = IF n = 0 THEN <<>> ELSE IF s[n] \in set THEN Append(f[n - 1], s[n]) ELSE f[n - 1]
  BY <1>2 DEF IsThose
<1>9. ToSet(s) = {s[i] : i \in 1..N} BY <1>1 DEF ToSet
<1> HIDE DEF N
<1> DEFINE S == {n \in Nat : n <= N => Good(n, f[n])}
<1>4. 0 \in S
  <2>1. f[0] = <<>> BY <1>1, <1>3
  <2>2. <<>> \in Seq(T) /\ Len(<<>>) <= 0 /\ ToSet(<<>>) = {} /\ IsInjective(<<>>)
    BY DEF ToSet, IsInjective
  <2>3. Upto(0) = {} OBVIOUS
  <2> QED BY <2>1, <2>2, <2>3
<1>5. ASSUME NEW n \in Nat, n \in S PROVE n + 1 \in S
  <2> SUFFICES ASSUME n + 1 <= N PROVE Good(n + 1, f[n + 1])
    OBVIOUS
  <2> DEFINE k == n + 1
             t == f[n]
             x == s[k]
  <2>1. k \in 1..N /\ k \in 0..N /\ k # 0 /\ k - 1 = n /\ n <= N /\ k \in Nat
    BY <1>1
  <2>2. Good(n, t) BY <1>5, <2>1
  <2>3. f[k] = IF x \in set THEN Append(t, x) ELSE t
    BY <1>3, <2>1
  <2>4. x \in T /\ {s[i] : i \in 1..k} = {s[i] : i \in 1..n} \cup {x}
    <3>1. (\A i \in 1..k : i \in 1..n \/ i = k) /\ (\A i \in 1..n : i \in 1..k) /\ k \in 1..k
      <4> HIDE DEF S, t, x
      <4> QED BY <1>1, <2>1 DEF k
    <3> QED BY <1>1, <2>1, <3>1
  <2>5. t \in Seq(T) /\ Len(t) \in Nat /\ Len(t) <= k /\ Len(t) + 1 <= k
    BY <2>1, <2>2
  <2>9. \A i \in 1..n : i \in 1..N /\ i # k
    <3> HIDE DEF S, t, x
    <3> QED BY <1>1, <2>1 DEF k
  <2>6. IsInjective(s) => x \notin ToSet(t)
    <3> SUFFICES ASSUME IsInjective(s), x \in ToSet(t) PROVE FALSE
      OBVIOUS
    <3>1. PICK i \in 1..n : s[i] = x
      BY <2>2
    <3>2. i \in 1..N /\ i # k BY <2>9
    <3> QED BY <1>1, <2>1, <3>1, <3>2 DEF IsInjective
  <2> HIDE DEF t, x, k, S
  <2>7. CASE x \in set
    <3>1. /\ Append(t, x) \in Seq(T) /\ Len(Append(t, x)) = Len(t) + 1
          /\ \A i \in 1..Len(t) : Append(t, x)[i] = t[i]
          /\ Append(t, x)[Len(t) + 1] = x
      BY <2>4, <2>5, AppendProperties
    <3>2. ToSet(Append(t, x)) = ToSet(t) \cup {x}
      <4>1. \A y : y \in ToSet(t) <=> \E i \in 1..Len(t) : t[i] = y
        BY <2>5, Elements
      <4>3. \A y : y \in ToSet(Append(t, x)) <=> \E i \in 1..Len(t) + 1 : Append(t, x)[i] = y
        <5>1. \A y : y \in ToSet(Append(t, x)) <=> \E i \in 1..Len(Append(t, x)) : Append(t, x)[i] = y
          BY <3>1, Elements
        <5> QED BY <3>1, <5>1
      <4>2. /\ \A i \in 1..Len(t) + 1 : i \in 1..Len(t) \/ i = Len(t) + 1
            /\ \A i \in 1..Len(t) : i \in 1..Len(t) + 1
            /\ Len(t) + 1 \in 1..Len(t) + 1
        BY <2>5
      <4> QED BY <3>1, <4>1, <4>2, <4>3
    <3>3. ToSet(Append(t, x)) = Upto(k) BY <2>2, <2>4, <2>7, <3>2
    <3>4. IsInjective(s) => IsInjective(Append(t, x))
      <4> SUFFICES ASSUME IsInjective(s) PROVE IsInjective(Append(t, x))
        OBVIOUS
      <4>1. IsInjective(t) /\ DOMAIN t = 1..Len(t) /\ DOMAIN Append(t, x) = 1..Len(t) + 1
        BY <2>2, <2>5, <3>1, Elements
      <4>2. \A i \in 1..Len(t) : t[i] # x BY <2>5, <2>6, Elements
      <4>3. \A i \in 1..Len(t) + 1 : i \in 1..Len(t) \/ i = Len(t) + 1
        BY <2>5
      <4>4. \A i, j \in 1..Len(t) : t[i] = t[j] => i = j
        BY <4>1 DEF IsInjective
      <4> QED BY <3>1, <4>1, <4>2, <4>3, <4>4 DEF IsInjective
    <3> QED BY <2>3, <2>5, <2>7, <3>1, <3>3, <3>4 DEF k
  <2>8. CASE x \notin set
    <3>1. ToSet(t) = Upto(k) BY <2>2, <2>4, <2>8
    <3> QED BY <2>2, <2>3, <2>5, <2>8, <3>1 DEF k
  <2> QED BY <2>7, <2>8
<1> HIDE DEF S
<1>6. N \in S BY <1>1, <1>4, <1>5, SetInduction
<1>7. Good(N, f[N]) BY <1>1, <1>6 DEF S
<1> QED BY <1>2, <1>7, <1>9 DEF N

LEMMA InsertedAt ==
  ASSUME NEW T, NEW s \in Seq(T), NEW x \in T, NEW i \in 1..Len(s) + 1
  PROVE  /\ InsertAt(s, i, x) \in Seq(T) /\ Len(InsertAt(s, i, x)) = Len(s) + 1
         /\ \A j \in 1..Len(s) + 1 :
              InsertAt(s, i, x)[j] = IF j < i THEN s[j] ELSE IF j = i THEN x ELSE s[j - 1]
<1> DEFINE N == Len(s)
           a == SubSeq(s, 1, i - 1)
           b == SubSeq(s, i, N)
           ax == a \o <<x>>
<1>1. N \in Nat /\ N = Len(s) /\ i \in Nat /\ i >= 1 /\ i <= N + 1 /\ i - 1 \in Nat
  OBVIOUS
<1>7. InsertAt(s, i, x) = ax \o b BY DEF InsertAt
<1> HIDE DEF N
<1>2. a \in Seq(T) /\ Len(a) = i - 1 /\ \A j \in 1..i - 1 : a[j] = s[j]
  <2>1. 1 \in Nat /\ 1 >= 1 /\ 1 <= i - 1 + 1 /\ i - 1 <= Len(s)
    BY <1>1
  <2>2. /\ SubSeq(s, 1, i - 1) \in Seq(T) /\ Len(SubSeq(s, 1, i - 1)) = i - 1 - 1 + 1
        /\ \A j \in 1..i - 1 - 1 + 1 : SubSeq(s, 1, i - 1)[j] = s[1 + j - 1]
    BY <1>1, <2>1, PartOf
  <2>3. i - 1 - 1 + 1 = i - 1 /\ \A j \in 1..i - 1 : 1 + j - 1 = j
    BY <1>1
  <2> QED BY <2>2, <2>3
<1>3. b \in Seq(T) /\ Len(b) = N - i + 1 /\ \A j \in 1..N - i + 1 : b[j] = s[i + j - 1]
  <2>1. i <= N + 1 /\ N <= Len(s) BY <1>1
  <2> QED BY <1>1, <2>1, PartOf
<1> HIDE DEF a, b, ax
<1>4. /\ ax \in Seq(T) /\ Len(ax) = i /\ \A j \in 1..i : ax[j] = IF j < i THEN s[j] ELSE x
  <2>1. <<x>> \in Seq(T) /\ Len(<<x>>) = 1 /\ <<x>>[1] = x
    OBVIOUS
  <2>2. /\ a \o <<x>> \in Seq(T) /\ Len(a \o <<x>>) = Len(a) + Len(<<x>>)
        /\ \A j \in 1..Len(a) + Len(<<x>>) : (a \o <<x>>)[j] = IF j <= Len(a) THEN a[j] ELSE <<x>>[j - Len(a)]
    BY <1>2, <2>1, ConcatProperties
  <2>3. i - 1 + 1 = i BY <1>1
  <2>4. ax \in Seq(T) /\ Len(ax) = i /\ \A j \in 1..i : ax[j] = IF j <= i - 1 THEN a[j] ELSE <<x>>[j - (i - 1)]
    BY <1>2, <2>1, <2>2, <2>3 DEF ax
  <2>5. ASSUME NEW j \in 1..i PROVE ax[j] = IF j < i THEN s[j] ELSE x
    <3>1. CASE j < i
      <4>1. j <= i - 1 /\ j \in 1..i - 1 BY <1>1, <3>1
      <4> QED BY <1>2, <2>4, <3>1, <4>1
    <3>2. CASE ~(j < i)
      <4>1. ~(j <= i - 1) /\ j - (i - 1) = 1 BY <1>1, <3>2
      <4> QED BY <2>1, <2>4, <3>2, <4>1
    <3> QED BY <3>1, <3>2
  <2> QED BY <2>4, <2>5
<1>5. /\ ax \o b \in Seq(T) /\ Len(ax \o b) = i + (N - i + 1)
      /\ \A j \in 1..i + (N - i + 1) : (ax \o b)[j] = IF j <= i THEN ax[j] ELSE b[j - i]
  <2>1. /\ ax \o b \in Seq(T) /\ Len(ax \o b) = Len(ax) + Len(b)
        /\ \A j \in 1..Len(ax) + Len(b) : (ax \o b)[j] = IF j <= Len(ax) THEN ax[j] ELSE b[j - Len(ax)]
    BY <1>3, <1>4, ConcatProperties
  <2> QED BY <1>3, <1>4, <2>1
<1>6. i + (N - i + 1) = N + 1 BY <1>1
<1>8. ASSUME NEW j \in 1..N + 1
      PROVE  (ax \o b)[j] = IF j < i THEN s[j] ELSE IF j = i THEN x ELSE s[j - 1]
  <2>1. CASE j <= i
    <3>1. j \in 1..i /\ (~(j < i) => j = i) BY <1>1, <2>1
    <3> QED BY <1>4, <1>5, <1>6, <2>1, <3>1
  <2>2. CASE ~(j <= i)
    <3>1. j - i \in 1..N - i + 1 /\ i + (j - i) - 1 = j - 1 /\ ~(j < i) /\ j # i
      BY <1>1, <2>2
    <3> QED BY <1>3, <1>5, <1>6, <2>2, <3>1
  <2> QED BY <2>1, <2>2
<1> QED BY <1>5, <1>6, <1>7, <1>8 DEF N

(* The order of the paths, on a set of them.                                         *)
OrderedSet(T) == \A p, q \in T : Position(p) \in Nat /\ (Position(p) = Position(q) => p = q)

Rising(s) == \A i, j \in DOMAIN s : i < j => Position(s[i]) < Position(s[j])

Placed(sorted, path) ==
  InsertAt(sorted, Min({i \in DOMAIN sorted : Position(path) < Position(sorted[i])}
                         \cup {Len(sorted) + 1}), path)

LEMMA PlacedRises ==
  ASSUME NEW T, OrderedSet(T), NEW s \in Seq(T), NEW x \in T, x \notin ToSet(s), Rising(s)
  PROVE  /\ Placed(s, x) \in Seq(T) /\ Len(Placed(s, x)) = Len(s) + 1
         /\ ToSet(Placed(s, x)) = ToSet(s) \cup {x}
         /\ Rising(Placed(s, x))
<1> DEFINE N == Len(s)
           Later == {i \in DOMAIN s : Position(x) < Position(s[i])} \cup {N + 1}
           at == Min(Later)
           t == Placed(s, x)
<1>1. N \in Nat /\ DOMAIN s = 1..N /\ (\A i \in 1..N : s[i] \in T)
  OBVIOUS
<1>2. \A p, q \in T : Position(p) \in Nat /\ (Position(p) = Position(q) => p = q)
  BY DEF OrderedSet
<1>12. N = Len(s) OBVIOUS
<1>3. Later \subseteq 1..N + 1 /\ Later # {} /\ N + 1 \in Later
  BY <1>1
<1>4. at \in Later /\ \A i \in Later : at <= i
  <2>1. Later \subseteq Nat /\ Later # {} BY <1>1, <1>3
  <2> HIDE DEF Later
  <2> QED BY <2>1, MinIsLeast
<1>5. at \in 1..N + 1 BY <1>3, <1>4
<1>6. \A i \in 1..N : i < at => Position(s[i]) < Position(x)
  <2> SUFFICES ASSUME NEW i \in 1..N, i < at PROVE Position(s[i]) < Position(x)
    OBVIOUS
  <2>1. i \notin Later
    <3>1. ~(at <= i) BY <1>1, <1>5
    <3> HIDE DEF Later
    <3> QED BY <1>4, <3>1
  <2>2. ~(Position(x) < Position(s[i])) BY <1>1, <2>1
  <2>3. s[i] # x
    <3>1. s[i] \in ToSet(s) BY <1>1 DEF ToSet
    <3> QED BY <3>1
  <2>4. Position(s[i]) \in Nat /\ Position(x) \in Nat /\ Position(s[i]) # Position(x)
    BY <1>1, <1>2, <2>3
  <2> QED BY <2>2, <2>4
<1>7. \A i \in 1..N : i >= at => Position(x) < Position(s[i])
  <2> SUFFICES ASSUME NEW i \in 1..N, i >= at PROVE Position(x) < Position(s[i])
    OBVIOUS
  <2>1. at \in 1..N BY <1>1, <1>5
  <2>2. Position(x) < Position(s[at]) BY <1>1, <1>4, <2>1
  <2>3. at < i => Position(s[at]) < Position(s[i])
    BY <1>1, <2>1 DEF Rising
  <2>4. Position(x) \in Nat /\ Position(s[at]) \in Nat /\ Position(s[i]) \in Nat
    BY <1>1, <1>2, <2>1
  <2>5. at = i \/ at < i BY <1>5, <2>1
  <2> QED BY <2>2, <2>3, <2>4, <2>5
<1>8. t = InsertAt(s, at, x) BY DEF Placed
<1>13. \A i, j \in 1..N : i < j => Position(s[i]) < Position(s[j])
  BY <1>1 DEF Rising
<1> HIDE DEF N, Later, at, t
<1>9. /\ t \in Seq(T) /\ Len(t) = N + 1
      /\ \A j \in 1..N + 1 : t[j] = IF j < at THEN s[j] ELSE IF j = at THEN x ELSE s[j - 1]
  <2>1. at \in 1..Len(s) + 1 BY <1>5, <1>12
  <2>2. /\ InsertAt(s, at, x) \in Seq(T) /\ Len(InsertAt(s, at, x)) = Len(s) + 1
        /\ \A j \in 1..Len(s) + 1 :
              InsertAt(s, at, x)[j] = IF j < at THEN s[j] ELSE IF j = at THEN x ELSE s[j - 1]
    BY <2>1, InsertedAt
  <2> QED BY <1>8, <1>12, <2>2
<1>10. ToSet(t) = ToSet(s) \cup {x}
  <2>1. \A y : y \in ToSet(s) <=> \E i \in 1..N : s[i] = y
    BY <1>12, Elements
  <2>2. \A y : y \in ToSet(t) <=> \E i \in 1..N + 1 : t[i] = y
    <3>1. \A y : y \in ToSet(t) <=> \E i \in 1..Len(t) : t[i] = y
      BY <1>9, Elements
    <3> QED BY <1>9, <3>1
  <2>3. ASSUME NEW y \in ToSet(t) PROVE y \in ToSet(s) \cup {x}
    <3>1. PICK i \in 1..N + 1 : t[i] = y
      BY <2>2, <2>3
    <3>2. CASE i < at
      <4>1. i \in 1..N BY <1>1, <1>5, <3>2
      <4> QED BY <1>9, <2>1, <3>1, <3>2, <4>1
    <3>3. CASE i = at
      <4>1. ~(i < at) BY <1>1, <1>5, <3>3
      <4> QED BY <1>9, <3>1, <3>3, <4>1
    <3>4. CASE ~(i < at) /\ i # at
      <4>1. i - 1 \in 1..N BY <1>1, <1>5, <3>4
      <4> QED BY <1>9, <2>1, <3>1, <3>4, <4>1
    <3> QED BY <3>2, <3>3, <3>4
  <2>4. x \in ToSet(t)
    <3>1. ~(at < at) BY <1>1, <1>5
    <3> QED BY <1>5, <1>9, <2>2, <3>1
  <2>5. ASSUME NEW y \in ToSet(s) PROVE y \in ToSet(t)
    <3>1. PICK i \in 1..N : s[i] = y
      BY <2>1, <2>5
    <3>2. CASE i < at
      <4>1. i \in 1..N + 1 BY <1>1
      <4> QED BY <1>9, <2>2, <3>1, <3>2, <4>1
    <3>3. CASE ~(i < at)
      <4>1. i + 1 \in 1..N + 1 /\ ~(i + 1 < at) /\ i + 1 # at /\ i + 1 - 1 = i
        BY <1>1, <1>5, <3>3
      <4>2. t[i + 1] = y BY <1>9, <3>1, <4>1
      <4> QED BY <2>2, <4>1, <4>2
    <3> QED BY <3>2, <3>3
  <2> QED BY <2>3, <2>4, <2>5
<1>11. Rising(t)
  <2>1. DOMAIN t = 1..N + 1 BY <1>9, Elements
  <2>2. ASSUME NEW i \in 1..N + 1, NEW j \in 1..N + 1, i < j
        PROVE  Position(t[i]) < Position(t[j])
    <3>1. CASE j < at
      <4>1. i \in 1..N /\ j \in 1..N /\ i < at
        BY <1>1, <1>5, <2>2, <3>1
      <4> QED BY <1>9, <1>13, <2>2, <3>1, <4>1
    <3>2. CASE j = at
      <4>1. i \in 1..N /\ i < at /\ ~(j < at)
        BY <1>1, <1>5, <2>2, <3>2
      <4> QED BY <1>6, <1>9, <3>2, <4>1
    <3>3. CASE ~(j < at) /\ j # at
      <4>1. j - 1 \in 1..N /\ j - 1 >= at BY <1>1, <1>5, <3>3
      <4>2. t[j] = s[j - 1] BY <1>9, <3>3
      <4>3. CASE i < at
        <5>1. i \in 1..N /\ i < j - 1 BY <1>1, <1>5, <4>1, <4>3
        <5> QED BY <1>9, <1>13, <4>1, <4>2, <4>3, <5>1
      <4>4. CASE i = at
        <5>1. ~(i < at) BY <1>1, <1>5, <4>4
        <5> QED BY <1>7, <1>9, <4>1, <4>2, <4>4, <5>1
      <4>5. CASE ~(i < at) /\ i # at
        <5>1. i - 1 \in 1..N /\ i - 1 < j - 1
          BY <1>1, <1>5, <2>2, <4>5
        <5> QED BY <1>9, <1>13, <4>1, <4>2, <4>5, <5>1
      <4> QED BY <4>3, <4>4, <4>5
    <3> QED BY <3>1, <3>2, <3>3
  <2> QED BY <2>1, <2>2 DEF Rising
<1> QED BY <1>9, <1>10, <1>11, <1>12 DEF t

LEMMA PlacedTyped ==
  ASSUME NEW T, NEW s \in Seq(T), NEW x \in T
  PROVE  Placed(s, x) \in Seq(T)
<1> DEFINE Later == {i \in DOMAIN s : Position(x) < Position(s[i])} \cup {Len(s) + 1}
<1>1. Later \subseteq Nat /\ Later # {} /\ Later \subseteq 1..Len(s) + 1
  OBVIOUS
<1>2. Placed(s, x) = InsertAt(s, Min(Later), x)
  BY DEF Placed
<1> HIDE DEF Later
<1>3. Min(Later) \in 1..Len(s) + 1 BY <1>1, MinIsLeast
<1> QED BY <1>2, <1>3, InsertedAt

IsOrdered(f, s, N) == f = [n \in 0..N |-> IF n = 0 THEN <<>> ELSE Placed(f[n - 1], s[n])]

LEMMA InOrderIs ==
  ASSUME NEW T, NEW s \in Seq(T)
  PROVE  \E f : IsOrdered(f, s, Len(s)) /\ InOrder(s) = f[Len(s)]
<1> DEFINE N == Len(s)
<1>1. N \in Nat /\ \A i \in 1..N : s[i] \in T
  OBVIOUS
<1>2. InOrder(s) = (CHOOSE f : IsOrdered(f, s, N))[N]
  BY DEF InOrder, IsOrdered, Placed
<1> HIDE DEF N
<1>3. \E f : IsOrdered(f, s, N)
  <2> DEFINE step == [p \in (1..N) \X Seq(T) |-> Placed(p[2], s[p[1]])]
  <2>1. step \in [(1..N) \X Seq(T) -> Seq(T)] /\ <<>> \in Seq(T)
    <3>1. \A p \in (1..N) \X Seq(T) : s[p[1]] \in T /\ p[2] \in Seq(T)
      BY <1>1
    <3>2. \A p \in (1..N) \X Seq(T) : Placed(p[2], s[p[1]]) \in Seq(T)
      BY <3>1, PlacedTyped
    <3> QED BY <3>2
  <2>2. \A k \in 1..N, t \in Seq(T) : step[<<k, t>>] = Placed(t, s[k])
    OBVIOUS
  <2> HIDE DEF step
  <2>3. PICK f : Passes(f, <<>>, step, N, Seq(T))
    BY <1>1, <2>1, PassesExist
  <2>4. \A k \in 0..N : f[k] = IF k = 0 THEN <<>> ELSE Placed(f[k - 1], s[k])
    <3>1. \A k \in 0..N : k # 0 => k \in 1..N
      BY <1>1
    <3> QED BY <2>2, <2>3, <3>1 DEF Passes
  <2> QED BY <2>3, <2>4 DEF IsOrdered, Passes
<1> DEFINE upto == CHOOSE f : IsOrdered(f, s, N)
<1>4. IsOrdered(upto, s, N) BY <1>3
<1> QED BY <1>2, <1>4 DEF N

(* Sorting: the same paths, in rising order.                                         *)
LEMMA InOrderRises ==
  ASSUME NEW T, OrderedSet(T), NEW s \in Seq(T), IsInjective(s)
  PROVE  /\ InOrder(s) \in Seq(T) /\ Len(InOrder(s)) = Len(s)
         /\ ToSet(InOrder(s)) = ToSet(s) /\ Rising(InOrder(s))
<1> DEFINE N == Len(s)
           Upto(n) == {s[i] : i \in 1..n}
           Good(n, t) == t \in Seq(T) /\ Len(t) = n /\ ToSet(t) = Upto(n) /\ Rising(t)
<1>1. N \in Nat /\ DOMAIN s = 1..N /\ \A i \in 1..N : s[i] \in T
  OBVIOUS
<1>2. PICK f : IsOrdered(f, s, N) /\ InOrder(s) = f[N]
  BY InOrderIs
<1>3. \A n \in 0..N : f[n] = IF n = 0 THEN <<>> ELSE Placed(f[n - 1], s[n])
  BY <1>2 DEF IsOrdered
<1>9. ToSet(s) = Upto(N) BY <1>1 DEF ToSet
<1>8. \A i, j \in 1..N : s[i] = s[j] => i = j
  BY <1>1 DEF IsInjective
<1> HIDE DEF N
<1> DEFINE S == {n \in Nat : n <= N => Good(n, f[n])}
<1>4. 0 \in S
  <2>1. f[0] = <<>> BY <1>1, <1>3
  <2>2. <<>> \in Seq(T) /\ Len(<<>>) = 0 /\ ToSet(<<>>) = {} /\ Rising(<<>>)
    BY DEF ToSet, Rising
  <2>3. Upto(0) = {} OBVIOUS
  <2> QED BY <2>1, <2>2, <2>3
<1>5. ASSUME NEW n \in Nat, n \in S PROVE n + 1 \in S
  <2> SUFFICES ASSUME n + 1 <= N PROVE Good(n + 1, f[n + 1])
    OBVIOUS
  <2> DEFINE k == n + 1
             t == f[n]
             x == s[k]
  <2>1. k \in 1..N /\ k \in 0..N /\ k # 0 /\ k - 1 = n /\ n <= N /\ k \in Nat
    BY <1>1
  <2>2. Good(n, t) BY <1>5, <2>1
  <2>3. f[k] = Placed(t, x) BY <1>3, <2>1
  <2>9. \A i \in 1..n : i \in 1..N /\ i # k
    <3> HIDE DEF S, t, x
    <3> QED BY <1>1, <2>1 DEF k
  <2>4. x \in T /\ Upto(k) = Upto(n) \cup {x}
    <3>1. (\A i \in 1..k : i \in 1..n \/ i = k) /\ (\A i \in 1..n : i \in 1..k) /\ k \in 1..k
      <4> HIDE DEF S, t, x
      <4> QED BY <1>1, <2>1 DEF k
    <3> QED BY <1>1, <2>1, <3>1
  <2>5. x \notin ToSet(t) BY <1>8, <2>1, <2>2, <2>9
  <2>6. k = n + 1 OBVIOUS
  <2> HIDE DEF t, x, k, S
  <2>7. /\ Placed(t, x) \in Seq(T) /\ Len(Placed(t, x)) = Len(t) + 1
        /\ ToSet(Placed(t, x)) = ToSet(t) \cup {x}
        /\ Rising(Placed(t, x))
    BY <2>2, <2>4, <2>5, PlacedRises
  <2> QED BY <2>2, <2>3, <2>4, <2>6, <2>7
<1> HIDE DEF S
<1>6. N \in S BY <1>1, <1>4, <1>5, SetInduction
<1>7. Good(N, f[N]) BY <1>1, <1>6 DEF S
<1> QED BY <1>2, <1>7, <1>9 DEF N

LEMMA RisingDistinct ==
  ASSUME NEW T, OrderedSet(T), NEW s \in Seq(T), Rising(s)
  PROVE  IsInjective(s)
<1>1. DOMAIN s = 1..Len(s) /\ Len(s) \in Nat /\ \A i \in 1..Len(s) : s[i] \in T
  OBVIOUS
<1>2. ASSUME NEW i \in 1..Len(s), NEW j \in 1..Len(s), s[i] = s[j] PROVE i = j
  <2>1. Position(s[i]) \in Nat /\ Position(s[j]) = Position(s[i])
    BY <1>1, <1>2 DEF OrderedSet
  <2>2. i < j \/ j < i \/ i = j OBVIOUS
  <2>3. CASE i < j
    <3>1. Position(s[i]) < Position(s[j]) BY <1>1, <2>3 DEF Rising
    <3> QED BY <2>1, <3>1
  <2>4. CASE j < i
    <3>1. Position(s[j]) < Position(s[i]) BY <1>1, <2>4 DEF Rising
    <3> QED BY <2>1, <3>1
  <2> QED BY <2>2, <2>3, <2>4
<1> QED BY <1>1, <1>2 DEF IsInjective

(* The first paths of a rising sequence. *)
LEMMA RisingPart ==
  ASSUME NEW T, NEW s \in Seq(T), NEW n \in 0..Len(s)
  PROVE  /\ SubSeq(s, 1, n) \in Seq(T) /\ Len(SubSeq(s, 1, n)) = n
         /\ ToSet(SubSeq(s, 1, n)) \subseteq ToSet(s)
         /\ Rising(s) => Rising(SubSeq(s, 1, n))
         /\ IsInjective(s) => IsInjective(SubSeq(s, 1, n))
<1> DEFINE t == SubSeq(s, 1, n)
<1>1. n \in Nat /\ n <= Len(s) /\ Len(s) \in Nat /\ n - 1 + 1 = n /\ 1 >= 1 /\ 1 \in Nat /\ 1 <= n + 1
  OBVIOUS
<1>2. /\ SubSeq(s, 1, n) \in Seq(T) /\ Len(SubSeq(s, 1, n)) = n - 1 + 1
      /\ \A k \in 1..n - 1 + 1 : SubSeq(s, 1, n)[k] = s[1 + k - 1]
  BY <1>1, PartOf
<1>3. t \in Seq(T) /\ Len(t) = n /\ \A k \in 1..n : t[k] = s[k] /\ k \in 1..Len(s)
  <2>1. \A k \in 1..n : 1 + k - 1 = k /\ k \in 1..Len(s)
    BY <1>1
  <2> QED BY <1>1, <1>2, <2>1
<1> HIDE DEF t
<1>4. DOMAIN t = 1..n /\ DOMAIN s = 1..Len(s)
  BY <1>3, Elements
<1>5. ToSet(t) \subseteq ToSet(s) BY <1>3, <1>4 DEF ToSet
<1>6. Rising(s) => Rising(t) BY <1>3, <1>4 DEF Rising
<1>7. IsInjective(s) => IsInjective(t) BY <1>3, <1>4 DEF IsInjective
<1> QED BY <1>3, <1>5, <1>6, <1>7 DEF t

LEMMA PartOfPart ==
  ASSUME NEW T, NEW s \in Seq(T), NEW m \in 0..Len(s), NEW n \in 0..m
  PROVE  SubSeq(SubSeq(s, 1, m), 1, n) = SubSeq(s, 1, n)
<1>1. m \in Nat /\ m <= Len(s) /\ m - 1 + 1 = m /\ 1 >= 1 /\ 1 \in Nat /\ 1 <= m + 1 /\ Len(s) \in Nat
  OBVIOUS
<1>2. n \in Nat /\ n <= m /\ n <= Len(s) /\ n - 1 + 1 = n /\ 1 <= n + 1
  OBVIOUS
<1>3. /\ SubSeq(s, 1, m) \in Seq(T) /\ Len(SubSeq(s, 1, m)) = m - 1 + 1
      /\ \A k \in 1..m - 1 + 1 : SubSeq(s, 1, m)[k] = s[1 + k - 1]
  BY <1>1, PartOf
<1>4. /\ SubSeq(s, 1, n) \in Seq(T) /\ Len(SubSeq(s, 1, n)) = n - 1 + 1
      /\ \A k \in 1..n - 1 + 1 : SubSeq(s, 1, n)[k] = s[1 + k - 1]
  BY <1>1, <1>2, PartOf
<1> DEFINE t == SubSeq(s, 1, m)
           u == SubSeq(s, 1, n)
<1>5. t \in Seq(T) /\ Len(t) = m /\ \A k \in 1..m : t[k] = s[1 + k - 1]
  BY <1>1, <1>3
<1>6. u \in Seq(T) /\ Len(u) = n /\ \A k \in 1..n : u[k] = s[1 + k - 1]
  BY <1>2, <1>4
<1> HIDE DEF t, u
<1>7. n <= Len(t) BY <1>2, <1>5
<1>8. /\ SubSeq(t, 1, n) \in Seq(T) /\ Len(SubSeq(t, 1, n)) = n - 1 + 1
      /\ \A k \in 1..n - 1 + 1 : SubSeq(t, 1, n)[k] = t[1 + k - 1]
  BY <1>1, <1>2, <1>5, <1>7, PartOf
<1>9. \A k \in 1..n : 1 + k - 1 = k /\ k \in 1..m
  BY <1>2
<1>10. \A k \in 1..n : SubSeq(t, 1, n)[k] = u[k]
  BY <1>2, <1>5, <1>6, <1>8, <1>9
<1>11. SubSeq(t, 1, n) = u BY <1>2, <1>6, <1>8, <1>10, SeqEqual
<1> QED BY <1>11 DEF t, u

(* A sequence without its last element. *)
IsFront(t, s) ==
  /\ Len(t) \in Nat /\ Len(s) = Len(t) + 1 /\ t = SubSeq(s, 1, Len(t))
  /\ \A n \in 0..Len(t) : SubSeq(t, 1, n) = SubSeq(s, 1, n)
  /\ \A i \in 1..Len(t) : t[i] = s[i]
  /\ s = Append(t, Last(s))

LEMMA WithoutLast ==
  ASSUME NEW T, NEW s \in Seq(T), s # <<>>
  PROVE  Front(s) \in Seq(T) /\ IsFront(Front(s), s) /\ Last(s) \in T
<1> DEFINE L == Len(s) - 1
           t == SubSeq(s, 1, L)
<1>1. L \in Nat /\ L <= Len(s) /\ L - 1 + 1 = L /\ 1 >= 1 /\ 1 \in Nat /\ 1 <= L + 1 /\ Len(s) = L + 1
  OBVIOUS
<1>2. Front(s) = t BY DEF Front
<1>10. L = Len(s) - 1 OBVIOUS
<1>11. Last(s) = s[L + 1] /\ s[L + 1] \in T
  BY <1>1 DEF Last
<1> HIDE DEF L
<1>3. L \in 0..Len(s) BY <1>1
<1>4. \A n \in 0..L : SubSeq(t, 1, n) = SubSeq(s, 1, n)
  BY <1>3, PartOfPart
<1>6. /\ SubSeq(s, 1, L) \in Seq(T) /\ Len(SubSeq(s, 1, L)) = L - 1 + 1
      /\ \A k \in 1..L - 1 + 1 : SubSeq(s, 1, L)[k] = s[1 + k - 1]
  BY <1>1, PartOf
<1>7. \A k \in 1..L : 1 + k - 1 = k BY <1>1
<1>8. t \in Seq(T) /\ Len(t) = L /\ (\A k \in 1..L : t[k] = s[k]) /\ t = SubSeq(s, 1, L)
  BY <1>1, <1>6, <1>7
<1> HIDE DEF t
<1>12. s = Append(t, Last(s))
  <2> DEFINE e == Last(s)
             u == Append(t, e)
  <2>1. u \in Seq(T) /\ Len(u) = L + 1 /\ u[L + 1] = e /\ \A k \in 1..L : u[k] = t[k]
    BY <1>1, <1>8, <1>11, AppendProperties
  <2>2. e = s[L + 1] BY <1>11
  <2> HIDE DEF u, e
  <2>3. \A k \in 1..Len(s) : s[k] = u[k]
    <3>1. \A k \in 1..L + 1 : k \in 1..L \/ k = L + 1
      BY <1>1
    <3> QED BY <1>1, <1>8, <2>1, <2>2, <3>1
  <2>4. s = u BY <1>1, <2>1, <2>3, SeqEqual
  <2> QED BY <2>4 DEF u, e
<1>9. IsFront(t, s) BY <1>1, <1>4, <1>8, <1>12 DEF IsFront
<1>13. Last(s) \in T BY <1>11
<1>14. Front(s) \in Seq(T) BY <1>2, <1>8
<1>15. IsFront(Front(s), s) BY <1>2, <1>9
<1> QED BY <1>13, <1>14, <1>15

(* A directory a traversal of the path may enter, and what it finds in it.           *)
Enters(tree, path, d) == d = path \/ (d \in Below(tree, path) /\ KindAt(tree, d) = "dir")

LEMMA BelowParent ==
  ASSUME NEW tree \in Trees, NEW path \in DOMAIN tree, NEW p \in Below(tree, path)
  PROVE  /\ p \in DOMAIN tree /\ p # <<>> /\ Visible(tree, p)
         /\ Len(Front(p)) = Len(p) - 1 /\ Len(p) \in Nat \ {0}
         /\ Front(p) \in DOMAIN tree
         /\ Enters(tree, path, Front(p))
         /\ Len(p) = Len(path) + 1 <=> Front(p) = path
<1>1. DOMAIN tree \subseteq Seq(STRING) BY TreesAreListed
<1>2. /\ p \in DOMAIN tree /\ Len(p) > Len(path) /\ IsPrefix(path, p) /\ Visible(tree, p)
      /\ \A n \in Len(path) + 1..Len(p) - 1 :
           Visible(tree, SubSeq(p, 1, n)) /\ KindAt(tree, SubSeq(p, 1, n)) = "dir"
  BY DEF Below
<1> DEFINE L == Len(path)
           M == Len(p)
<1>3. p \in Seq(STRING) /\ path \in Seq(STRING) /\ L \in Nat /\ M \in Nat /\ M > L
  BY <1>1, <1>2
<1>4. p # <<>>
  <2>1. Len(p) # 0 BY <1>3
  <2> QED BY <2>1
<1>5. /\ Front(p) \in Seq(STRING) /\ Len(Front(p)) = M - 1 /\ Front(p) = SubSeq(p, 1, M - 1)
      /\ \A n \in 0..M - 1 : SubSeq(Front(p), 1, n) = SubSeq(p, 1, n)
  <2>1. Front(p) \in Seq(STRING) /\ IsFront(Front(p), p)
    BY <1>3, <1>4, WithoutLast
  <2> QED BY <2>1 DEF IsFront
<1>6. SubSeq(p, 1, L) = path
  <2>1. SubSeq(path, 1, Len(path)) = SubSeq(p, 1, Len(path))
    BY <1>2 DEF IsPrefix
  <2>2. SubSeq(path, 1, Len(path)) = path BY <1>3, SubSeqFull
  <2> QED BY <2>1, <2>2
<1>12. /\ \A n \in L + 1..M - 1 : Visible(tree, SubSeq(p, 1, n)) /\ KindAt(tree, SubSeq(p, 1, n)) = "dir"
       /\ L = Len(path) /\ M = Len(p)
  BY <1>2
<1> HIDE DEF L, M
<1>7. M = L + 1 => Front(p) = path BY <1>3, <1>5, <1>6
<1>8. M # L + 1 => Len(Front(p)) # Len(path)
  BY <1>3, <1>5, <1>12
<1>9. M # L + 1 => Front(p) \in Below(tree, path) /\ KindAt(tree, Front(p)) = "dir"
  <2> SUFFICES ASSUME M # L + 1 PROVE Front(p) \in Below(tree, path) /\ KindAt(tree, Front(p)) = "dir"
    OBVIOUS
  <2>1. M - 1 \in L + 1..M - 1 /\ M - 1 > L /\ L <= M - 1 /\ L \in 0..M - 1
    BY <1>3
  <2>2. Visible(tree, Front(p)) /\ KindAt(tree, Front(p)) = "dir"
    BY <1>5, <1>12, <2>1
  <2>3. Front(p) \in DOMAIN tree BY <2>2 DEF KindAt
  <2>4. IsPrefix(path, Front(p))
    <3>1. SubSeq(Front(p), 1, Len(path)) = SubSeq(path, 1, Len(path))
      BY <1>2, <1>5, <1>12, <2>1 DEF IsPrefix
    <3>2. Len(path) <= Len(Front(p)) BY <1>5, <1>12, <2>1
    <3> QED BY <3>1, <3>2 DEF IsPrefix
  <2>5. \A n \in Len(path) + 1..Len(Front(p)) - 1 :
          Visible(tree, SubSeq(Front(p), 1, n)) /\ KindAt(tree, SubSeq(Front(p), 1, n)) = "dir"
    <3>1. \A n \in L + 1..M - 1 - 1 : n \in L + 1..M - 1 /\ n \in 0..M - 1
      BY <1>3
    <3>2. \A n \in L + 1..M - 1 - 1 :
            Visible(tree, SubSeq(Front(p), 1, n)) /\ KindAt(tree, SubSeq(Front(p), 1, n)) = "dir"
      BY <1>5, <1>12, <3>1
    <3> QED BY <1>5, <1>12, <3>2
  <2>6. Len(Front(p)) > Len(path) BY <1>5, <1>12, <2>1
  <2> QED BY <2>2, <2>3, <2>4, <2>5, <2>6 DEF Below
<1>10. Front(p) \in DOMAIN tree BY <1>7, <1>9 DEF KindAt
<1>11. M \in Nat \ {0} BY <1>3
<1> QED BY <1>2, <1>4, <1>5, <1>7, <1>8, <1>9, <1>10, <1>11, <1>12 DEF Enters

LEMMA ChildBelow ==
  ASSUME NEW tree \in Trees, NEW path \in DOMAIN tree, NEW d \in DOMAIN tree, Enters(tree, path, d),
         NEW c \in DOMAIN tree, c # <<>>, Front(c) = d, Visible(tree, c)
  PROVE  c \in Below(tree, path)
<1>1. DOMAIN tree \subseteq Seq(STRING) BY TreesAreListed
<1> DEFINE L == Len(path)
           M == Len(c)
<1>2. c \in Seq(STRING) /\ path \in Seq(STRING) /\ L \in Nat
  BY <1>1
<1>3. /\ M \in Nat \ {0} /\ d \in Seq(STRING) /\ Len(d) = M - 1 /\ d = SubSeq(c, 1, M - 1)
      /\ \A n \in 0..M - 1 : SubSeq(d, 1, n) = SubSeq(c, 1, n)
  <2>1. d \in Seq(STRING) /\ IsFront(d, c) BY <1>2, WithoutLast
  <2>2. M \in Nat \ {0}
    <3>1. M \in Nat /\ M # 0 BY <1>2
    <3> QED BY <3>1
  <2>3. M = Len(c) OBVIOUS
  <2> HIDE DEF M
  <2>4. Len(d) = M - 1 BY <2>1, <2>2, <2>3 DEF IsFront
  <2> QED BY <2>1, <2>2, <2>4 DEF IsFront
<1>12. L = Len(path) /\ M = Len(c) OBVIOUS
<1>4. SubSeq(path, 1, L) = path BY <1>2, SubSeqFull
<1> HIDE DEF L, M
<1>5. CASE d = path
  <2>1. M = L + 1 /\ L \in 0..M - 1 BY <1>2, <1>3, <1>5, <1>12
  <2>2. IsPrefix(path, c)
    <3>1. SubSeq(c, 1, L) = SubSeq(path, 1, L)
      BY <1>3, <1>5, <2>1
    <3>2. L <= M BY <1>2, <2>1
    <3> QED BY <1>12, <3>1, <3>2 DEF IsPrefix
  <2>3. \A n \in L + 1..M - 1 : FALSE BY <1>2, <2>1
  <2>4. M > L BY <1>2, <2>1
  <2> QED BY <1>12, <2>2, <2>3, <2>4 DEF Below
<1>6. CASE d \in Below(tree, path) /\ KindAt(tree, d) = "dir"
  <2>1. /\ Len(d) > L /\ IsPrefix(path, d) /\ Visible(tree, d)
        /\ \A n \in L + 1..Len(d) - 1 :
             Visible(tree, SubSeq(d, 1, n)) /\ KindAt(tree, SubSeq(d, 1, n)) = "dir"
    BY <1>6, <1>12 DEF Below
  <2>2. M - 1 > L /\ M > L /\ L \in 0..M - 1 /\ L <= M
    BY <1>2, <1>3, <2>1
  <2>3. IsPrefix(path, c)
    <3>1. SubSeq(path, 1, L) = SubSeq(d, 1, L)
      BY <1>12, <2>1 DEF IsPrefix
    <3>2. SubSeq(path, 1, L) = SubSeq(c, 1, L)
      BY <1>3, <2>2, <3>1
    <3> QED BY <1>12, <2>2, <3>2 DEF IsPrefix
  <2>4. ASSUME NEW n \in L + 1..M - 1
        PROVE  Visible(tree, SubSeq(c, 1, n)) /\ KindAt(tree, SubSeq(c, 1, n)) = "dir"
    <3>1. CASE n = M - 1
      BY <1>3, <1>6, <2>1, <3>1
    <3>2. CASE n # M - 1
      <4>1. n \in L + 1..M - 1 - 1 /\ n \in 0..M - 1
        BY <1>2, <1>3, <3>2
      <4> QED BY <1>3, <2>1, <4>1
    <3> QED BY <3>1, <3>2
  <2> QED BY <1>12, <2>2, <2>3, <2>4 DEF Below
<1> QED BY <1>5, <1>6 DEF Enters

(* What a traversal has collected: its entries and the directories it still has to  *)
(* read.  A directory shows those of its children a tool may see.                   *)
Outs(tree) == [entries : Seq(DOMAIN tree), inspected : 0..MaxTraversalEntries, omitted : Nat,
               truncated : {"", "entry_budget"}, pending : Seq(DOMAIN tree)]

Found(tree, d) == {c \in DOMAIN tree : c # <<>> /\ Front(c) = d /\ Visible(tree, c)}

LEMMA OutFields ==
  ASSUME NEW tree, NEW o \in Outs(tree)
  PROVE  /\ o.entries \in Seq(DOMAIN tree) /\ o.pending \in Seq(DOMAIN tree)
         /\ o.inspected \in 0..MaxTraversalEntries /\ o.inspected \in Nat
         /\ o.inspected <= MaxTraversalEntries
         /\ o.omitted \in Nat
<1>1. /\ o.entries \in Seq(DOMAIN tree) /\ o.pending \in Seq(DOMAIN tree)
      /\ o.inspected \in 0..MaxTraversalEntries
      /\ o.omitted \in Nat
  BY DEF Outs
<1>2. o.inspected \in Nat /\ o.inspected <= MaxTraversalEntries
  BY <1>1, ScanLimits
<1> QED BY <1>1, <1>2

LEMMA OutMarked ==
  ASSUME NEW tree, NEW o \in Outs(tree), NEW reason \in {"entry_budget"}
  PROVE  /\ mark_truncated(o, reason) \in Outs(tree)
         /\ mark_truncated(o, reason).truncated # ""
         /\ mark_truncated(o, reason).entries = o.entries
         /\ mark_truncated(o, reason).pending = o.pending
<1>1. CASE o.truncated = ""
  <2> DEFINE m == [o EXCEPT !.truncated = reason]
  <2>1. m \in Outs(tree) /\ m.truncated = reason /\ m.entries = o.entries /\ m.pending = o.pending
    BY DEF Outs
  <2>2. mark_truncated(o, reason) = m BY <1>1 DEF mark_truncated
  <2> HIDE DEF m
  <2> QED BY <2>1, <2>2
<1>2. CASE o.truncated # ""
  BY <1>2 DEF mark_truncated
<1> QED BY <1>1, <1>2

(* A directory that is inspected. *)
Inspected(tree, o, d, at) ==
  /\ at.output \in Outs(tree) /\ at.output.entries = o.entries /\ at.output.pending = o.pending
  /\ at.cut \in BOOLEAN
  /\ at.shown \in Seq(DOMAIN tree) /\ IsInjective(at.shown) /\ ToSet(at.shown) \subseteq Found(tree, d)
  /\ at.directories \in Seq(DOMAIN tree) /\ IsInjective(at.directories)
  /\ at.cut => at.output.truncated # ""
  /\ ~at.cut => /\ at.output.truncated = o.truncated /\ ToSet(at.shown) = Found(tree, d)
                /\ ToSet(at.directories) = Found(tree, d) \cap NodesOf(tree, "dir")

LEMMA InspectFinds ==
  ASSUME NEW tree \in Trees, NEW o \in Outs(tree), NEW d \in DOMAIN tree
  PROVE  Inspected(tree, o, d, Inspect(tree, o, d))
<1> DEFINE T == DOMAIN tree
           children == Enumerated(tree, d)
           room == MaxTraversalEntries - o.inspected
           cut == Len(children) > room
           taken == IF cut THEN SubSeq(children, 1, room) ELSE children
           kept == InOrder(taken)
           visible == {c \in ToSet(kept) : Visible(tree, c)}
           shown == Those(kept, visible)
           counted == [o EXCEPT !.inspected = @ + Len(kept), !.omitted = @ + Len(kept) - Len(shown)]
           out == IF cut THEN mark_truncated(counted, "entry_budget") ELSE counted
           dirs == Those(shown, NodesOf(tree, "dir"))
<1>1. /\ children \in Seq(T) /\ IsInjective(children)
      /\ ToSet(children) = {q \in T : q # <<>> /\ Front(q) = d}
      /\ OrderedSet(T)
  BY TreesAreListed DEF OrderedSet
<1>2. Inspect(tree, o, d) = [output |-> out, shown |-> shown, cut |-> cut, directories |-> dirs]
  BY DEF Inspect
<1>3. room \in Nat /\ o.inspected \in Nat /\ MaxTraversalEntries \in Nat /\ o.inspected + room = MaxTraversalEntries
      /\ o.omitted \in Nat
  BY OutFields, ScanLimits
<1>4. Len(children) \in Nat /\ cut \in BOOLEAN /\ (cut <=> Len(children) > room)
  BY <1>1
<1> HIDE DEF room, cut, children, T
<1>5. /\ taken \in Seq(T) /\ IsInjective(taken) /\ ToSet(taken) \subseteq ToSet(children)
      /\ Len(taken) <= room /\ (~cut => taken = children)
  <2>1. CASE cut
    <3>1. room \in 0..Len(children) BY <1>3, <1>4, <2>1
    <3>2. /\ SubSeq(children, 1, room) \in Seq(T) /\ Len(SubSeq(children, 1, room)) = room
          /\ ToSet(SubSeq(children, 1, room)) \subseteq ToSet(children)
          /\ IsInjective(SubSeq(children, 1, room))
      BY <1>1, <3>1, RisingPart
    <3> QED BY <1>3, <2>1, <3>2
  <2>2. CASE ~cut
    BY <1>1, <1>3, <1>4, <2>2
  <2> QED BY <2>1, <2>2
<1> HIDE DEF taken
<1>6. /\ kept \in Seq(T) /\ Len(kept) = Len(taken) /\ ToSet(kept) = ToSet(taken) /\ Rising(kept)
      /\ IsInjective(kept) /\ Len(kept) \in Nat
  <2>1. /\ kept \in Seq(T) /\ Len(kept) = Len(taken) /\ ToSet(kept) = ToSet(taken) /\ Rising(kept)
    BY <1>1, <1>5, InOrderRises
  <2> HIDE DEF kept
  <2>2. IsInjective(kept) BY <1>1, <2>1, RisingDistinct
  <2> QED BY <2>1, <2>2
<1> HIDE DEF kept
<1>7. /\ shown \in Seq(T) /\ Len(shown) <= Len(kept) /\ ToSet(shown) = ToSet(kept) \cap visible
      /\ IsInjective(shown) /\ Len(shown) \in Nat
  <2>1. /\ shown \in Seq(T) /\ Len(shown) <= Len(kept) /\ ToSet(shown) = ToSet(kept) \cap visible
        /\ IsInjective(shown)
    BY <1>6, ThoseAre
  <2> HIDE DEF shown
  <2> QED BY <2>1
<1>8. /\ ToSet(shown) \subseteq Found(tree, d)
      /\ ~cut => ToSet(shown) = Found(tree, d)
  <2>1. ToSet(shown) = {c \in ToSet(taken) : Visible(tree, c)}
    BY <1>6, <1>7
  <2>2. Found(tree, d) = {c \in ToSet(children) : Visible(tree, c)}
    BY <1>1 DEF Found, T
  <2> QED BY <1>5, <2>1, <2>2
<1> HIDE DEF shown
<1>9. /\ dirs \in Seq(T) /\ IsInjective(dirs) /\ ToSet(dirs) = ToSet(shown) \cap NodesOf(tree, "dir")
  BY <1>7, ThoseAre
<1> HIDE DEF dirs
<1>10. /\ counted \in Outs(tree) /\ counted.truncated = o.truncated
       /\ counted.entries = o.entries /\ counted.pending = o.pending
  <2> DEFINE a == o.inspected + Len(kept)
             b == o.omitted + Len(kept) - Len(shown)
  <2>1. a \in 0..MaxTraversalEntries BY <1>3, <1>5, <1>6
  <2>2. b \in Nat BY <1>3, <1>6, <1>7
  <2>3. counted = [o EXCEPT !.inspected = a, !.omitted = b]
    OBVIOUS
  <2> HIDE DEF a, b, counted
  <2> QED BY <2>1, <2>2, <2>3 DEF Outs
<1> HIDE DEF counted
<1>11. /\ out \in Outs(tree) /\ out.entries = o.entries /\ out.pending = o.pending
       /\ (cut => out.truncated # "") /\ (~cut => out.truncated = o.truncated)
  <2>1. CASE cut
    <3> DEFINE m == mark_truncated(counted, "entry_budget")
    <3>1. "entry_budget" \in {"entry_budget"}
      OBVIOUS
    <3>2. m \in Outs(tree) /\ m.truncated # "" /\ m.entries = counted.entries /\ m.pending = counted.pending
      BY <1>10, <3>1, OutMarked
    <3>3. out = m BY <2>1
    <3> HIDE DEF m, out
    <3> QED BY <1>10, <2>1, <3>2, <3>3
  <2>2. CASE ~cut
    BY <1>10, <2>2
  <2> QED BY <2>1, <2>2
<1> HIDE DEF out
<1>12. /\ Inspect(tree, o, d).output = out /\ Inspect(tree, o, d).shown = shown
       /\ Inspect(tree, o, d).cut = cut /\ Inspect(tree, o, d).directories = dirs
  BY <1>2
<1>13. T = DOMAIN tree BY DEF T
<1> QED BY <1>4, <1>7, <1>8, <1>9, <1>11, <1>12, <1>13 DEF Inspected

(* One more directory read: what it shows is added, once it was read to its end its  *)
(* directories are too; otherwise nothing more is read.                              *)
StepFinds(tree, o, next, d, rest, wanted, recursive) ==
  /\ next \in Outs(tree)
  /\ \E new \in Seq(DOMAIN tree), dirs \in Seq(DOMAIN tree) :
       /\ IsInjective(new) /\ IsInjective(dirs) /\ next.entries = o.entries \o new
       /\ ToSet(new) \subseteq Found(tree, d) \cap wanted
       /\ \/ next.truncated # "" /\ next.pending = <<>>
          \/ /\ next.truncated = o.truncated
             /\ ToSet(new) = Found(tree, d) \cap wanted
             /\ ToSet(dirs) = Found(tree, d) \cap NodesOf(tree, "dir")
             /\ next.pending = IF recursive THEN rest \o dirs ELSE rest

LEMMA StepReads ==
  ASSUME NEW tree \in Trees, NEW o \in Outs(tree), NEW d \in DOMAIN tree, NEW rest \in Seq(DOMAIN tree),
         NEW wanted, NEW recursive \in BOOLEAN
  PROVE  StepFinds(tree, o, Step(tree, o, d, rest, wanted, recursive), d, rest, wanted, recursive)
<1> DEFINE T == DOMAIN tree
           at == Inspect(tree, o, d)
           new == Those(at.shown, wanted)
           pending == IF at.cut THEN <<>> ELSE IF recursive THEN rest \o at.directories ELSE rest
           entries == at.output.entries \o new
           next == [at.output EXCEPT !.entries = entries, !.pending = pending]
           old == at.output
           dirs == at.directories
           shown == at.shown
           cut == at.cut
<1>1. Step(tree, o, d, rest, wanted, recursive) = next
  BY DEF Step
<1>2. /\ old \in Outs(tree) /\ old.entries = o.entries
      /\ cut \in BOOLEAN
      /\ shown \in Seq(T) /\ IsInjective(shown) /\ ToSet(shown) \subseteq Found(tree, d)
      /\ dirs \in Seq(T) /\ IsInjective(dirs)
      /\ cut => old.truncated # ""
      /\ ~cut => /\ old.truncated = o.truncated /\ ToSet(shown) = Found(tree, d)
                 /\ ToSet(dirs) = Found(tree, d) \cap NodesOf(tree, "dir")
  <2>1. Inspected(tree, o, d, Inspect(tree, o, d))
    BY InspectFinds
  <2> QED BY <2>1 DEF Inspected
<1>3. next = [old EXCEPT !.entries = entries, !.pending = pending]
  OBVIOUS
<1>4. /\ new = Those(shown, wanted) /\ entries = old.entries \o new
      /\ pending = IF cut THEN <<>> ELSE IF recursive THEN rest \o dirs ELSE rest
  OBVIOUS
<1> HIDE DEF at, next, pending, entries, new, old, dirs, shown, cut
<1>5. new \in Seq(T) /\ ToSet(new) = ToSet(shown) \cap wanted /\ IsInjective(new)
  BY <1>2, <1>4, ThoseAre
<1>6. entries \in Seq(T)
  <2>1. old.entries \in Seq(T) BY <1>2, OutFields
  <2>2. old.entries \o new \in Seq(T) BY <1>5, <2>1, ConcatProperties
  <2> QED BY <1>4, <2>2
<1>7. pending \in Seq(T)
  <2>2. rest \in Seq(T) OBVIOUS
  <2>3. <<>> \in Seq(T) OBVIOUS
  <2>1. rest \o dirs \in Seq(T) BY <1>2, <2>2, ConcatProperties
  <2> QED BY <1>4, <2>1, <2>2, <2>3
<1>8. next \in Outs(tree) /\ next.entries = entries /\ next.pending = pending /\ next.truncated = old.truncated
  BY <1>2, <1>3, <1>6, <1>7 DEF Outs
<1>9. next.entries = o.entries \o new BY <1>2, <1>4, <1>8
<1>10. ToSet(new) \subseteq Found(tree, d) \cap wanted
  BY <1>2, <1>5
<1>11. CASE cut
  <2>1. next.truncated # "" /\ next.pending = <<>>
    BY <1>2, <1>4, <1>8, <1>11
  <2> QED BY <1>1, <1>2, <1>5, <1>8, <1>9, <1>10, <2>1 DEF StepFinds
<1>12. CASE ~cut
  <2>1. /\ next.truncated = o.truncated
        /\ ToSet(new) = Found(tree, d) \cap wanted
        /\ ToSet(dirs) = Found(tree, d) \cap NodesOf(tree, "dir")
        /\ next.pending = IF recursive THEN rest \o dirs ELSE rest
    BY <1>2, <1>4, <1>5, <1>8, <1>12
  <2> QED BY <1>1, <1>2, <1>5, <1>8, <1>9, <1>10, <2>1 DEF StepFinds
<1> QED BY <1>2, <1>11, <1>12

(* A round of a traversal: one of the directories that are left is read.             *)
Round(tree, o, next, wanted, recursive) ==
  \/ o.pending = <<>> /\ next = o
  \/ \E d \in ToSet(o.pending), rest \in Seq(DOMAIN tree) :
       /\ d \in DOMAIN tree /\ ToSet(rest) = ToSet(o.pending) \ {d} /\ IsInjective(rest)
       /\ StepFinds(tree, o, next, d, rest, wanted, recursive)

LEMMA LastTaken ==
  ASSUME NEW T, NEW s \in Seq(T), s # <<>>
  PROVE  /\ Last(s) \in ToSet(s) /\ Last(s) \in T /\ Front(s) \in Seq(T)
         /\ IsInjective(s) => IsInjective(Front(s)) /\ ToSet(Front(s)) = ToSet(s) \ {Last(s)}
<1> DEFINE t == Front(s)
           e == Last(s)
           N == Len(t)
<1>1. t \in Seq(T) /\ IsFront(t, s) /\ e \in T
  BY WithoutLast
<1>2. e = s[Len(s)] BY DEF Last
<1> HIDE DEF t, e
<1>3. /\ N \in Nat /\ Len(s) = N + 1 /\ \A i \in 1..N : t[i] = s[i]
  BY <1>1 DEF IsFront
<1>4. e = s[N + 1] /\ N = Len(t) BY <1>2, <1>3
<1> HIDE DEF N
<1>5. /\ \A x : x \in ToSet(s) <=> \E i \in 1..N + 1 : s[i] = x
      /\ DOMAIN s = 1..N + 1
  BY <1>3, Elements
<1>6. /\ \A x : x \in ToSet(t) <=> \E i \in 1..N : t[i] = x
      /\ DOMAIN t = 1..N
  BY <1>1, <1>4, Elements
<1>7. N + 1 \in 1..N + 1 /\ \A i \in 1..N : i \in 1..N + 1 /\ i # N + 1
  BY <1>3
<1>11. \A i \in 1..N + 1 : i \in 1..N \/ i = N + 1
  BY <1>3
<1>8. e \in ToSet(s) BY <1>4, <1>5, <1>7
<1>9. ASSUME IsInjective(s) PROVE IsInjective(t) /\ ToSet(t) = ToSet(s) \ {e}
  <2>1. \A i, j \in 1..N + 1 : s[i] = s[j] => i = j
    BY <1>5, <1>9 DEF IsInjective
  <2>2. \A i, j \in 1..N : t[i] = t[j] => i = j
    BY <1>3, <1>7, <2>1
  <2>3. IsInjective(t) BY <1>6, <2>2 DEF IsInjective
  <2>4. ASSUME NEW x \in ToSet(t) PROVE x \in ToSet(s) /\ x # e
    <3>1. PICK i \in 1..N : t[i] = x
      BY <1>6
    <3>2. s[i] = x /\ i \in 1..N + 1 /\ i # N + 1
      BY <1>3, <1>7, <3>1
    <3> QED BY <1>4, <1>5, <1>7, <2>1, <3>2
  <2>5. ASSUME NEW x \in ToSet(s), x # e PROVE x \in ToSet(t)
    <3>1. PICK i \in 1..N + 1 : s[i] = x
      BY <1>5
    <3>2. i \in 1..N BY <1>4, <1>11, <2>5, <3>1
    <3> QED BY <1>3, <1>6, <3>1, <3>2
  <2> QED BY <2>3, <2>4, <2>5
<1> QED BY <1>1, <1>8, <1>9 DEF t, e

LEMMA HeadTaken ==
  ASSUME NEW T, NEW s \in Seq(T), s # <<>>
  PROVE  /\ Head(s) \in ToSet(s) /\ Head(s) \in T /\ Tail(s) \in Seq(T)
         /\ IsInjective(s) => IsInjective(Tail(s)) /\ ToSet(Tail(s)) = ToSet(s) \ {Head(s)}
<1> DEFINE t == Tail(s)
           e == Head(s)
           N == Len(t)
<1>1. t \in Seq(T) /\ e \in T /\ e = s[1] /\ N \in Nat /\ Len(s) = N + 1 /\ \A i \in 1..N : t[i] = s[i + 1]
  BY HeadTailProperties
<1>4. N = Len(t) OBVIOUS
<1> HIDE DEF t, e, N
<1>5. /\ \A x : x \in ToSet(s) <=> \E i \in 1..N + 1 : s[i] = x
      /\ DOMAIN s = 1..N + 1
  BY <1>1, Elements
<1>6. /\ \A x : x \in ToSet(t) <=> \E i \in 1..N : t[i] = x
      /\ DOMAIN t = 1..N
  BY <1>1, <1>4, Elements
<1>7. 1 \in 1..N + 1 /\ \A i \in 1..N : i + 1 \in 1..N + 1 /\ i + 1 # 1
  BY <1>1
<1>11. \A i \in 1..N + 1 : i = 1 \/ (i - 1 \in 1..N /\ i - 1 + 1 = i)
  BY <1>1
<1>12. \A i, j \in 1..N : i + 1 = j + 1 => i = j
  BY <1>1
<1>8. e \in ToSet(s) BY <1>1, <1>5, <1>7
<1>9. ASSUME IsInjective(s) PROVE IsInjective(t) /\ ToSet(t) = ToSet(s) \ {e}
  <2>1. \A i, j \in 1..N + 1 : s[i] = s[j] => i = j
    BY <1>5, <1>9 DEF IsInjective
  <2>2. \A i, j \in 1..N : t[i] = t[j] => i = j
    BY <1>1, <1>7, <1>12, <2>1
  <2>3. IsInjective(t) BY <1>6, <2>2 DEF IsInjective
  <2>4. ASSUME NEW x \in ToSet(t) PROVE x \in ToSet(s) /\ x # e
    <3>1. PICK i \in 1..N : t[i] = x
      BY <1>6
    <3>2. s[i + 1] = x /\ i + 1 \in 1..N + 1 /\ i + 1 # 1
      BY <1>1, <1>7, <3>1
    <3> QED BY <1>1, <1>5, <1>7, <2>1, <3>2
  <2>5. ASSUME NEW x \in ToSet(s), x # e PROVE x \in ToSet(t)
    <3>1. PICK i \in 1..N + 1 : s[i] = x
      BY <1>5
    <3>2. i - 1 \in 1..N /\ i - 1 + 1 = i BY <1>1, <1>11, <2>5, <3>1
    <3>3. t[i - 1] = x BY <1>1, <3>1, <3>2
    <3> QED BY <1>6, <3>2, <3>3
  <2> QED BY <2>3, <2>4, <2>5
<1> QED BY <1>1, <1>8, <1>9 DEF t, e

LEMMA ListRound ==
  ASSUME NEW tree \in Trees, NEW o \in Outs(tree), NEW recursive \in BOOLEAN
  PROVE  /\ ListStep(tree, recursive, o) \in Outs(tree)
         /\ IsInjective(o.pending) =>
              Round(tree, o, ListStep(tree, recursive, o), DOMAIN tree, recursive)
<1>1. CASE o.pending = <<>>
  BY <1>1 DEF ListStep, Round
<1>2. CASE o.pending # <<>>
  <2> DEFINE s == o.pending
             d == Last(s)
             rest == Front(s)
             next == Step(tree, o, d, rest, DOMAIN tree, recursive)
  <2>1. s \in Seq(DOMAIN tree) BY OutFields
  <2>2. /\ d \in ToSet(s) /\ d \in DOMAIN tree /\ rest \in Seq(DOMAIN tree)
        /\ IsInjective(s) => IsInjective(rest) /\ ToSet(rest) = ToSet(s) \ {d}
    <3> HIDE DEF s
    <3> QED BY <1>2, <2>1, LastTaken DEF s
  <2>3. StepFinds(tree, o, next, d, rest, DOMAIN tree, recursive)
    <3> HIDE DEF d, rest
    <3> QED BY <2>2, StepReads
  <2>4. ListStep(tree, recursive, o) = next
    BY <1>2 DEF ListStep
  <2>5. s = o.pending OBVIOUS
  <2> HIDE DEF next, d, rest, s
  <2>6. next \in Outs(tree) BY <2>3 DEF StepFinds
  <2> QED BY <2>2, <2>3, <2>4, <2>5, <2>6 DEF Round
<1> QED BY <1>1, <1>2

LEMMA SearchRound ==
  ASSUME NEW tree \in Trees, NEW o \in Outs(tree)
  PROVE  /\ SearchStep(tree, o) \in Outs(tree)
         /\ IsInjective(o.pending) =>
              Round(tree, o, SearchStep(tree, o), NodesOf(tree, "file"), TRUE)
<1>1. CASE o.pending = <<>>
  BY <1>1 DEF SearchStep, Round
<1>2. CASE o.pending # <<>>
  <2> DEFINE s == o.pending
             d == Head(s)
             rest == Tail(s)
             files == NodesOf(tree, "file")
             next == Step(tree, o, d, rest, files, TRUE)
  <2>1. s \in Seq(DOMAIN tree) BY OutFields
  <2>2. /\ d \in ToSet(s) /\ d \in DOMAIN tree /\ rest \in Seq(DOMAIN tree)
        /\ IsInjective(s) => IsInjective(rest) /\ ToSet(rest) = ToSet(s) \ {d}
    <3> HIDE DEF s
    <3> QED BY <1>2, <2>1, HeadTaken DEF s
  <2>3. StepFinds(tree, o, next, d, rest, files, TRUE)
    <3> HIDE DEF d, rest, files
    <3> QED BY <2>2, StepReads
  <2>4. SearchStep(tree, o) = next BY <1>2 DEF SearchStep
  <2>5. s = o.pending /\ files = NodesOf(tree, "file")
    OBVIOUS
  <2> HIDE DEF next, d, rest, s, files
  <2>6. next \in Outs(tree) BY <2>3 DEF StepFinds
  <2> QED BY <2>2, <2>3, <2>4, <2>5, <2>6 DEF Round
<1> QED BY <1>1, <1>2

(* The directories a traversal of the path goes into, and what it shows.             *)
Entered(tree, path, recursive) ==
  {path} \cup {p \in Below(tree, path) : recursive /\ KindAt(tree, p) = "dir"}

Reached(tree, path, wanted, recursive) ==
  {c \in DOMAIN tree : c \in wanted /\ \E d \in Entered(tree, path, recursive) : c \in Found(tree, d)}

Subdirectories(tree, path, d, recursive) ==
  {r \in Entered(tree, path, recursive) : r # path /\ Front(r) = d}

LEMMA EnteredIs ==
  ASSUME NEW tree \in Trees, NEW path \in DOMAIN tree, NEW recursive \in BOOLEAN
  PROVE  /\ Entered(tree, path, recursive) \subseteq DOMAIN tree /\ path \in Entered(tree, path, recursive)
         /\ \A r \in Entered(tree, path, recursive) :
              /\ Enters(tree, path, r) /\ Len(r) \in Nat
              /\ r # path => /\ Front(r) \in Entered(tree, path, recursive)
                             /\ Len(Front(r)) = Len(r) - 1
<1> DEFINE R == Entered(tree, path, recursive)
<1>1. path \in R /\ R \subseteq DOMAIN tree
  BY DEF Entered, Below
<1>2. DOMAIN tree \subseteq Seq(STRING) BY TreesAreListed
<1>3. ASSUME NEW r \in R
      PROVE  /\ Enters(tree, path, r) /\ Len(r) \in Nat
             /\ r # path => Front(r) \in R /\ Len(Front(r)) = Len(r) - 1
  <2>1. r \in Seq(STRING) BY <1>1, <1>2
  <2>2. Len(r) \in Nat BY <2>1
  <2>3. Enters(tree, path, r) BY DEF Entered, Enters
  <2>4. ASSUME r # path PROVE Front(r) \in R /\ Len(Front(r)) = Len(r) - 1
    <3>1. r \in Below(tree, path) /\ recursive
      BY <2>4 DEF Entered
    <3>2. Enters(tree, path, Front(r)) /\ Len(Front(r)) = Len(r) - 1
      BY <3>1, BelowParent
    <3>3. Front(r) \in R BY <3>1, <3>2 DEF Enters, Entered
    <3> QED BY <3>2, <3>3
  <2> QED BY <2>2, <2>3, <2>4
<1> QED BY <1>1, <1>3

LEMMA ChildrenEntered ==
  ASSUME NEW tree \in Trees, NEW path \in DOMAIN tree, NEW d \in Entered(tree, path, TRUE)
  PROVE  Found(tree, d) \cap NodesOf(tree, "dir") = Subdirectories(tree, path, d, TRUE)
<1>1. d \in DOMAIN tree /\ Enters(tree, path, d)
  BY EnteredIs
<1>2. ASSUME NEW c \in Found(tree, d) \cap NodesOf(tree, "dir") PROVE c \in Subdirectories(tree, path, d, TRUE)
  <2>1. c \in DOMAIN tree /\ c # <<>> /\ Front(c) = d /\ Visible(tree, c)
    BY DEF Found
  <2>2. c \in Below(tree, path) BY <1>1, <2>1, ChildBelow
  <2>3. KindAt(tree, c) = "dir" BY <2>1 DEF KindAt, NodesOf
  <2>4. c # path
    <3>1. Len(c) > Len(path) BY <2>2 DEF Below
    <3>2. path \in Seq(STRING) BY TreesAreListed
    <3>3. Len(path) \in Nat BY <3>2
    <3>4. ~(Len(path) > Len(path)) BY <3>3
    <3> QED BY <3>1, <3>4
  <2>5. c \in Entered(tree, path, TRUE) BY <2>2, <2>3 DEF Entered
  <2> QED BY <2>1, <2>4, <2>5 DEF Subdirectories
<1>3. ASSUME NEW c \in Subdirectories(tree, path, d, TRUE) PROVE c \in Found(tree, d) \cap NodesOf(tree, "dir")
  <2>1. c \in Entered(tree, path, TRUE) /\ c # path /\ Front(c) = d
    BY DEF Subdirectories
  <2>2. c \in Below(tree, path) /\ KindAt(tree, c) = "dir"
    BY <2>1 DEF Entered
  <2>3. c \in DOMAIN tree /\ c # <<>> /\ Visible(tree, c)
    BY <2>2, BelowParent
  <2>4. c \in Found(tree, d) BY <2>1, <2>3 DEF Found
  <2>5. c \in NodesOf(tree, "dir") BY <2>2, <2>3 DEF NodesOf, KindAt
  <2> QED BY <2>4, <2>5
<1> QED BY <1>2, <1>3

(* What a traversal that has read the directories in read keeps.                     *)
Traversal(tree, path, wanted, recursive, o, read) ==
  /\ o \in Outs(tree) /\ read \subseteq Entered(tree, path, recursive)
  /\ IsInjective(o.entries) /\ ToSet(o.entries) \subseteq Reached(tree, path, wanted, recursive)
  /\ \A e \in ToSet(o.entries) : Front(e) \in read
  /\ IsInjective(o.pending) /\ ToSet(o.pending) \subseteq Entered(tree, path, recursive) \ read
  /\ \A r \in read \cup ToSet(o.pending) : r = path \/ Front(r) \in read
  /\ o.truncated = "" =>
       /\ \A c \in Reached(tree, path, wanted, recursive) : Front(c) \in read => c \in ToSet(o.entries)
       /\ \A r \in Entered(tree, path, recursive) :
            r = path \/ Front(r) \in read => r \in read \cup ToSet(o.pending)
  /\ o.truncated # "" => o.pending = <<>>

LEMMA NothingIn == ToSet(<<>>) = {} /\ IsInjective(<<>>)
  BY DEF ToSet, IsInjective

LEMMA TraversalGoesOn ==
  ASSUME NEW tree \in Trees, NEW path \in DOMAIN tree, NEW recursive \in BOOLEAN, NEW wanted,
         NEW o, NEW read, Traversal(tree, path, wanted, recursive, o, read), NEW next,
         NEW d \in ToSet(o.pending), NEW rest \in Seq(DOMAIN tree),
         ToSet(rest) = ToSet(o.pending) \ {d}, IsInjective(rest),
         StepFinds(tree, o, next, d, rest, wanted, recursive)
  PROVE  Traversal(tree, path, wanted, recursive, next, read \cup {d})
<1> DEFINE T == DOMAIN tree
           R == Entered(tree, path, recursive)
           S == Reached(tree, path, wanted, recursive)
           E == ToSet(o.entries)
           P == ToSet(o.pending)
           E2 == ToSet(next.entries)
           P2 == ToSet(next.pending)
           V == read \cup {d}
<1>1. /\ o \in Outs(tree) /\ read \subseteq R
      /\ IsInjective(o.entries) /\ E \subseteq S
      /\ \A e \in E : Front(e) \in read
      /\ P \subseteq R \ read
      /\ \A r \in read \cup P : r = path \/ Front(r) \in read
      /\ o.truncated = "" => /\ \A c \in S : Front(c) \in read => c \in E
                             /\ \A r \in R : r = path \/ Front(r) \in read => r \in read \cup P
      /\ o.truncated # "" => o.pending = <<>>
  BY DEF Traversal
<1>2. o.entries \in Seq(T) /\ o.pending \in Seq(T)
  BY <1>1, OutFields
<1>3. PICK new \in Seq(T), dirs \in Seq(T) :
        /\ IsInjective(new) /\ IsInjective(dirs) /\ next.entries = o.entries \o new
        /\ ToSet(new) \subseteq Found(tree, d) \cap wanted
        /\ \/ next.truncated # "" /\ next.pending = <<>>
           \/ /\ next.truncated = o.truncated
              /\ ToSet(new) = Found(tree, d) \cap wanted
              /\ ToSet(dirs) = Found(tree, d) \cap NodesOf(tree, "dir")
              /\ next.pending = IF recursive THEN rest \o dirs ELSE rest
  BY DEF StepFinds
<1>4. next \in Outs(tree) BY DEF StepFinds
<1>5. d \in R /\ d \notin read /\ o.truncated = ""
  BY <1>1, NothingIn
<1>6. /\ path \in R /\ R \subseteq T
      /\ \A r \in R : /\ Len(r) \in Nat
                      /\ r # path => Front(r) \in R /\ Len(Front(r)) = Len(r) - 1
  BY EnteredIs
<1>7. \A c \in Found(tree, d) : c \in T /\ Front(c) = d
  BY DEF Found
<1>8. \A c \in Found(tree, d) \cap wanted : c \in S
  BY <1>5, <1>7 DEF Reached
<1>9. \A c \in S : Front(c) = d => c \in Found(tree, d) \cap wanted
  BY DEF Reached, Found
<1>10. ToSet(o.entries \o new) = ToSet(o.entries) \cup ToSet(new)
  BY <1>2, OfTwo
<1>11. ToSet(o.entries) \cap ToSet(new) = {}
  BY <1>1, <1>3, <1>5, <1>7, ZenonT(30)
<1>12. IsInjective(o.entries \o new)
  BY <1>1, <1>2, <1>3, <1>11, TwoDistinct
<1>13. IsInjective(next.entries) /\ E2 = E \cup ToSet(new)
  BY <1>3, <1>10, <1>12
<1>14. E2 \subseteq S /\ \A e \in E2 : Front(e) \in V
  BY <1>1, <1>3, <1>7, <1>8, <1>13
<1>15. V \subseteq R BY <1>1, <1>5
<1>16. d = path \/ Front(d) \in read BY <1>1
<1>17. CASE next.truncated # "" /\ next.pending = <<>>
  <2>1. P2 = {} /\ IsInjective(next.pending)
    BY <1>17, NothingIn
  <2>2. \A r \in V \cup P2 : r = path \/ Front(r) \in V
    BY <1>1, <1>16, <2>1
  <2> QED BY <1>4, <1>13, <1>14, <1>15, <1>17, <2>1, <2>2 DEF Traversal
<1>18. CASE /\ next.truncated = o.truncated
            /\ ToSet(new) = Found(tree, d) \cap wanted
            /\ ToSet(dirs) = Found(tree, d) \cap NodesOf(tree, "dir")
            /\ next.pending = IF recursive THEN rest \o dirs ELSE rest
  <2> DEFINE K == Subdirectories(tree, path, d, recursive)
  <2>1. \A r \in K : r \in R /\ r # path /\ Front(r) = d /\ r \notin read /\ r \notin P /\ r # d
    <3> SUFFICES ASSUME NEW r \in K PROVE r \in R /\ r # path /\ Front(r) = d /\ r \notin read /\ r \notin P /\ r # d
      OBVIOUS
    <3>1. r \in R /\ r # path /\ Front(r) = d
      BY DEF Subdirectories
    <3>2. r \notin read /\ r \notin P BY <1>1, <1>5, <3>1
    <3>3. r # d
      <4>1. Len(Front(r)) = Len(r) - 1 /\ Len(r) \in Nat
        BY <1>6, <3>1
      <4>2. Len(r) - 1 # Len(r) BY <4>1
      <4> QED BY <3>1, <4>1, <4>2
    <3> QED BY <3>1, <3>2, <3>3
  <2>2. IsInjective(next.pending) /\ P2 = (P \ {d}) \cup K
    <3>1. CASE recursive
      <4>1. ToSet(dirs) = K BY <1>5, <1>18, <3>1, ChildrenEntered
      <4>2. ToSet(rest \o dirs) = ToSet(rest) \cup ToSet(dirs)
        BY OfTwo
      <4>3. ToSet(rest) \cap ToSet(dirs) = {} BY <2>1, <4>1
      <4>4. IsInjective(rest \o dirs) BY <1>3, <4>3, TwoDistinct
      <4> QED BY <1>18, <3>1, <4>1, <4>2, <4>4
    <3>2. CASE ~recursive
      <4>1. K = {} BY <3>2 DEF Subdirectories, Entered
      <4> QED BY <1>18, <3>2, <4>1
    <3> QED BY <3>1, <3>2
  <2>3. P2 \subseteq R \ V BY <1>1, <2>1, <2>2
  <2>4. \A r \in V \cup P2 : r = path \/ Front(r) \in V
    BY <1>1, <2>1, <2>2
  <2>5. \A c \in S : Front(c) \in V => c \in E2
    BY <1>1, <1>5, <1>9, <1>13, <1>18
  <2>6. \A r \in R : r = path \/ Front(r) \in V => r \in V \cup P2
    <3> SUFFICES ASSUME NEW r \in R, r = path \/ Front(r) \in V PROVE r \in V \cup P2
      OBVIOUS
    <3>1. CASE r = path \/ Front(r) \in read
      BY <1>1, <1>5, <2>2, <3>1
    <3>2. CASE r # path /\ Front(r) = d
      <4>1. r \in K BY <3>2 DEF Subdirectories
      <4> QED BY <2>2, <4>1
    <3> QED BY <3>1, <3>2
  <2>7. next.truncated = "" BY <1>5, <1>18
  <2> QED BY <1>4, <1>13, <1>14, <1>15, <2>2, <2>3, <2>4, <2>5, <2>6, <2>7 DEF Traversal
<1> QED BY <1>3, <1>17, <1>18

LEMMA TraversalBegins ==
  ASSUME NEW tree \in Trees, NEW path \in DOMAIN tree, NEW recursive \in BOOLEAN, NEW wanted
  PROVE  /\ [NoOutput EXCEPT !.pending = <<path>>] \in Outs(tree)
         /\ Traversal(tree, path, wanted, recursive, [NoOutput EXCEPT !.pending = <<path>>], {})
<1> DEFINE o == [NoOutput EXCEPT !.pending = <<path>>]
           s == <<path>>
<1>1. s \in Seq(DOMAIN tree) /\ ToSet(s) = {path} /\ IsInjective(s) /\ s # <<>>
  <2>1. s \in Seq(DOMAIN tree) /\ s # <<>> /\ Len(s) = 1 /\ s[1] = path /\ DOMAIN s = 1..1
    OBVIOUS
  <2> HIDE DEF s
  <2>2. \A i \in 1..1 : i = 1 OBVIOUS
  <2> QED BY <2>1, <2>2 DEF ToSet, IsInjective
<1>9. o = [NoOutput EXCEPT !.pending = s]
  OBVIOUS
<1> HIDE DEF s, o
<1>2. o = [entries |-> <<>>, inspected |-> 0, omitted |-> 0, truncated |-> "", pending |-> s]
  BY <1>9 DEF NoOutput
<1>3. o.entries = <<>> /\ o.truncated = "" /\ o.pending = s
  BY <1>2
<1>4. 0 \in 0..MaxTraversalEntries /\ 0 \in Nat
  BY ScanLimits
<1>5. <<>> \in Seq(DOMAIN tree) OBVIOUS
<1>6. o \in Outs(tree) BY <1>1, <1>2, <1>4, <1>5 DEF Outs
<1>7. path \in Entered(tree, path, recursive)
  BY EnteredIs
<1>8. Traversal(tree, path, wanted, recursive, o, {})
  BY <1>1, <1>3, <1>6, <1>7, NothingIn DEF Traversal
<1> QED BY <1>6, <1>8 DEF o, s

(* All rounds of a traversal.                                                        *)
AreRounds(f, N, tree, path, wanted, recursive) ==
  /\ f \in [0..N -> Outs(tree)] /\ f[0] = [NoOutput EXCEPT !.pending = <<path>>]
  /\ \A k \in 1..N : IsInjective(f[k - 1].pending) => Round(tree, f[k - 1], f[k], wanted, recursive)

(* However a round is made, there are N of them, and they are rounds of a traversal. *)
MadeBy(f, tree, path, next, N) ==
  /\ f \in [0..N -> Outs(tree)] /\ f[0] = [NoOutput EXCEPT !.pending = <<path>>]
  /\ \A k \in 1..N : f[k - 1] \in Outs(tree) /\ f[k] = next[f[k - 1]]

LEMMA RoundsExist ==
  ASSUME NEW tree \in Trees, NEW path \in DOMAIN tree, NEW N \in Nat,
         NEW next \in [Outs(tree) -> Outs(tree)]
  PROVE  \E f : MadeBy(f, tree, path, next, N)
<1> DEFINE T == Outs(tree)
           start == [NoOutput EXCEPT !.pending = <<path>>]
           step == [p \in (1..N) \X T |-> next[p[2]]]
<1>1. start \in T BY TraversalBegins
<1> HIDE DEF T, start
<1>2. step \in [(1..N) \X T -> T] /\ \A k \in 1..N, o \in T : step[<<k, o>>] = next[o]
  BY DEF T
<1> HIDE DEF step
<1>3. PICK f : Passes(f, start, step, N, T)
  BY <1>1, <1>2, PassesExist
<1>4. f \in [0..N -> T] /\ f[0] = start /\ \A k \in 1..N : f[k - 1] \in T /\ f[k] = next[f[k - 1]]
  BY <1>2, <1>3 DEF Passes
<1> QED BY <1>4 DEF MadeBy, T, start

LEMMA RoundsAre ==
  ASSUME NEW tree \in Trees, NEW path \in DOMAIN tree, NEW wanted, NEW recursive, NEW N \in Nat,
         NEW f, f = [n \in 0..N |-> f[n]], f[0] = [NoOutput EXCEPT !.pending = <<path>>],
         \A k \in 1..N : f[k - 1] \in Outs(tree) =>
           /\ f[k] \in Outs(tree)
           /\ IsInjective(f[k - 1].pending) => Round(tree, f[k - 1], f[k], wanted, recursive)
  PROVE  AreRounds(f, N, tree, path, wanted, recursive)
<1> DEFINE T == Outs(tree)
           S == {k \in Nat : k <= N => f[k] \in T}
<1>1. 0 \in S BY TraversalBegins
<1> HIDE DEF T
<1>2. ASSUME NEW k \in Nat, k \in S PROVE k + 1 \in S
  <2> SUFFICES ASSUME k + 1 <= N PROVE f[k + 1] \in T
    OBVIOUS
  <2>1. k + 1 \in 1..N /\ (k + 1) - 1 = k /\ f[k] \in T
    BY <1>2
  <2> QED BY <2>1 DEF T
<1> HIDE DEF S
<1>3. \A k \in Nat : k \in S BY <1>1, <1>2, SetInduction
<1>4. \A k \in 0..N : f[k] \in T BY <1>3 DEF S
<1>5. \A k \in 1..N : k - 1 \in 0..N OBVIOUS
<1> QED BY <1>4, <1>5 DEF AreRounds, T

LEMMA RoundsTraverse ==
  ASSUME NEW tree \in Trees, NEW path \in DOMAIN tree, NEW recursive \in BOOLEAN, NEW wanted,
         NEW f, AreRounds(f, Cardinality(DOMAIN tree), tree, path, wanted, recursive)
  PROVE  \E read : /\ Traversal(tree, path, wanted, recursive, f[Cardinality(DOMAIN tree)], read)
                   /\ f[Cardinality(DOMAIN tree)].pending = <<>>
<1> DEFINE N == Cardinality(DOMAIN tree)
           Good(o, read) == Traversal(tree, path, wanted, recursive, o, read)
           Counted(k) == \E read : /\ Good(f[k], read) /\ IsFiniteSet(read)
                                   /\ f[k].pending = <<>> \/ Cardinality(read) = k
           S == {k \in Nat : k <= N => Counted(k)}
<1>1. IsFiniteSet(DOMAIN tree) BY TreesAreListed
<1>2. N \in Nat BY <1>1, FS_CardinalityType
<1>3. /\ f[0] = [NoOutput EXCEPT !.pending = <<path>>]
      /\ \A k \in 1..N : IsInjective(f[k - 1].pending) => Round(tree, f[k - 1], f[k], wanted, recursive)
  BY DEF AreRounds
<1>13. N = Cardinality(DOMAIN tree) OBVIOUS
<1> HIDE DEF N
<1>4. 0 \in S
  <2>1. Good(f[0], {}) BY <1>3, TraversalBegins
  <2>2. IsFiniteSet({}) /\ Cardinality({}) = 0
    BY FS_EmptySet
  <2> HIDE DEF Good
  <2> QED BY <2>1, <2>2
<1>5. ASSUME NEW k \in Nat, k \in S PROVE k + 1 \in S
  <2> SUFFICES ASSUME k + 1 <= N PROVE Counted(k + 1)
    OBVIOUS
  <2>1. k <= N /\ k + 1 \in 1..N /\ k + 1 - 1 = k
    BY <1>2
  <2>9. Counted(k) BY <1>5, <2>1
  <2>2. PICK read : Good(f[k], read) /\ IsFiniteSet(read) /\ (f[k].pending = <<>> \/ Cardinality(read) = k)
    BY <2>9
  <2>3. /\ IsInjective(f[k].pending) /\ read \subseteq Entered(tree, path, recursive)
        /\ ToSet(f[k].pending) \subseteq Entered(tree, path, recursive) \ read
    BY <2>2 DEF Traversal
  <2>4. Round(tree, f[k], f[k + 1], wanted, recursive)
    BY <1>3, <2>1, <2>3
  <2>5. CASE f[k].pending = <<>> /\ f[k + 1] = f[k]
    <3> HIDE DEF Good
    <3> QED BY <2>2, <2>5
  <2>6. CASE \E d \in ToSet(f[k].pending), rest \in Seq(DOMAIN tree) :
               /\ d \in DOMAIN tree /\ ToSet(rest) = ToSet(f[k].pending) \ {d} /\ IsInjective(rest)
               /\ StepFinds(tree, f[k], f[k + 1], d, rest, wanted, recursive)
    <3>1. PICK d \in ToSet(f[k].pending), rest \in Seq(DOMAIN tree) :
               /\ d \in DOMAIN tree /\ ToSet(rest) = ToSet(f[k].pending) \ {d} /\ IsInjective(rest)
               /\ StepFinds(tree, f[k], f[k + 1], d, rest, wanted, recursive)
      BY <2>6
    <3>2. Good(f[k + 1], read \cup {d}) BY <2>2, <3>1, TraversalGoesOn
    <3>3. d \notin read /\ f[k].pending # <<>>
      BY <2>3, <3>1, NothingIn
    <3>4. Cardinality(read) = k BY <2>2, <3>3
    <3>5. IsFiniteSet(read \cup {d}) /\ Cardinality(read \cup {d}) = k + 1
      BY <2>2, <3>3, <3>4, FS_AddElement
    <3> HIDE DEF Good
    <3> QED BY <3>2, <3>5
  <2> HIDE DEF Good, Counted
  <2> QED BY <2>4, <2>5, <2>6 DEF Round
<1> HIDE DEF S
<1>6. N \in S BY <1>2, <1>4, <1>5, SetInduction
<1>7. Counted(N) BY <1>2, <1>6 DEF S
<1>8. PICK read : Good(f[N], read) /\ IsFiniteSet(read) /\ (f[N].pending = <<>> \/ Cardinality(read) = N)
  BY <1>7
<1>9. ASSUME f[N].pending # <<>> PROVE FALSE
  <2>1. /\ f[N] \in Outs(tree) /\ read \subseteq Entered(tree, path, recursive)
        /\ ToSet(f[N].pending) \subseteq Entered(tree, path, recursive) \ read
    BY <1>8 DEF Traversal
  <2>2. f[N].pending \in Seq(DOMAIN tree) BY <2>1, OutFields
  <2>3. Last(f[N].pending) \in ToSet(f[N].pending)
    BY <1>9, <2>2, LastTaken
  <2> DEFINE d == Last(f[N].pending)
  <2>4. d \notin read /\ read \cup {d} \subseteq DOMAIN tree
    BY <2>1, <2>3, EnteredIs
  <2> HIDE DEF d
  <2>5. Cardinality(read \cup {d}) = N + 1
    BY <1>8, <1>9, <2>4, FS_AddElement
  <2>6. Cardinality(read \cup {d}) <= N
    BY <1>1, <1>13, <2>4, FS_Subset
  <2> QED BY <1>2, <2>5, <2>6
<1> QED BY <1>8, <1>9, <1>13

(* A traversal that has nothing left to read has shown all there is.                 *)
LEMMA TraversalEnds ==
  ASSUME NEW tree \in Trees, NEW path \in DOMAIN tree, NEW recursive \in BOOLEAN, NEW wanted,
         NEW o, NEW read, Traversal(tree, path, wanted, recursive, o, read), o.pending = <<>>
  PROVE  /\ o \in Outs(tree) /\ IsInjective(o.entries)
         /\ ToSet(o.entries) \subseteq Reached(tree, path, wanted, recursive)
         /\ o.truncated = "" => ToSet(o.entries) = Reached(tree, path, wanted, recursive)
<1> DEFINE R == Entered(tree, path, recursive)
<1>1. /\ o \in Outs(tree) /\ IsInjective(o.entries) /\ read \subseteq R
      /\ ToSet(o.entries) \subseteq Reached(tree, path, wanted, recursive)
      /\ ToSet(o.pending) = {}
      /\ o.truncated = "" =>
           /\ \A c \in Reached(tree, path, wanted, recursive) : Front(c) \in read => c \in ToSet(o.entries)
           /\ \A r \in R : r = path \/ Front(r) \in read => r \in read \cup ToSet(o.pending)
  BY NothingIn DEF Traversal
<1>2. ASSUME o.truncated = "" PROVE Reached(tree, path, wanted, recursive) \subseteq ToSet(o.entries)
  <2> DEFINE S == {k \in Nat : \A r \in R : Len(r) <= k => r \in read}
  <2>1. \A r \in R : r = path \/ Front(r) \in read => r \in read
    BY <1>1, <1>2
  <2>2. \A r \in R : /\ Len(r) \in Nat
                     /\ r # path => Front(r) \in R /\ Len(Front(r)) = Len(r) - 1
    BY EnteredIs
  <2> HIDE DEF R
  <2>3. 0 \in S
    <3> SUFFICES ASSUME NEW r \in R, Len(r) <= 0 PROVE r \in read
      OBVIOUS
    <3>1. CASE r = path
      BY <2>1, <3>1
    <3>2. CASE r # path
      <4>1. Len(Front(r)) \in Nat /\ Len(Front(r)) = Len(r) - 1 /\ Len(r) \in Nat
        BY <2>2, <3>2
      <4> DEFINE a == Len(Front(r))
                 b == Len(r)
      <4>2. a \in Nat /\ a = b - 1 /\ b \in Nat /\ b <= 0
        BY <4>1
      <4> HIDE DEF a, b
      <4>3. FALSE BY <4>2
      <4> QED BY <4>3
    <3> QED BY <3>1, <3>2
  <2>4. ASSUME NEW k \in Nat, k \in S PROVE k + 1 \in S
    <3> SUFFICES ASSUME NEW r \in R, Len(r) <= k + 1 PROVE r \in read
      OBVIOUS
    <3>1. CASE r = path
      BY <2>1, <3>1
    <3>2. CASE r # path
      <4>1. Front(r) \in R /\ Len(Front(r)) = Len(r) - 1 /\ Len(r) \in Nat
        BY <2>2, <3>2
      <4>2. Len(Front(r)) <= k BY <4>1
      <4>3. Front(r) \in read BY <2>4, <4>1, <4>2
      <4> QED BY <2>1, <4>3
    <3> QED BY <3>1, <3>2
  <2> HIDE DEF S
  <2>5. ASSUME NEW r \in R PROVE r \in read
    <3>1. Len(r) \in Nat BY <2>2
    <3>2. Len(r) \in S BY <2>3, <2>4, <3>1, SetInduction
    <3>3. Len(r) <= Len(r) BY <3>1
    <3> QED BY <3>1, <3>2, <3>3 DEF S
  <2>6. ASSUME NEW c \in Reached(tree, path, wanted, recursive) PROVE Front(c) \in R
    BY DEF Reached, Found, R
  <2> QED BY <1>1, <1>2, <2>5, <2>6
<1> QED BY <1>1, <1>2

(* The rounds of a list, and what is made of the last one.                           *)
IsRounds(f, tree, path, recursive, N) ==
  f = [n \in 0..N |-> IF n = 0 THEN [NoOutput EXCEPT !.pending = <<path>>]
                      ELSE ListStep(tree, recursive, f[n - 1])]

ListAfter(fault, all, max) ==
  LET sorted == InOrder(all.entries)
  IN IF IsFault(fault) THEN [fault |-> fault]
     ELSE [fault |-> "", output |->
             IF Len(sorted) <= max THEN [all EXCEPT !.entries = sorted]
             ELSE mark_truncated([all EXCEPT !.entries = SubSeq(sorted, 1, max)], "max_results")]

LEMMA ListRoundsExist ==
  ASSUME NEW tree \in Trees, NEW path \in DOMAIN tree, NEW recursive \in BOOLEAN, NEW N \in Nat
  PROVE  \E f : IsRounds(f, tree, path, recursive, N)
<1> DEFINE T == Outs(tree)
           start == [NoOutput EXCEPT !.pending = <<path>>]
           next == [o \in T |-> ListStep(tree, recursive, o)]
<1>1. next \in [T -> T] /\ \A o \in T : next[o] = ListStep(tree, recursive, o)
  BY ListRound
<1> HIDE DEF next
<1>2. PICK f : MadeBy(f, tree, path, next, N)
  BY <1>1, RoundsExist
<1>5. f \in [0..N -> T] /\ f[0] = start /\ \A k \in 1..N : f[k - 1] \in T /\ f[k] = next[f[k - 1]]
  BY <1>2 DEF MadeBy
<1> HIDE DEF T, start
<1>3. \A k \in 0..N : f[k] = IF k = 0 THEN start ELSE ListStep(tree, recursive, f[k - 1])
  <2>1. \A k \in 0..N : k # 0 => k \in 1..N
    OBVIOUS
  <2> QED BY <1>1, <1>5, <2>1
<1>4. f = [k \in 0..N |-> IF k = 0 THEN start ELSE ListStep(tree, recursive, f[k - 1])]
  BY <1>3, <1>5
<1> QED BY <1>4 DEF IsRounds, start

LEMMA ListRoundsAre ==
  ASSUME NEW tree \in Trees, NEW path \in DOMAIN tree, NEW recursive \in BOOLEAN, NEW N \in Nat,
         NEW f, IsRounds(f, tree, path, recursive, N)
  PROVE  AreRounds(f, N, tree, path, DOMAIN tree, recursive)
<1> DEFINE start == [NoOutput EXCEPT !.pending = <<path>>]
<1>1. \A k \in 0..N : f[k] = IF k = 0 THEN start ELSE ListStep(tree, recursive, f[k - 1])
  BY DEF IsRounds
<1>2. f = [k \in 0..N |-> f[k]] BY DEF IsRounds
<1>3. f[0] = start BY <1>1
<1>4. ASSUME NEW k \in 1..N, f[k - 1] \in Outs(tree)
      PROVE  /\ f[k] \in Outs(tree)
             /\ IsInjective(f[k - 1].pending) => Round(tree, f[k - 1], f[k], DOMAIN tree, recursive)
  <2>1. f[k] = ListStep(tree, recursive, f[k - 1])
    BY <1>1
  <2> QED BY <1>4, <2>1, ListRound
<1> QED BY <1>2, <1>3, <1>4, RoundsAre

LEMMA ListIs ==
  ASSUME NEW tree \in Trees, NEW path \in DOMAIN tree, NEW recursive \in BOOLEAN, NEW max
  PROVE  \E f : /\ AreRounds(f, Cardinality(DOMAIN tree), tree, path, DOMAIN tree, recursive)
                /\ list(tree, path, recursive, max)
                     = ListAfter(resolve_existing(tree, path, TRUE), f[Cardinality(DOMAIN tree)], max)
<1> DEFINE N == Cardinality(DOMAIN tree)
           fault == resolve_existing(tree, path, TRUE)
           P(f) == IsRounds(f, tree, path, recursive, N)
           g == CHOOSE f : P(f)
<1>1. list(tree, path, recursive, max) = ListAfter(fault, g[N], max)
  BY DEF list, Rounds, IsRounds, ListAfter
<1>2. N \in Nat BY FS_CardinalityType, TreesAreListed
<1>3. PICK f : P(f)
  BY <1>2, ListRoundsExist
<1>4. P(g)
  <2>1. P(f) BY <1>3
  <2> HIDE DEF P
  <2> QED BY <2>1
<1>6. IsRounds(g, tree, path, recursive, N)
  BY <1>4
<1> HIDE DEF N, g
<1>5. AreRounds(g, N, tree, path, DOMAIN tree, recursive)
  BY <1>2, <1>6, ListRoundsAre
<1> QED BY <1>1, <1>5 DEF N, g

(* What lies below the path is what a traversal of it reaches.                       *)
LEMMA ReachedIs ==
  ASSUME NEW tree \in Trees, NEW path \in DOMAIN tree, NEW recursive \in BOOLEAN
  PROVE  Reached(tree, path, DOMAIN tree, recursive)
           = {p \in Below(tree, path) : recursive \/ Len(p) = Len(path) + 1}
<1>1. ASSUME NEW c \in Reached(tree, path, DOMAIN tree, recursive)
      PROVE  c \in Below(tree, path) /\ (recursive \/ Len(c) = Len(path) + 1)
  <2>1. PICK d \in Entered(tree, path, recursive) : c \in Found(tree, d)
    BY DEF Reached
  <2>2. d \in DOMAIN tree /\ Enters(tree, path, d)
    BY EnteredIs
  <2>3. c \in DOMAIN tree /\ c # <<>> /\ Front(c) = d /\ Visible(tree, c)
    BY <2>1 DEF Found
  <2>4. c \in Below(tree, path) BY <2>2, <2>3, ChildBelow
  <2>5. ~recursive => Front(c) = path BY <2>3 DEF Entered
  <2> QED BY <2>4, <2>5, BelowParent
<1>2. ASSUME NEW c \in Below(tree, path), recursive \/ Len(c) = Len(path) + 1
      PROVE  c \in Reached(tree, path, DOMAIN tree, recursive)
  <2>1. /\ c \in DOMAIN tree /\ c # <<>> /\ Visible(tree, c)
        /\ Enters(tree, path, Front(c))
        /\ Len(c) = Len(path) + 1 <=> Front(c) = path
    BY BelowParent
  <2>2. Front(c) \in Entered(tree, path, recursive)
    BY <1>2, <2>1 DEF Enters, Entered
  <2>3. c \in Found(tree, Front(c)) BY <2>1 DEF Found
  <2> QED BY <2>1, <2>2, <2>3 DEF Reached
<1> QED BY <1>1, <1>2

(* What a list answers, and whether it is a list of this: everything, in order, or a *)
(* part of it that says it was cut.                                                  *)
Listings(tree) == [entries : Seq(DOMAIN tree), inspected : 0..MaxTraversalEntries, omitted : Nat,
                   truncated : {"", "entry_budget", "max_results", "output_bytes"},
                   pending : Seq(DOMAIN tree)]

Uncut(out) == out.truncated = ""

IsListOf(tree, out, all) ==
  /\ out \in Listings(tree) /\ Rising(out.entries) /\ ToSet(out.entries) \subseteq all
  /\ Uncut(out) => ToSet(out.entries) = all

Succeeded(out) == [fault |-> "", output |-> out]

LEMMA Relisted ==
  ASSUME NEW tree, NEW o \in Listings(tree), NEW entries \in Seq(DOMAIN tree)
  PROVE  /\ [o EXCEPT !.entries = entries] \in Listings(tree)
         /\ [o EXCEPT !.entries = entries].entries = entries
         /\ [o EXCEPT !.entries = entries].truncated = o.truncated
  BY DEF Listings

(* An answer of which only the first n entries are kept.                             *)
LEMMA CutListed ==
  ASSUME NEW tree, NEW all, NEW o \in Listings(tree), NEW s \in Seq(DOMAIN tree), Rising(s),
         ToSet(s) \subseteq all, NEW n \in Nat, n < Len(s), NEW reason \in {"max_results", "output_bytes"}
  PROVE  IsListOf(tree, mark_truncated([o EXCEPT !.entries = SubSeq(s, 1, n)], reason), all)
<1> DEFINE t == SubSeq(s, 1, n)
           cut == [o EXCEPT !.entries = t]
           out == mark_truncated(cut, reason)
<1>1. n \in 0..Len(s) OBVIOUS
<1>2. t \in Seq(DOMAIN tree) /\ ToSet(t) \subseteq all /\ Rising(t)
  BY <1>1, RisingPart
<1> HIDE DEF t
<1>3. cut \in Listings(tree) /\ cut.entries = t /\ cut.truncated = o.truncated
  BY <1>2, Relisted
<1> HIDE DEF cut
<1>4. out \in Listings(tree) /\ out.entries = t /\ out.truncated # ""
  <2>1. CASE cut.truncated = ""
    <3> DEFINE m == [cut EXCEPT !.truncated = reason]
    <3>1. m \in Listings(tree) /\ m.truncated = reason /\ m.entries = cut.entries
      BY <1>3 DEF Listings
    <3>2. out = m BY <2>1 DEF mark_truncated
    <3> HIDE DEF m, out
    <3> QED BY <1>3, <3>1, <3>2
  <2>2. CASE cut.truncated # ""
    BY <1>3, <2>2 DEF mark_truncated
  <2> QED BY <2>1, <2>2
<1> HIDE DEF out
<1>5. IsListOf(tree, out, all) BY <1>2, <1>4 DEF IsListOf, Uncut
<1> QED BY <1>5 DEF out, cut, t

LEMMA ListAfterIs ==
  ASSUME NEW tree \in Trees, NEW o \in Outs(tree), IsInjective(o.entries), NEW all,
         ToSet(o.entries) \subseteq all, Uncut(o) => ToSet(o.entries) = all,
         NEW max \in Nat, NEW fault, ~IsFault(fault)
  PROVE  /\ ListAfter(fault, o, max) = Succeeded(ListAfter(fault, o, max).output)
         /\ IsListOf(tree, ListAfter(fault, o, max).output, all)
<1> DEFINE T == DOMAIN tree
           s == InOrder(o.entries)
           whole == [o EXCEPT !.entries = s]
           cut == mark_truncated([o EXCEPT !.entries = SubSeq(s, 1, max)], "max_results")
           out == IF Len(s) <= max THEN whole ELSE cut
<1>1. o \in Listings(tree) BY DEF Outs, Listings
<1>2. OrderedSet(T) BY TreesAreListed DEF OrderedSet
<1>3. o.entries \in Seq(T) BY OutFields
<1>4. s \in Seq(T) /\ ToSet(s) = ToSet(o.entries) /\ Rising(s) /\ Len(s) \in Nat
  <2>1. s \in Seq(T) /\ ToSet(s) = ToSet(o.entries) /\ Rising(s)
    BY <1>2, <1>3, InOrderRises
  <2> HIDE DEF s, T, cut, whole, out
  <2>2. Len(s) \in Nat BY <2>1
  <2> QED BY <2>1, <2>2
<1>5. ListAfter(fault, o, max) = Succeeded(out)
  BY DEF ListAfter, Succeeded
<1>8. T = DOMAIN tree OBVIOUS
<1>9. /\ whole = [o EXCEPT !.entries = s]
      /\ cut = mark_truncated([o EXCEPT !.entries = SubSeq(s, 1, max)], "max_results")
  OBVIOUS
<1>10. (Len(s) <= max => out = whole) /\ (~(Len(s) <= max) => out = cut)
  OBVIOUS
<1> HIDE DEF s, T, cut, whole, out
<1>11. ListAfter(fault, o, max).output = out
  <2>1. Succeeded(out).output = out BY DEF Succeeded
  <2> QED BY <1>5, <2>1
<1>6. CASE Len(s) <= max
  <2>1. whole \in Listings(tree) /\ whole.entries = s /\ whole.truncated = o.truncated
    BY <1>1, <1>4, <1>8, <1>9, Relisted
  <2>3. Uncut(whole) => Uncut(o) BY <2>1 DEF Uncut
  <2>2. out = whole BY <1>6, <1>10
  <2> QED BY <1>4, <1>5, <1>11, <2>1, <2>2, <2>3 DEF IsListOf
<1>7. CASE ~(Len(s) <= max)
  <2>1. max < Len(s) BY <1>4, <1>7
  <2>2. IsListOf(tree, cut, all)
    BY <1>1, <1>4, <1>8, <1>9, <2>1, CutListed
  <2>3. out = cut BY <1>7, <1>10
  <2> QED BY <1>5, <1>11, <2>2, <2>3
<1> QED BY <1>6, <1>7

LEMMA BoundedListIs ==
  ASSUME NEW tree \in Trees, NEW all, NEW listed, NEW out, listed = Succeeded(out),
         IsListOf(tree, out, all)
  PROVE  IsListOf(tree, bounded_list_json(listed).output, all)
<1> DEFINE s == out.entries
           M == MaxResultBytes
           cut == mark_truncated([out EXCEPT !.entries = SubSeq(s, 1, M)], "output_bytes")
<1>1. out \in Listings(tree) /\ s \in Seq(DOMAIN tree) /\ Rising(s) /\ ToSet(s) \subseteq all
  BY DEF IsListOf, Listings
<1>2. M \in Nat /\ Len(s) \in Nat
  <2>1. M \in Nat BY FilesAreLines
  <2> HIDE DEF s, M, cut
  <2>2. Len(s) \in Nat BY <1>1
  <2> QED BY <2>1, <2>2
<1>6. s = out.entries /\ M = MaxResultBytes
  OBVIOUS
<1>7. cut = mark_truncated([out EXCEPT !.entries = SubSeq(s, 1, M)], "output_bytes")
  OBVIOUS
<1> HIDE DEF s, M, cut
<1>8. listed.fault = "" /\ listed.output = out
  BY DEF Succeeded
<1>9. ~(listed.fault # "") BY <1>8
<1>3. listed.output = out BY <1>8
<1>10. /\ Len(listed.output.entries) <= MaxResultBytes => bounded_list_json(listed) = listed
       /\ ~(Len(listed.output.entries) <= MaxResultBytes) =>
            bounded_list_json(listed)
              = [listed EXCEPT !.output =
                   mark_truncated([listed.output EXCEPT
                     !.entries = SubSeq(listed.output.entries, 1, MaxResultBytes)], "output_bytes")]
  BY <1>9 DEF bounded_list_json
<1>4. CASE Len(s) <= M
  <2>1. bounded_list_json(listed) = listed BY <1>3, <1>4, <1>6, <1>10
  <2> QED BY <1>3, <2>1
<1>5. CASE ~(Len(s) <= M)
  <2>1. M < Len(s) BY <1>2, <1>5
  <2>2. IsListOf(tree, cut, all) BY <1>1, <1>2, <1>7, <2>1, CutListed
  <2>3. bounded_list_json(listed) = [listed EXCEPT !.output = cut]
    <3>1. ~(Len(listed.output.entries) <= MaxResultBytes)
      BY <1>3, <1>5, <1>6
    <3> QED BY <1>3, <1>6, <1>7, <1>10, <3>1
  <2>4. bounded_list_json(listed).output = cut
    BY <2>3 DEF Succeeded
  <2> QED BY <2>2, <2>4
<1> QED BY <1>4, <1>5

LEMMA ListAsked ==
  ASSUME AnswerInv, asked.on = "list"
  PROVE  asked.tree \in Trees /\ asked.call.recursive \in BOOLEAN /\ asked.call.max \in Nat
<1>1. PICK tree \in Trees, call \in Calls : asked = [on |-> call.tool, tree |-> tree, call |-> call]
  BY DEF AnswerInv, Posed
<1>2. asked.tree = tree /\ asked.call = call /\ call.tool = "list"
  BY <1>1
<1> QED BY <1>2, CallsNameTools

(* A list that does not say it was cut is everything a tool may see below the        *)
(* directory, each entry once and in order, and one that was cut shows nothing else: *)
(* for every tree, whatever order its directories give their children in, every path *)
(* and every limit (workspace_file_ops.cpp:412, workspace_tool_gateway.cpp:263).     *)
THEOREM FilesAreListed == Spec => []ListIsWhole
<1>1. AnswerInv => ListIsWhole
  <2> SUFFICES ASSUME AnswerInv, Answered("list"), answer.value.fault = "" PROVE ListIsWhole
    BY DEF ListIsWhole
  <2> DEFINE tree == asked.tree
             path == asked.call.path
             recursive == asked.call.recursive
             max == asked.call.max
             all == Listed(tree, asked.call)
             fault == resolve_existing(tree, path, TRUE)
             listed == list(tree, path, recursive, max)
             N == Cardinality(DOMAIN tree)
             out == answer.value.output
  <2>1. answer.value = bounded_list_json(listed)
    BY AnswerOf DEF Answered
  <2>2. tree \in Trees /\ recursive \in BOOLEAN /\ max \in Nat
    BY ListAsked DEF Answered
  <2>3. ~IsFault(fault)
    <3> SUFFICES ASSUME IsFault(fault) PROVE FALSE
      OBVIOUS
    <3>1. listed = [fault |-> fault] BY DEF list
    <3>4. fault # "" BY DEF IsFault
    <3> HIDE DEF listed, fault
    <3>2. listed.fault # "" BY <3>1, <3>4
    <3>3. bounded_list_json(listed) = listed
      BY <3>2 DEF bounded_list_json
    <3> QED BY <2>1, <3>2, <3>3
  <2>4. path \in DOMAIN tree
    <3>1. KindAt(tree, path) = "dir"
      BY <2>3 DEF resolve_existing, IsFault
    <3> QED BY <3>1 DEF KindAt
  <2>5. all = {p \in Below(tree, path) : recursive \/ Len(p) = Len(path) + 1}
    BY DEF Listed
  <2> HIDE DEF tree, path, recursive, max, all, fault, listed, N
  <2>6. PICK f : /\ AreRounds(f, N, tree, path, DOMAIN tree, recursive)
                 /\ listed = ListAfter(fault, f[N], max)
    BY <2>2, <2>4, ListIs DEF listed, fault, N
  <2>7. PICK read : /\ Traversal(tree, path, DOMAIN tree, recursive, f[N], read)
                    /\ f[N].pending = <<>>
    BY <2>2, <2>4, <2>6, RoundsTraverse DEF N
  <2> DEFINE o == f[N]
  <2>8. Traversal(tree, path, DOMAIN tree, recursive, o, read) /\ o.pending = <<>>
    BY <2>7
  <2>9. listed = ListAfter(fault, o, max) BY <2>6
  <2> HIDE DEF o
  <2>10. Reached(tree, path, DOMAIN tree, recursive) = all
    BY <2>2, <2>4, <2>5, ReachedIs
  <2>11. /\ o \in Outs(tree) /\ IsInjective(o.entries) /\ ToSet(o.entries) \subseteq all
         /\ Uncut(o) => ToSet(o.entries) = all
    BY <2>2, <2>4, <2>8, <2>10, TraversalEnds DEF Uncut
  <2>12. /\ listed = Succeeded(listed.output)
         /\ IsListOf(tree, listed.output, all)
    BY <2>2, <2>3, <2>9, <2>11, ListAfterIs
  <2>13. IsListOf(tree, bounded_list_json(listed).output, all)
    BY <2>2, <2>12, BoundedListIs
  <2>14. IsListOf(tree, out, all) BY <2>1, <2>13
  <2>15. all = Listed(asked.tree, asked.call) /\ out = answer.value.output
    BY DEF all, tree
  <2> HIDE DEF out
  <2> QED BY <2>14, <2>15 DEF IsListOf, Rising, Uncut, ListIsWhole
<1> QED BY <1>1, AnswersAreTheCodes, PTL

(* ----------------------------- characters of a text ------------------------------ *)

(* A function on the places 1..N each of which that does not stop makes something of *)
(* what a later one has.                                                             *)
Onward(f, stops, base, step, nxt, N) ==
  \A k \in 1..N : f[k] = IF k \in stops THEN base[k] ELSE step[<<k, f[nxt[k]]>>]

LEMMA OnwardExists ==
  ASSUME NEW T, NEW N \in Nat, NEW stops, NEW base \in [1..N -> T],
         NEW step \in [(1..N) \X T -> T], NEW nxt,
         \A k \in 1..N : k \notin stops => nxt[k] \in k + 1..N
  PROVE  \E f \in [1..N -> T] : Onward(f, stops, base, step, nxt, N)
<1> DEFINE From(n) == N + 1 - n
           Is(f, n) == \A k \in From(n)..N :
                         f[k] = IF k \in stops THEN base[k] ELSE step[<<k, f[nxt[k]]>>]
           S == {n \in Nat : n <= N => \E f \in [From(n)..N -> T] : Is(f, n)}
<1>1. 0 \in S
  <2> DEFINE f == [k \in N + 1..N |-> base[k]]
  <2>1. From(0) = N + 1 OBVIOUS
  <2>2. f \in [N + 1..N -> T] /\ \A k \in N + 1..N : FALSE
    OBVIOUS
  <2>3. Is(f, 0) BY <2>1, <2>2
  <2> QED BY <2>1, <2>2, <2>3
<1>2. ASSUME NEW n \in Nat, n \in S PROVE n + 1 \in S
  <2> SUFFICES ASSUME n + 1 <= N PROVE \E f \in [From(n + 1)..N -> T] : Is(f, n + 1)
    OBVIOUS
  <2>1. PICK f \in [From(n)..N -> T] : Is(f, n)
    <3>1. n <= N OBVIOUS
    <3> QED BY <1>2, <3>1
  <2> DEFINE k == From(n + 1)
             made == IF k \in stops THEN base[k] ELSE step[<<k, f[nxt[k]]>>]
             g == [p \in k..N |-> IF p = k THEN made ELSE f[p]]
  <2>2. k \in 1..N /\ From(n) = k + 1 /\ k \in Nat
    OBVIOUS
  <2>3. \A p \in k + 1..N : f[p] = IF p \in stops THEN base[p] ELSE step[<<p, f[nxt[p]]>>]
    BY <2>1, <2>2
  <2>9. f \in [k + 1..N -> T] BY <2>1, <2>2
  <2>10. From(n + 1) = k OBVIOUS
  <2> HIDE DEF k, S, From
  <2>4. made \in T
    <3>1. CASE k \in stops
      BY <2>2, <3>1
    <3>2. CASE k \notin stops
      <4>1. f[nxt[k]] \in T BY <2>2, <2>9, <3>2
      <4> QED BY <2>2, <3>2, <4>1
    <3> QED BY <3>1, <3>2
  <2>5. g \in [k..N -> T]
    <3>1. \A p \in k..N : p # k => f[p] \in T
      BY <2>2, <2>9
    <3> HIDE DEF made
    <3> QED BY <2>4, <3>1
  <2>6. ASSUME NEW p \in k..N
        PROVE  g[p] = IF p \in stops THEN base[p] ELSE step[<<p, g[nxt[p]]>>]
    <3>1. p \notin stops => g[nxt[p]] = f[nxt[p]]
      <4> SUFFICES ASSUME p \notin stops PROVE g[nxt[p]] = f[nxt[p]]
        OBVIOUS
      <4>1. p \in 1..N BY <2>2
      <4>2. nxt[p] \in p + 1..N BY <4>1
      <4>3. nxt[p] \in k..N /\ nxt[p] # k BY <2>2, <4>2
      <4> QED BY <4>3
    <3>2. CASE p = k
      <4>1. g[p] = made BY <3>2
      <4> HIDE DEF g
      <4> QED BY <3>1, <3>2, <4>1
    <3>3. CASE p # k
      <4>1. p \in k + 1..N /\ g[p] = f[p] BY <2>2, <3>3
      <4> HIDE DEF g
      <4> QED BY <2>3, <3>1, <4>1
    <3> QED BY <3>2, <3>3
  <2> HIDE DEF g
  <2>7. Is(g, n + 1) BY <2>6, <2>10
  <2> QED BY <2>5, <2>7, <2>10
<1> HIDE DEF S
<1>3. N \in S BY <1>1, <1>2, SetInduction
<1>4. N <= N /\ From(N) = 1 OBVIOUS
<1> QED BY <1>3, <1>4 DEF S, Onward

(* A claim about the places of a text that goes from later places to earlier ones.   *)
LEMMA BackwardInduction ==
  ASSUME NEW N \in Nat, NEW S,
         \A k \in 1..N : (\A j \in k + 1..N : j \in S) => k \in S
  PROVE  \A k \in 1..N : k \in S
<1> DEFINE Done == {n \in Nat : \A j \in 1..N : j > N - n => j \in S}
<1>1. 0 \in Done OBVIOUS
<1>2. ASSUME NEW n \in Nat, n \in Done PROVE n + 1 \in Done
  <2> SUFFICES ASSUME NEW j \in 1..N, j > N - (n + 1) PROVE j \in S
    OBVIOUS
  <2>1. \A i \in 1..N : i > N - n => i \in S
    BY <1>2
  <2>2. \A i \in j + 1..N : i \in 1..N /\ i > N - n
    OBVIOUS
  <2> HIDE DEF Done
  <2> QED BY <2>1, <2>2
<1> HIDE DEF Done
<1>3. N \in Done BY <1>1, <1>2, SetInduction
<1>4. \A j \in 1..N : j > N - N OBVIOUS
<1> QED BY <1>3, <1>4 DEF Done

Two(a, b) == a \in 194..223 /\ continuation(b)

Three(a, b, c) ==
  /\ a \in 224..239 /\ continuation(b) /\ continuation(c)
  /\ a = 224 => b >= 160
  /\ a = 237 => b <= 159

Four(a, b, c, d) ==
  /\ a \in 240..244 /\ continuation(b) /\ continuation(c) /\ continuation(d)
  /\ a = 240 => b >= 144
  /\ a = 244 => b <= 143

LEMMA CharacterIs ==
  ASSUME NEW text \in Seq(Nat), NEW at \in 1..Len(text)
  PROVE  CharacterBytes(text, at) =
           IF text[at] \in 1..127 THEN 1
           ELSE IF at + 1 <= Len(text) /\ Two(text[at], text[at + 1]) THEN 2
           ELSE IF at + 2 <= Len(text) /\ Three(text[at], text[at + 1], text[at + 2]) THEN 3
           ELSE IF at + 3 <= Len(text) /\ Four(text[at], text[at + 1], text[at + 2], text[at + 3]) THEN 4
           ELSE 0
<1>1. (\A i \in 2..2 : continuation(text[at + i])) <=> continuation(text[at + 2])
  <2>1. \A i \in 2..2 : i = 2 OBVIOUS
  <2>2. 2 \in 2..2 OBVIOUS
  <2> QED BY <2>1, <2>2
<1>2. (\A i \in 2..3 : continuation(text[at + i])) <=> continuation(text[at + 2]) /\ continuation(text[at + 3])
  <2>1. \A i \in 2..3 : i = 2 \/ i = 3 OBVIOUS
  <2>2. 2 \in 2..3 /\ 3 \in 2..3 OBVIOUS
  <2> QED BY <2>1, <2>2
<1> DEFINE first == text[at]
           a == at + 1 <= Len(text) /\ Two(text[at], text[at + 1])
           b == at + 2 <= Len(text) /\ Three(text[at], text[at + 1], text[at + 2])
           c == at + 3 <= Len(text) /\ Four(text[at], text[at + 1], text[at + 2], text[at + 3])
<1>3. a <=> first \in 194..223 /\ at + 1 <= Len(text) /\ continuation(text[at + 1])
  BY DEF Two
<1>4. b <=> /\ first \in 224..239 /\ at + 2 <= Len(text) /\ continuation(text[at + 1])
            /\ \A i \in 2..2 : continuation(text[at + i])
            /\ first = 224 => text[at + 1] >= 160
            /\ first = 237 => text[at + 1] <= 159
  BY <1>1 DEF Three
<1>5. c <=> /\ first \in 240..244 /\ at + 3 <= Len(text) /\ continuation(text[at + 1])
            /\ \A i \in 2..3 : continuation(text[at + i])
            /\ first = 240 => text[at + 1] >= 144
            /\ first = 244 => text[at + 1] <= 143
  BY <1>2 DEF Four
<1> HIDE DEF a, b, c
<1>6. CharacterBytes(text, at) = IF first \in 1..127 THEN 1 ELSE IF a THEN 2 ELSE IF b THEN 3 ELSE IF c THEN 4 ELSE 0
  BY <1>3, <1>4, <1>5 DEF CharacterBytes
<1> QED BY <1>6 DEF a, b, c

(* Where a character of a text begins, or the text ends. *)
Boundary(text, at) == at = Len(text) + 1 \/ (at \in 1..Len(text) /\ ~continuation(text[at]))

(* The n bytes from a place on are in the text and go on with the first. *)
Fits(text, at, n) ==
  /\ n \in 0..4
  /\ n > 0 => /\ at + n <= Len(text) + 1 /\ ~continuation(text[at])
              /\ \A d \in 1..n - 1 : continuation(text[at + d])

LEMMA CharacterFits ==
  ASSUME NEW text \in Seq(Nat), NEW at \in 1..Len(text)
  PROVE  Fits(text, at, CharacterBytes(text, at))
<1> DEFINE n == CharacterBytes(text, at)
<1>1. n = IF text[at] \in 1..127 THEN 1
          ELSE IF at + 1 <= Len(text) /\ Two(text[at], text[at + 1]) THEN 2
          ELSE IF at + 2 <= Len(text) /\ Three(text[at], text[at + 1], text[at + 2]) THEN 3
          ELSE IF at + 3 <= Len(text) /\ Four(text[at], text[at + 1], text[at + 2], text[at + 3]) THEN 4
          ELSE 0
  BY CharacterIs
<1>2. text[at] \in Nat /\ Len(text) \in Nat
  OBVIOUS
<1> SUFFICES Fits(text, at, n)
  OBVIOUS
<1> HIDE DEF n
<1>3. CASE n = 1
  <2>1. text[at] \in 1..127 BY <1>1, <1>3
  <2>2. n \in 0..4 BY <1>3
  <2>3. at + n <= Len(text) + 1 BY <1>2, <1>3
  <2>4. ~continuation(text[at])
    <3> DEFINE x == text[at]
    <3>1. x \in 1..127 BY <2>1
    <3> HIDE DEF x
    <3>2. ~continuation(x) BY <3>1 DEF continuation
    <3> QED BY <3>2 DEF x
  <2>5. \A d \in 1..n - 1 : continuation(text[at + d])
    BY <1>3
  <2> QED BY <2>2, <2>3, <2>4, <2>5 DEF Fits
<1>4. CASE n = 2
  <2>1. at + 1 <= Len(text) /\ Two(text[at], text[at + 1])
    BY <1>1, <1>4
  <2>2. \A d \in 1..1 : d = 1 OBVIOUS
  <2>3. ~continuation(text[at])
    <3> DEFINE x == text[at]
    <3>1. x \in 194..223 BY <2>1 DEF Two
    <3> HIDE DEF x
    <3>2. ~continuation(x) BY <3>1 DEF continuation
    <3> QED BY <3>2 DEF x
  <2>4. \A d \in 1..n - 1 : continuation(text[at + d])
    <3>1. continuation(text[at + 1]) BY <2>1 DEF Two
    <3> QED BY <1>4, <2>2, <3>1
  <2>5. n \in 0..4 /\ at + n <= Len(text) + 1
    BY <1>2, <1>4, <2>1
  <2> QED BY <2>3, <2>4, <2>5 DEF Fits
<1>5. CASE n = 3
  <2>1. at + 2 <= Len(text) /\ Three(text[at], text[at + 1], text[at + 2])
    BY <1>1, <1>5
  <2>2. \A d \in 1..2 : d = 1 \/ d = 2 OBVIOUS
  <2>3. ~continuation(text[at])
    <3> DEFINE x == text[at]
    <3>1. x \in 224..239 BY <2>1 DEF Three
    <3> HIDE DEF x
    <3>2. ~continuation(x) BY <3>1 DEF continuation
    <3> QED BY <3>2 DEF x
  <2>4. \A d \in 1..n - 1 : continuation(text[at + d])
    <3>1. continuation(text[at + 1]) /\ continuation(text[at + 2])
      BY <2>1 DEF Three
    <3> QED BY <1>5, <2>2, <3>1
  <2>5. n \in 0..4 /\ at + n <= Len(text) + 1
    BY <1>2, <1>5, <2>1
  <2> QED BY <2>3, <2>4, <2>5 DEF Fits
<1>6. CASE n = 4
  <2>1. at + 3 <= Len(text) /\ Four(text[at], text[at + 1], text[at + 2], text[at + 3])
    BY <1>1, <1>6
  <2>2. \A d \in 1..3 : d = 1 \/ d = 2 \/ d = 3
    OBVIOUS
  <2>3. ~continuation(text[at])
    <3> DEFINE x == text[at]
    <3>1. x \in 240..244 BY <2>1 DEF Four
    <3> HIDE DEF x
    <3>2. ~continuation(x) BY <3>1 DEF continuation
    <3> QED BY <3>2 DEF x
  <2>4. \A d \in 1..n - 1 : continuation(text[at + d])
    <3>1. continuation(text[at + 1]) /\ continuation(text[at + 2]) /\ continuation(text[at + 3])
      BY <2>1 DEF Four
    <3> QED BY <1>6, <2>2, <3>1
  <2>5. n \in 0..4 /\ at + n <= Len(text) + 1
    BY <1>2, <1>6, <2>1
  <2> QED BY <2>3, <2>4, <2>5 DEF Fits
<1>7. n \in {0, 1, 2, 3, 4} BY <1>1
<1>8. CASE n = 0
  BY <1>8 DEF Fits
<1> QED BY <1>3, <1>4, <1>5, <1>6, <1>7, <1>8

(* Bytes that are the same but for the case of a letter make the same characters.    *)
Alike(a, b) == ascii_fold(a) = ascii_fold(b)

LEMMA AlikeBytes ==
  ASSUME NEW a \in Nat, NEW b \in Nat, Alike(a, b)
  PROVE  /\ a \in 1..127 <=> b \in 1..127
         /\ a > 127 \/ b > 127 => a = b
         /\ continuation(a) <=> continuation(b)
  BY DEF Alike, ascii_fold, continuation

LEMMA SameCharacter ==
  ASSUME NEW t \in Seq(Nat), NEW i \in 1..Len(t), NEW u \in Seq(Nat), NEW j \in 1..Len(u),
         CharacterBytes(t, i) > 0, j + CharacterBytes(t, i) <= Len(u) + 1,
         \A d \in 0..CharacterBytes(t, i) - 1 : Alike(t[i + d], u[j + d])
  PROVE  CharacterBytes(u, j) = CharacterBytes(t, i)
<1> DEFINE n == CharacterBytes(t, i)
           m == CharacterBytes(u, j)
<1>1. n = IF t[i] \in 1..127 THEN 1
          ELSE IF i + 1 <= Len(t) /\ Two(t[i], t[i + 1]) THEN 2
          ELSE IF i + 2 <= Len(t) /\ Three(t[i], t[i + 1], t[i + 2]) THEN 3
          ELSE IF i + 3 <= Len(t) /\ Four(t[i], t[i + 1], t[i + 2], t[i + 3]) THEN 4
          ELSE 0
  BY CharacterIs
<1>2. m = IF u[j] \in 1..127 THEN 1
          ELSE IF j + 1 <= Len(u) /\ Two(u[j], u[j + 1]) THEN 2
          ELSE IF j + 2 <= Len(u) /\ Three(u[j], u[j + 1], u[j + 2]) THEN 3
          ELSE IF j + 3 <= Len(u) /\ Four(u[j], u[j + 1], u[j + 2], u[j + 3]) THEN 4
          ELSE 0
  BY CharacterIs
<1>3. n > 0 /\ j + n <= Len(u) + 1 /\ \A d \in 0..n - 1 : Alike(t[i + d], u[j + d])
  OBVIOUS
<1>4. Len(t) \in Nat /\ Len(u) \in Nat /\ t[i] \in Nat /\ u[j] \in Nat
  OBVIOUS
<1>5. n \in 0..4 /\ i + n <= Len(t) + 1
  BY <1>3, CharacterFits DEF Fits
<1>6. \A d \in 0..n - 1 : t[i + d] \in Nat /\ u[j + d] \in Nat
  <2> SUFFICES ASSUME NEW d \in 0..n - 1 PROVE t[i + d] \in Nat /\ u[j + d] \in Nat
    OBVIOUS
  <2> HIDE DEF n
  <2>1. n \in Nat /\ d \in Nat /\ d < n /\ i + n <= Len(t) + 1 /\ j + n <= Len(u) + 1
    BY <1>3, <1>5
  <2> DEFINE a == i + d
             b == j + d
  <2>2. a \in 1..Len(t) /\ b \in 1..Len(u) BY <1>4, <2>1, SMTT(20)
  <2> HIDE DEF a, b
  <2>3. t[a] \in Nat BY <2>2, SMTT(30)
  <2>4. u[b] \in Nat BY <2>2, SMTT(30)
  <2> QED BY <2>3, <2>4 DEF a, b
<1> SUFFICES m = n
  OBVIOUS
<1> HIDE DEF n, m
<1>7. 0 \in 0..n - 1 /\ i + 0 = i /\ j + 0 = j
  BY <1>3, <1>5
<1>8. Alike(t[i], u[j]) BY <1>3, <1>7
<1>9. (t[i] \in 1..127 <=> u[j] \in 1..127) /\ (t[i] > 127 \/ u[j] > 127 => t[i] = u[j])
  BY <1>4, <1>8, AlikeBytes
<1>20. ASSUME NEW d \in 1..n - 1, continuation(t[i + d]) PROVE u[j + d] = t[i + d]
  <2>1. d \in 0..n - 1 BY <1>5
  <2>2. Alike(t[i + d], u[j + d]) /\ t[i + d] \in Nat /\ u[j + d] \in Nat
    BY <1>3, <1>6, <2>1
  <2>3. t[i + d] > 127
    <3> DEFINE x == t[i + d]
    <3>1. x \in Nat /\ continuation(x) BY <1>20, <2>2
    <3> HIDE DEF x
    <3>2. x > 127 BY <3>1 DEF continuation
    <3> QED BY <3>2 DEF x
  <2> QED BY <2>2, <2>3, AlikeBytes
<1>21. t[i] \in 194..223 \/ t[i] \in 224..239 \/ t[i] \in 240..244 => u[j] = t[i]
  <2> DEFINE x == t[i]
  <2>1. (x > 127 => u[j] = x) /\ x \in Nat BY <1>4, <1>9
  <2> HIDE DEF x
  <2>2. x \in 194..223 \/ x \in 224..239 \/ x \in 240..244 => u[j] = x
    BY <2>1
  <2> QED BY <2>2 DEF x
<1>22. /\ t[i] \in 224..239 => ~(t[i] \in 194..223)
       /\ t[i] \in 240..244 => ~(t[i] \in 194..223) /\ ~(t[i] \in 224..239)
  <2> DEFINE x == t[i]
  <2>2. x \in Nat BY <1>4
  <2> HIDE DEF x
  <2>1. /\ x \in 224..239 => ~(x \in 194..223)
        /\ x \in 240..244 => ~(x \in 194..223) /\ ~(x \in 224..239)
    BY <2>2
  <2> QED BY <2>1 DEF x
<1>10. CASE t[i] \in 1..127
  BY <1>1, <1>2, <1>9, <1>10
<1>11. CASE t[i] \notin 1..127 /\ i + 1 <= Len(t) /\ Two(t[i], t[i + 1])
  <2>1. n = 2 BY <1>1, <1>11
  <2>2. 1 \in 1..n - 1 /\ continuation(t[i + 1])
    BY <1>11, <2>1 DEF Two
  <2>5. t[i] \in 194..223 BY <1>11 DEF Two
  <2>6. u[j] = t[i] BY <1>21, <2>5
  <2>3. u[j + 1] = t[i + 1] /\ u[j] = t[i] BY <1>20, <2>2, <2>6
  <2>4. j + 1 <= Len(u) /\ Two(u[j], u[j + 1])
    BY <1>3, <1>4, <1>11, <2>1, <2>3
  <2> QED BY <1>2, <1>9, <1>11, <2>1, <2>4
<1>12. CASE t[i] \notin 1..127 /\ ~(i + 1 <= Len(t) /\ Two(t[i], t[i + 1]))
            /\ i + 2 <= Len(t) /\ Three(t[i], t[i + 1], t[i + 2])
  <2>1. n = 3 BY <1>1, <1>12
  <2>2. 1 \in 1..n - 1 /\ 2 \in 1..n - 1 /\ continuation(t[i + 1]) /\ continuation(t[i + 2])
    BY <1>12, <2>1 DEF Three
  <2>5. t[i] \in 224..239 BY <1>12 DEF Three
  <2>7. u[j] = t[i] BY <1>21, <2>5
  <2>3. u[j + 1] = t[i + 1] /\ u[j + 2] = t[i + 2] /\ u[j] = t[i]
    BY <1>20, <2>2, <2>7
  <2>6. ~Two(u[j], u[j + 1])
    <3>1. ~(t[i] \in 194..223) BY <1>22, <2>5
    <3> QED BY <2>3, <3>1 DEF Two
  <2>4. j + 2 <= Len(u) /\ Three(u[j], u[j + 1], u[j + 2]) /\ ~Two(u[j], u[j + 1])
    BY <1>3, <1>4, <1>12, <2>1, <2>3, <2>6
  <2> QED BY <1>2, <1>9, <1>12, <2>1, <2>4
<1>13. CASE t[i] \notin 1..127 /\ ~(i + 1 <= Len(t) /\ Two(t[i], t[i + 1]))
            /\ ~(i + 2 <= Len(t) /\ Three(t[i], t[i + 1], t[i + 2]))
  <2>0. n = 4 /\ i + 3 <= Len(t) /\ Four(t[i], t[i + 1], t[i + 2], t[i + 3])
    BY <1>1, <1>3, <1>13
  <2>2. /\ 1 \in 1..n - 1 /\ 2 \in 1..n - 1 /\ 3 \in 1..n - 1
        /\ continuation(t[i + 1]) /\ continuation(t[i + 2]) /\ continuation(t[i + 3])
    BY <2>0 DEF Four
  <2>5. t[i] \in 240..244 BY <2>0 DEF Four
  <2>7. u[j] = t[i] BY <1>21, <2>5
  <2>3. u[j + 1] = t[i + 1] /\ u[j + 2] = t[i + 2] /\ u[j + 3] = t[i + 3] /\ u[j] = t[i]
    BY <1>20, <2>2, <2>7
  <2>6. ~Two(u[j], u[j + 1]) /\ ~Three(u[j], u[j + 1], u[j + 2])
    <3>1. ~(t[i] \in 194..223) /\ ~(t[i] \in 224..239)
      BY <1>22, <2>5
    <3> QED BY <2>3, <3>1, SMTT(20) DEF Two, Three
  <2>4. /\ j + 3 <= Len(u) /\ Four(u[j], u[j + 1], u[j + 2], u[j + 3])
        /\ ~Two(u[j], u[j + 1]) /\ ~Three(u[j], u[j + 1], u[j + 2])
    BY <1>3, <1>4, <2>0, <2>3, <2>6
  <2> QED BY <1>2, <1>9, <1>13, <2>0, <2>4
<1> QED BY <1>10, <1>11, <1>12, <1>13

(* Character after character to the end. *)
CharacterAt(text, i) ==
  CharacterBytes(text, i) > 0 /\ Boundary(text, i + CharacterBytes(text, i))

WellFormed(text) ==
  /\ Boundary(text, 1)
  /\ \A i \in 1..Len(text) : Boundary(text, i) => CharacterAt(text, i)

IsValid(f, text) ==
  f = [at \in 1..Len(text) + 1 |->
         \/ at = Len(text) + 1
         \/ CharacterBytes(text, at) > 0 /\ f[at + CharacterBytes(text, at)]]

LEMMA ValidExists ==
  ASSUME NEW text \in Seq(Nat)
  PROVE  \E f : IsValid(f, text)
<1> DEFINE L == Len(text)
           N == L + 1
           stops == {k \in 1..N : k = N \/ ~(CharacterBytes(text, k) > 0)}
           base == [k \in 1..N |-> k = N]
           step == [p \in (1..N) \X BOOLEAN |-> p[2]]
           nxt == [k \in 1..N |-> k + CharacterBytes(text, k)]
<1>1. L \in Nat /\ N \in Nat OBVIOUS
<1>2. \A k \in 1..N : k \notin stops => nxt[k] \in k + 1..N
  <2> SUFFICES ASSUME NEW k \in 1..N, k \notin stops PROVE nxt[k] \in k + 1..N
    OBVIOUS
  <2>1. k \in 1..Len(text) /\ CharacterBytes(text, k) > 0
    BY <1>1
  <2> DEFINE n == CharacterBytes(text, k)
  <2>2. n \in 0..4 /\ k + n <= Len(text) + 1
    BY <2>1, CharacterFits DEF Fits
  <2>3. nxt[k] = k + n OBVIOUS
  <2>4. n > 0 BY <2>1
  <2> HIDE DEF n, nxt
  <2> QED BY <1>1, <2>1, <2>2, <2>3, <2>4
<1>3. base \in [1..N -> BOOLEAN] OBVIOUS
<1>4. step \in [(1..N) \X BOOLEAN -> BOOLEAN] /\ \A k \in 1..N, x \in BOOLEAN : step[<<k, x>>] = x
  OBVIOUS
<1>5. \A k \in 1..N : base[k] = (k = N) /\ nxt[k] = k + CharacterBytes(text, k)
  OBVIOUS
<1>6. \A k \in 1..N : k \in stops <=> k = N \/ ~(CharacterBytes(text, k) > 0)
  OBVIOUS
<1> HIDE DEF base, step, nxt, stops
<1>7. PICK f \in [1..N -> BOOLEAN] : Onward(f, stops, base, step, nxt, N)
  <2> HIDE DEF N
  <2>1. N \in Nat BY <1>1
  <2> QED BY <1>2, <1>3, <1>4, <2>1, OnwardExists
<1>8. ASSUME NEW k \in 1..N
      PROVE  f[k] = (k = N \/ (CharacterBytes(text, k) > 0 /\ f[k + CharacterBytes(text, k)]))
  <2>1. f[k] = IF k \in stops THEN base[k] ELSE step[<<k, f[nxt[k]]>>]
    BY <1>7 DEF Onward
  <2>2. CASE k = N
    <3>1. f[k] = (k = N) BY <1>5, <1>6, <2>1, <2>2
    <3> QED BY <2>2, <3>1
  <2>3. CASE k # N /\ ~(CharacterBytes(text, k) > 0)
    <3>1. f[k] = (k = N) BY <1>5, <1>6, <2>1, <2>3
    <3> QED BY <2>3, <3>1
  <2>4. CASE k # N /\ CharacterBytes(text, k) > 0
    <3>1. k \notin stops BY <1>6, <2>4
    <3>2. nxt[k] \in 1..N
      <4>1. nxt[k] \in k + 1..N BY <1>2, <3>1
      <4> QED BY <1>1, <4>1
    <3>3. f[nxt[k]] \in BOOLEAN BY <3>2
    <3>4. f[k] = f[nxt[k]] BY <1>4, <2>1, <3>1, <3>3
    <3>5. f[k] = f[k + CharacterBytes(text, k)]
      BY <1>5, <3>4
    <3>6. f[k] \in BOOLEAN OBVIOUS
    <3> QED BY <2>4, <3>5, <3>6
  <2> QED BY <2>2, <2>3, <2>4
<1>9. f = [k \in 1..N |-> f[k]] OBVIOUS
<1>10. f = [k \in 1..N |-> k = N \/ (CharacterBytes(text, k) > 0 /\ f[k + CharacterBytes(text, k)])]
  BY <1>8, <1>9
<1> QED BY <1>10 DEF IsValid

LEMMA ValidMeans ==
  ASSUME NEW text \in Seq(Nat), NEW f, IsValid(f, text)
  PROVE  f[1] <=> WellFormed(text)
<1> DEFINE L == Len(text)
           N == L + 1
           B(i) == Boundary(text, i)
           C(i) == CharacterAt(text, i)
           n(i) == CharacterBytes(text, i)
<1>1. L \in Nat /\ N \in Nat OBVIOUS
<1>2. \A k \in 1..N : f[k] <=> k = N \/ (n(k) > 0 /\ f[k + n(k)])
  BY DEF IsValid
<1>3. ASSUME NEW k \in 1..L
      PROVE  /\ n(k) \in 0..4
             /\ n(k) > 0 => /\ k + n(k) \in k + 1..N /\ B(k)
                            /\ \A i \in k + 1..k + n(k) - 1 : i \in 1..L /\ ~B(i)
  <2> DEFINE m == n(k)
  <2>1. /\ m \in 0..4
        /\ m > 0 => /\ k + m <= L + 1 /\ ~continuation(text[k])
                    /\ \A d \in 1..m - 1 : continuation(text[k + d])
    BY CharacterFits DEF Fits
  <2> SUFFICES ASSUME m > 0 PROVE /\ k + m \in k + 1..N /\ B(k)
                                  /\ \A i \in k + 1..k + m - 1 : i \in 1..L /\ ~B(i)
    BY <2>1
  <2> HIDE DEF m
  <2>2. B(k) BY <2>1 DEF Boundary
  <2>3. ASSUME NEW i \in k + 1..k + m - 1 PROVE i \in 1..L /\ ~B(i)
    <3>1. i - k \in 1..m - 1 /\ k + (i - k) = i /\ i \in 1..L /\ i # L + 1
      BY <1>1, <2>1
    <3>2. continuation(text[i]) BY <2>1, <3>1
    <3> QED BY <3>1, <3>2 DEF Boundary
  <2>4. k + m \in k + 1..N BY <1>1, <2>1
  <2> QED BY <2>2, <2>3, <2>4
<1>4. ASSUME f[1] PROVE WellFormed(text)
  <2> DEFINE Good(k) == B(k) /\ \A i \in k..L : B(i) => C(i)
             S == {k \in 1..N : f[k] => Good(k)}
  <2>1. ASSUME NEW k \in 1..N, \A j \in k + 1..N : j \in S PROVE k \in S
    <3> SUFFICES ASSUME f[k] PROVE Good(k)
      OBVIOUS
    <3>1. CASE k = N
      <4>1. B(k) BY <3>1 DEF Boundary
      <4>2. \A i \in k..L : FALSE BY <1>1, <3>1
      <4> QED BY <4>1, <4>2
    <3>2. CASE k # N
      <4>1. k \in 1..L BY <1>1, <3>2
      <4>2. n(k) > 0 /\ f[k + n(k)] BY <1>2, <3>2
      <4>3. /\ k + n(k) \in k + 1..N /\ B(k) /\ n(k) \in 0..4
            /\ \A i \in k + 1..k + n(k) - 1 : i \in 1..L /\ ~B(i)
        BY <1>3, <4>1, <4>2
      <4>4. Good(k + n(k))
        <5>1. k + n(k) \in S BY <2>1, <4>3
        <5> QED BY <4>2, <5>1
      <4>5. C(k) BY <4>2, <4>4 DEF CharacterAt
      <4>6. ASSUME NEW i \in k..L, B(i) PROVE C(i)
        <5> DEFINE m == k + n(k)
        <5>1. m \in Nat /\ k \in Nat /\ L \in Nat /\ i \in Nat
          BY <1>1, <4>1, <4>3
        <5>4. \A x \in m..L : B(x) => C(x) BY <4>4
        <5>5. ASSUME NEW x \in k + 1..m - 1 PROVE ~B(x)
          <6> DEFINE c == n(k)
          <6>1. c \in Nat /\ m = k + c BY <4>3, SMTT(20)
          <6>2. \A y \in k + 1..k + c - 1 : ~B(y) BY <4>3
          <6> HIDE DEF c, m, B
          <6> QED BY <5>1, <6>1, <6>2
        <5> HIDE DEF m, B, C
        <5>3. i = k \/ i \in k + 1..m - 1 \/ i \in m..L
          BY <5>1
        <5> QED BY <4>5, <4>6, <5>3, <5>4, <5>5
      <4> QED BY <4>3, <4>6
    <3> QED BY <3>1, <3>2
  <2> HIDE DEF S
  <2>2. 1 \in S
    <3>1. \A k \in 1..N : k \in S BY <1>1, <2>1, BackwardInduction
    <3>2. 1 \in 1..N BY <1>1
    <3> QED BY <3>1, <3>2
  <2>3. Good(1) BY <1>4, <2>2 DEF S
  <2> QED BY <2>3 DEF WellFormed
<1>5. ASSUME WellFormed(text) PROVE f[1]
  <2> DEFINE S == {k \in 1..N : B(k) => f[k]}
  <2>1. ASSUME NEW k \in 1..N, \A j \in k + 1..N : j \in S PROVE k \in S
    <3> SUFFICES ASSUME B(k) PROVE f[k]
      OBVIOUS
    <3>1. CASE k = N
      BY <1>2, <3>1
    <3>2. CASE k # N
      <4>1. k \in 1..L BY <1>1, <3>2
      <4>2. n(k) > 0 /\ B(k + n(k))
        BY <1>5, <4>1 DEF WellFormed, CharacterAt
      <4>3. k + n(k) \in k + 1..N BY <1>3, <4>1, <4>2
      <4>4. k + n(k) \in S BY <2>1, <4>3
      <4>5. f[k + n(k)] BY <4>2, <4>4
      <4> QED BY <1>2, <4>2, <4>5
    <3> QED BY <3>1, <3>2
  <2> HIDE DEF S
  <2>2. 1 \in S
    <3>1. \A k \in 1..N : k \in S BY <1>1, <2>1, BackwardInduction
    <3>2. 1 \in 1..N BY <1>1
    <3> QED BY <3>1, <3>2
  <2>3. B(1) BY <1>5 DEF WellFormed
  <2> QED BY <2>2, <2>3 DEF S
<1> QED BY <1>4, <1>5

LEMMA StrictIs ==
  ASSUME NEW text \in Seq(Nat)
  PROVE  is_strict_utf8_text(text) <=> WellFormed(text)
<1> DEFINE P(f) == IsValid(f, text)
           g == CHOOSE f : P(f)
<1>1. is_strict_utf8_text(text) <=> g[1]
  BY DEF is_strict_utf8_text, IsValid
<1>2. PICK f : P(f)
  BY ValidExists
<1>3. P(g)
  <2>1. P(f) BY <1>2
  <2> HIDE DEF P
  <2> QED BY <2>1
<1>4. IsValid(g, text) BY <1>3
<1> HIDE DEF g
<1> QED BY <1>1, <1>4, ValidMeans

(* A part that begins and ends between characters. *)
LEMMA PartWellFormed ==
  ASSUME NEW text \in Seq(Nat), WellFormed(text), NEW a \in Nat, NEW b \in Nat,
         1 <= a, a <= b + 1, b <= Len(text), Boundary(text, a), Boundary(text, b + 1)
  PROVE  /\ SubSeq(text, a, b) \in Seq(Nat) /\ Len(SubSeq(text, a, b)) = b + 1 - a
         /\ \A i \in 1..b + 1 - a : SubSeq(text, a, b)[i] = text[a + i - 1]
         /\ WellFormed(SubSeq(text, a, b))
<1> DEFINE s == SubSeq(text, a, b)
           m == b + 1 - a
           L == Len(text)
<1>1. L \in Nat /\ m \in Nat /\ a + m = b + 1
  OBVIOUS
<1>2. s \in Seq(Nat) /\ Len(s) = m /\ \A i \in 1..m : s[i] = text[a + i - 1]
  OBVIOUS
<1> HIDE DEF s
<1>9. m = b + 1 - a OBVIOUS
<1> HIDE DEF m
<1>3. ASSUME NEW p \in 1..m + 1 PROVE Boundary(s, p) <=> Boundary(text, a + p - 1)
  <2>1. CASE p = m + 1
    <3>1. a + p - 1 = b + 1 BY <1>1, <2>1
    <3> QED BY <1>2, <2>1, <3>1 DEF Boundary
  <2>2. CASE p # m + 1
    <3>1. p \in 1..m /\ a + p - 1 \in 1..L /\ a + p - 1 # L + 1
      BY <1>1, <2>2
    <3>2. s[p] = text[a + p - 1] BY <1>2, <3>1
    <3> QED BY <1>2, <2>2, <3>1, <3>2 DEF Boundary
  <2> QED BY <2>1, <2>2
<1>4. Boundary(s, 1)
  <2>1. 1 \in 1..m + 1 /\ a + 1 - 1 = a BY <1>1
  <2> QED BY <1>3, <2>1
<1>5. ASSUME NEW i \in 1..Len(s), Boundary(s, i) PROVE CharacterAt(s, i)
  <2> DEFINE j == a + i - 1
             n == CharacterBytes(text, j)
  <2>1. i \in 1..m /\ i \in 1..m + 1 /\ j \in 1..L /\ j <= b /\ j \in Nat
    BY <1>1, <1>2
  <2>2. Boundary(text, j) BY <1>3, <1>5, <2>1
  <2>3. n > 0 /\ Boundary(text, j + n)
    BY <2>1, <2>2 DEF WellFormed, CharacterAt
  <2>4. n \in 0..4 /\ j + n <= L + 1 /\ \A d \in 1..n - 1 : continuation(text[j + d])
    BY <2>1, <2>3, CharacterFits DEF Fits
  <2>9. j = a + i - 1 OBVIOUS
  <2> HIDE DEF n, j
  <2>5. j + n <= b + 1
    <3> SUFFICES ASSUME b + 1 < j + n PROVE FALSE
      BY <2>1, <2>4
    <3> DEFINE d == b + 1 - j
    <3>1. d \in 1..n - 1 /\ j + d = b + 1 /\ b + 1 # L + 1 /\ b + 1 \in 1..L
      BY <1>1, <2>1, <2>4
    <3>2. continuation(text[b + 1]) BY <2>4, <3>1
    <3> QED BY <3>1, <3>2 DEF Boundary
  <2>6. i + n <= Len(s) + 1 /\ i + n \in 1..m + 1 /\ a + (i + n) - 1 = j + n
    BY <1>1, <1>2, <2>1, <2>4, <2>5, <2>9
  <2>7. \A d \in 0..n - 1 : Alike(text[j + d], s[i + d])
    <3> SUFFICES ASSUME NEW d \in 0..n - 1 PROVE Alike(text[j + d], s[i + d])
      OBVIOUS
    <3>1. i + d \in 1..m /\ a + (i + d) - 1 = j + d
      BY <1>1, <1>2, <2>1, <2>4, <2>6, <2>9
    <3>2. s[i + d] = text[j + d] BY <1>2, <3>1
    <3> QED BY <3>2 DEF Alike
  <2>8. CharacterBytes(s, i) = n
    <3>1. CharacterBytes(text, j) > 0 /\ i + CharacterBytes(text, j) <= Len(s) + 1
          /\ \A d \in 0..CharacterBytes(text, j) - 1 : Alike(text[j + d], s[i + d])
      BY <2>3, <2>6, <2>7 DEF n
    <3>2. CharacterBytes(s, i) = CharacterBytes(text, j)
      BY <1>2, <2>1, <3>1, SameCharacter
    <3> QED BY <3>2 DEF n
  <2>10. Boundary(s, i + n) BY <1>3, <2>3, <2>6
  <2> QED BY <2>3, <2>8, <2>10 DEF CharacterAt
<1> QED BY <1>2, <1>4, <1>5, <1>9 DEF WellFormed, s

(* The character that ends where the next one begins. *)
LEMMA LastCharacter ==
  ASSUME NEW text \in Seq(Nat), WellFormed(text), NEW e \in 1..Len(text), Boundary(text, e + 1)
  PROVE  \E p \in 1..e : /\ Boundary(text, p) /\ CharacterBytes(text, p) \in 1..4
                         /\ p + CharacterBytes(text, p) = e + 1
<1> DEFINE T == {p \in 1..e : Boundary(text, p)}
           p == Max(T)
           n == CharacterBytes(text, p)
           L == Len(text)
<1>1. e \in Nat /\ L \in Nat /\ e <= L OBVIOUS
<1>2. T \subseteq 0..e /\ T # {}
  <2>1. 1 \in 1..e /\ Boundary(text, 1) BY DEF WellFormed
  <2>2. \A i \in 1..e : i \in 0..e OBVIOUS
  <2> QED BY <2>1, <2>2
<1>3. p \in T /\ \A i \in T : p >= i
  <2> HIDE DEF T
  <2> QED BY <1>1, <1>2, MaxIsGreatest
<1> HIDE DEF p
<1>4. p \in 1..e /\ p \in 1..L /\ Boundary(text, p)
  BY <1>1, <1>3
<1>5. n > 0 /\ Boundary(text, p + n)
  BY <1>4 DEF WellFormed, CharacterAt
<1>6. n \in 0..4 /\ p + n <= L + 1 /\ \A d \in 1..n - 1 : continuation(text[p + d])
  BY <1>4, <1>5, CharacterFits DEF Fits
<1>9. ASSUME p + n \in 1..e PROVE FALSE
  <2>1. p + n \in T BY <1>5, <1>9
  <2>2. p >= p + n BY <1>3, <2>1
  <2> HIDE DEF n, T
  <2> QED BY <1>4, <1>5, <1>6, <2>2
<1> HIDE DEF n
<1>7. ~(e + 1 < p + n)
  <2> SUFFICES ASSUME e + 1 < p + n PROVE FALSE
    OBVIOUS
  <2> DEFINE d == e + 1 - p
  <2>1. d \in 1..n - 1 /\ p + d = e + 1 /\ e + 1 \in 1..L /\ e + 1 # L + 1
    BY <1>1, <1>4, <1>6
  <2>2. continuation(text[e + 1]) BY <1>6, <2>1
  <2> QED BY <2>1, <2>2 DEF Boundary
<1>8. p + n = e + 1 /\ n \in 1..4
  BY <1>1, <1>4, <1>5, <1>6, <1>7, <1>9
<1> QED BY <1>4, <1>8 DEF n

(* An occurrence of a text begins and ends between characters. *)
LEMMA OccurrenceAligned ==
  ASSUME NEW line \in Seq(Nat), WellFormed(line), NEW query \in Seq(Nat), WellFormed(query),
         query # <<>>, NEW exactly \in BOOLEAN, NEW at \in 1..Len(line), Occurs(line, at, query, exactly)
  PROVE  /\ Len(query) \in Nat \ {0} /\ at + Len(query) - 1 <= Len(line)
         /\ Boundary(line, at) /\ Boundary(line, at + Len(query))
<1> DEFINE q == Len(query)
           L == Len(line)
<1>1. q \in Nat \ {0} /\ L \in Nat /\ at + q - 1 <= L
  BY DEF Occurs
<1>2. ASSUME NEW i \in 1..q
      PROVE  /\ at + i - 1 \in 1..L /\ line[at + i - 1] \in Nat /\ query[i] \in Nat
             /\ Alike(line[at + i - 1], query[i])
  <2>1. at + i - 1 \in 1..L BY <1>1
  <2>2. line[at + i - 1] \in Nat /\ query[i] \in Nat
    BY <2>1, SMTT(20)
  <2>3. CASE exactly
    <3>1. line[at + i - 1] = query[i] BY <2>3 DEF Occurs
    <3> QED BY <2>1, <2>2, <3>1 DEF Alike
  <2>4. CASE ~exactly
    <3>1. ascii_fold(line[at + i - 1]) = ascii_fold(query[i])
      BY <2>4 DEF Occurs
    <3> QED BY <2>1, <2>2, <3>1 DEF Alike
  <2> QED BY <2>3, <2>4
<1>3. ASSUME NEW i \in 1..q, Boundary(query, i) PROVE Boundary(line, at + i - 1)
  <2>1. i # q + 1 BY <1>1
  <2>2. ~continuation(query[i]) BY <1>3, <2>1 DEF Boundary
  <2>3. ~continuation(line[at + i - 1]) BY <1>2, <2>2, AlikeBytes, ZenonT(30)
  <2> QED BY <1>2, <2>3 DEF Boundary
<1>4. Boundary(line, at)
  <2>1. 1 \in 1..q /\ at + 1 - 1 = at BY <1>1
  <2>2. Boundary(query, 1) BY DEF WellFormed
  <2> QED BY <1>3, <2>1, <2>2
<1>5. Boundary(line, at + q)
  <2>1. q \in 1..Len(query) /\ Boundary(query, q + 1)
    BY <1>1 DEF Boundary
  <2>2. PICK p \in 1..q : /\ Boundary(query, p) /\ CharacterBytes(query, p) \in 1..4
                          /\ p + CharacterBytes(query, p) = q + 1
    BY <2>1, LastCharacter
  <2> DEFINE n == CharacterBytes(query, p)
             j == at + p - 1
  <2>3. Boundary(line, j) /\ j \in 1..L BY <1>2, <1>3, <2>2
  <2>4. CharacterAt(line, j) BY <2>3 DEF WellFormed
  <2>5. n \in 1..4 /\ p + n = q + 1 BY <2>2
  <2>6. CharacterBytes(line, j) = n
    <3>1. j + n <= L + 1
      <4> HIDE DEF n
      <4> QED BY <1>1, <2>2, <2>5
    <3>2. ASSUME NEW d \in 0..n - 1 PROVE Alike(query[p + d], line[j + d])
      <4>1. d \in Nat /\ p + d \in 1..q /\ at + (p + d) - 1 = j + d
        <5> HIDE DEF n
        <5> QED BY <1>1, <2>2, <2>5
      <4>2. Alike(line[at + (p + d) - 1], query[p + d])
        BY <1>2, <4>1
      <4> QED BY <4>1, <4>2 DEF Alike
    <3>3. n > 0 /\ p \in 1..Len(query) /\ j \in 1..Len(line)
      BY <2>3, <2>5, SMTT(20)
    <3> HIDE DEF j
    <3> QED BY <3>1, <3>2, <3>3, SameCharacter
  <2>7. Boundary(line, j + n) BY <2>4, <2>6 DEF CharacterAt
  <2>8. j + n = at + q
    <3>1. p \in Nat /\ at \in Nat /\ q \in Nat /\ n \in Nat /\ p + n = q + 1
      BY <1>1, <2>5
    <3>2. j = at + p - 1 OBVIOUS
    <3> HIDE DEF n, j, q
    <3>3. at + p - 1 + n = at + q BY <3>1
    <3>4. j \in Nat BY <3>1, <3>2
    <3> QED BY <3>1, <3>2, <3>4
  <2> QED BY <2>7, <2>8
<1> QED BY <1>1, <1>4, <1>5

(* The part of a line that is shown is text; it holds what was found, or the end of  *)
(* what is too long to be shown.                                                     *)
Frames(line, fr, at, q) ==
  /\ fr.first \in Nat \ {0} /\ fr.last \in Nat
  /\ SubSeq(line, fr.first, fr.last) \in Seq(Nat) /\ WellFormed(SubSeq(line, fr.first, fr.last))
  /\ IF q <= MaxFragmentBytes THEN fr.first <= at /\ at + q - 1 <= fr.last
     ELSE fr.first <= at + q - 1 /\ at <= fr.last

LEMMA FrameIs ==
  ASSUME NEW line \in Seq(Nat), WellFormed(line), NEW q \in Nat \ {0}, NEW at \in 1..Len(line),
         at + q - 1 <= Len(line), NEW first \in Nat, NEW last \in Nat, first <= last, last <= Len(line),
         Boundary(line, first + 1), Boundary(line, last + 1),
         IF q <= MaxFragmentBytes THEN first + 1 <= at /\ at + q - 1 <= last
         ELSE first + 1 <= at + q - 1 /\ at <= last
  PROVE  Frames(line, [first |-> first + 1, last |-> last, cut |-> TRUE], at, q)
<1>1. /\ first + 1 \in Nat /\ 1 <= first + 1 /\ first + 1 <= last + 1
  OBVIOUS
<1>2. SubSeq(line, first + 1, last) \in Seq(Nat) /\ WellFormed(SubSeq(line, first + 1, last))
  BY <1>1, PartWellFormed
<1> DEFINE fr == [first |-> first + 1, last |-> last, cut |-> TRUE]
<1>3. fr.first = first + 1 /\ fr.last = last
  OBVIOUS
<1> HIDE DEF fr
<1>4. Frames(line, fr, at, q) BY <1>1, <1>2, <1>3 DEF Frames
<1> QED BY <1>4 DEF fr

(* The first place from `begin` on, and the last one back to `first`, where a        *)
(* character begins.                                                                 *)
IsFirst(b, line, begin, end) ==
  /\ b = end \/ ~continuation(line[b + 1])
  /\ \A c \in begin..b - 1 : continuation(line[c + 1])

IsLast(e, line, first, end) ==
  /\ e = first \/ ~continuation(line[e + 1])
  /\ \A c \in e + 1..end : continuation(line[c + 1])

LEMMA FirstExists ==
  ASSUME NEW line, NEW begin \in Nat, NEW end \in Nat, begin <= end
  PROVE  \E b \in begin..end : IsFirst(b, line, begin, end)
<1> DEFINE T == {b \in begin..end : b = end \/ ~continuation(line[b + 1])}
<1>1. T \subseteq Nat /\ T # {}
  <2>1. end \in begin..end /\ \A b \in begin..end : b \in Nat
    OBVIOUS
  <2> QED BY <2>1
<1>2. PICK b \in T : \A y \in T : ~(y < b)
  BY <1>1, LeastElement
<1>3. b \in begin..end /\ (b = end \/ ~continuation(line[b + 1]))
  OBVIOUS
<1>4. ASSUME NEW c \in begin..b - 1 PROVE continuation(line[c + 1])
  <2>1. c \in begin..end /\ c < b /\ c # end
    BY <1>3
  <2>2. c \notin T BY <1>2, <2>1
  <2> QED BY <2>1, <2>2
<1> QED BY <1>3, <1>4 DEF IsFirst

LEMMA LastExists ==
  ASSUME NEW line, NEW first \in Nat, NEW end \in Nat, first <= end
  PROVE  \E e \in first..end : IsLast(e, line, first, end)
<1> DEFINE T == {e \in first..end : e = first \/ ~continuation(line[e + 1])}
<1>1. T \subseteq 0..end /\ T # {}
  <2>1. first \in first..end /\ \A e \in first..end : e \in 0..end
    OBVIOUS
  <2> QED BY <2>1
<1> DEFINE e == Max(T)
<1>2. e \in T /\ \A y \in T : e >= y
  <2> HIDE DEF T
  <2> QED BY <1>1, MaxIsGreatest
<1> HIDE DEF e
<1>3. e \in first..end /\ (e = first \/ ~continuation(line[e + 1]))
  BY <1>2
<1>4. ASSUME NEW c \in e + 1..end PROVE continuation(line[c + 1])
  <2>1. c \in first..end /\ c > e /\ ~(e >= c)
    BY <1>3
  <2>2. c \notin T BY <1>2, <2>1
  <2> QED BY <2>1, <2>2
<1> QED BY <1>3, <1>4 DEF IsLast

(* From where to where bytes are looked at, and what of it is whole characters.      *)
FragmentOf(line, begin, end) ==
  LET first == CHOOSE b \in begin..end : IsFirst(b, line, begin, end)
      last == IF end = Len(line) THEN end ELSE CHOOSE e \in first..end : IsLast(e, line, first, end)
  IN  [first |-> first + 1, last |-> last, cut |-> TRUE]

(* A window in which a character begins before its end, and what has to be in it.    *)
LEMMA FragmentFrames ==
  ASSUME NEW line \in Seq(Nat), WellFormed(line), NEW q \in Nat \ {0}, NEW at \in 1..Len(line),
         at + q - 1 <= Len(line), Boundary(line, at), Boundary(line, at + q),
         NEW begin \in Nat, NEW end \in Nat, at + q - 1 <= end, end <= Len(line),
         NEW start \in Nat, begin <= start, start < end, Boundary(line, start + 1),
         IF q <= MaxFragmentBytes THEN begin <= at - 1 ELSE end = at + q - 1
  PROVE  Frames(line, FragmentOf(line, begin, end), at, q)
<1> DEFINE L == Len(line)
           first == CHOOSE b \in begin..end : IsFirst(b, line, begin, end)
           last == IF end = L THEN end ELSE CHOOSE e \in first..end : IsLast(e, line, first, end)
<1>1. FragmentOf(line, begin, end) = [first |-> first + 1, last |-> last, cut |-> TRUE]
  BY DEF FragmentOf
<1>2. L \in Nat /\ MaxFragmentBytes \in Nat /\ at \in Nat /\ q \in Nat /\ 1 <= at /\ 1 <= q
  BY FragmentParameter
<1>3. first \in begin..end /\ IsFirst(first, line, begin, end)
  <2>1. begin <= end BY <1>2
  <2>2. \E b \in begin..end : IsFirst(b, line, begin, end)
    BY <2>1, FirstExists
  <2> QED BY <2>2
<1> HIDE DEF first
<1>4. first \in Nat /\ begin <= first /\ first <= end
  BY <1>3
<1>5. ASSUME NEW c \in Nat, begin <= c, c < end, Boundary(line, c + 1) PROVE first <= c
  <2> SUFFICES ASSUME c < first PROVE FALSE
    BY <1>4
  <2>1. c \in begin..first - 1 /\ c + 1 # L + 1
    BY <1>2, <1>4, <1>5
  <2>2. continuation(line[c + 1]) BY <1>3, <2>1 DEF IsFirst
  <2> QED BY <1>5, <2>1, <2>2 DEF Boundary
<1>6. first <= start /\ first < end
  <2>1. first <= start BY <1>5
  <2> QED BY <1>4, <2>1
<1>7. Boundary(line, first + 1)
  <2>1. first # end /\ first + 1 \in 1..L BY <1>2, <1>4, <1>6
  <2>2. ~continuation(line[first + 1]) BY <1>3, <2>1 DEF IsFirst
  <2> QED BY <2>1, <2>2 DEF Boundary
<1>8. IF q <= MaxFragmentBytes THEN first + 1 <= at ELSE first + 1 <= at + q - 1
  <2>1. CASE q <= MaxFragmentBytes
    <3>1. at - 1 \in Nat /\ begin <= at - 1 /\ at - 1 < end /\ (at - 1) + 1 = at
      BY <1>2, <2>1
    <3>2. first <= at - 1 BY <1>5, <3>1
    <3> QED BY <1>2, <1>4, <2>1, <3>2
  <2>2. CASE ~(q <= MaxFragmentBytes)
    BY <1>2, <1>4, <1>6, <2>2
  <2> QED BY <2>1, <2>2
<1>9. last \in first..end /\ Boundary(line, last + 1) /\ at + q - 1 <= last
  <2>1. CASE end = L
    <3>1. last = end BY <2>1
    <3> HIDE DEF last
    <3>2. Boundary(line, last + 1) BY <2>1, <3>1 DEF Boundary
    <3> QED BY <1>2, <1>4, <3>1, <3>2
  <2>2. CASE end # L
    <3>1. last \in first..end /\ IsLast(last, line, first, end)
      <4>1. \E e \in first..end : IsLast(e, line, first, end)
        BY <1>4, LastExists
      <4>2. last = CHOOSE e \in first..end : IsLast(e, line, first, end)
        BY <2>2
      <4> QED BY <4>1, <4>2
    <3> HIDE DEF last
    <3>2. last \in Nat /\ first <= last /\ last <= end /\ end < L
      BY <1>2, <1>4, <2>2, <3>1
    <3>3. Boundary(line, last + 1)
      <4>1. CASE last = first
        BY <1>7, <4>1
      <4>2. CASE last # first
        <5>1. last + 1 \in 1..L BY <1>2, <3>2
        <5>2. ~continuation(line[last + 1]) BY <3>1, <4>2 DEF IsLast
        <5> QED BY <5>1, <5>2 DEF Boundary
      <4> QED BY <4>1, <4>2
    <3>4. at + q - 1 <= last
      <4> DEFINE c == at + q - 1
      <4>1. c \in Nat /\ c + 1 = at + q /\ c <= end
        BY <1>2
      <4> HIDE DEF c
      <4>2. ASSUME last < c PROVE FALSE
        <5>1. c \in last + 1..end /\ c + 1 \in 1..L /\ c + 1 # L + 1
          BY <1>2, <3>2, <4>1, <4>2
        <5>2. continuation(line[c + 1]) BY <3>1, <5>1 DEF IsLast
        <5>3. Boundary(line, c + 1) BY <4>1
        <5> QED BY <5>1, <5>2, <5>3 DEF Boundary
      <4>3. c <= last BY <3>2, <4>1, <4>2
      <4> QED BY <4>3 DEF c
    <3> QED BY <3>1, <3>3, <3>4
  <2> QED BY <2>1, <2>2
<1> HIDE DEF last
<1>10. last \in Nat /\ first <= last /\ last <= L
  BY <1>2, <1>4, <1>9
<1>11. IF q <= MaxFragmentBytes THEN first + 1 <= at /\ at + q - 1 <= last
       ELSE first + 1 <= at + q - 1 /\ at <= last
  <2>1. at <= at + q - 1 BY <1>2
  <2> DEFINE c == at + q - 1
  <2>2. c \in Nat /\ at <= c /\ c <= last BY <1>2, <1>9, <2>1
  <2> HIDE DEF c
  <2>3. at <= last BY <1>2, <1>10, <2>2
  <2> QED BY <1>8, <1>9, <2>3
<1>12. Frames(line, [first |-> first + 1, last |-> last, cut |-> TRUE], at, q)
  BY <1>4, <1>7, <1>9, <1>10, <1>11, FrameIs
<1> QED BY <1>1, <1>12

LEMMA FragmentIs ==
  ASSUME NEW line \in Seq(Nat), WellFormed(line), NEW q \in Nat \ {0}, NEW at \in 1..Len(line),
         at + q - 1 <= Len(line), Boundary(line, at), Boundary(line, at + q)
  PROVE  Frames(line, line_fragment(line, at, q), at, q)
<1> DEFINE M == MaxFragmentBytes
           third == MaxFragmentBytes \div 3
           Size == Len(line)
           Least(a, b) == IF a < b THEN a ELSE b
           offset == at - 1
           near == IF offset > third THEN offset - third ELSE 0
           far == Least(Size, near + M)
           late == offset + q > far
           end == IF late THEN Least(Size, offset + q) ELSE far
           begin == IF ~late THEN near ELSE IF end > M THEN end - M ELSE 0
<1>1. /\ Size \in Nat /\ M \in Nat /\ third \in Nat /\ offset \in Nat /\ q \in Nat /\ M >= 4 /\ 1 <= q
      /\ at \in Nat /\ at = offset + 1 /\ offset + q <= Size
  BY FragmentParameter
<1>2. line_fragment(line, at, q) =
        IF Size <= M THEN [first |-> 1, last |-> Size, cut |-> FALSE] ELSE FragmentOf(line, begin, end)
  BY DEF line_fragment, FragmentOf, IsFirst, IsLast
<1>3. CASE Size <= M
  <2>1. Boundary(line, 1) /\ Boundary(line, Size + 1) /\ 1 \in Nat /\ 1 <= 1 /\ 1 <= Size + 1 /\ Size <= Size
    BY <1>1 DEF WellFormed, Boundary
  <2>2. SubSeq(line, 1, Size) \in Seq(Nat) /\ WellFormed(SubSeq(line, 1, Size))
    <3> HIDE DEF Size
    <3>1. Size = Len(line) BY DEF Size
    <3> QED BY <1>1, <2>1, <3>1, PartWellFormed
  <2>3. line_fragment(line, at, q) = [first |-> 1, last |-> Size, cut |-> FALSE]
    BY <1>2, <1>3
  <2> DEFINE fr == [first |-> 1, last |-> Size, cut |-> FALSE]
  <2>4. fr.first = 1 /\ fr.last = Size OBVIOUS
  <2> HIDE DEF fr
  <2>5. q <= M /\ 1 <= at /\ at + q - 1 <= Size /\ 1 \in Nat \ {0}
    BY <1>1, <1>3
  <2>6. Frames(line, fr, at, q) BY <1>1, <2>2, <2>4, <2>5 DEF Frames
  <2> QED BY <2>3, <2>6 DEF fr
<1>4. CASE ~(Size <= M)
  <2>1. line_fragment(line, at, q) = FragmentOf(line, begin, end)
    BY <1>2, <1>4
  <2>2. near \in Nat /\ near <= offset
    <3> HIDE DEF third, offset
    <3> QED BY <1>1
  <2> HIDE DEF near, third, Size, offset
  <2>3. far \in Nat /\ far <= Size /\ far <= near + M
    <3>1. near + M \in Nat BY <1>1, <2>2
    <3> QED BY <1>1, <3>1
  <2> HIDE DEF far
  <2>4. CASE late
    <3>1. end = offset + q
      <4>1. end = Least(Size, offset + q) BY <2>4
      <4>2. offset + q \in Nat BY <1>1
      <4> HIDE DEF end
      <4> QED BY <1>1, <4>1, <4>2
    <3>2. begin = IF end > M THEN end - M ELSE 0
      BY <2>4
    <3> HIDE DEF end, begin, late
    <3>3. end \in Nat /\ begin \in Nat /\ begin <= end /\ end <= Size /\ offset + q <= end
      BY <1>1, <3>1, <3>2
    <3>4. CASE q <= M
      <4>1. begin <= offset /\ offset < end BY <1>1, <3>1, <3>2, <3>4
      <4>2. Boundary(line, offset + 1) /\ at + q - 1 <= end /\ begin <= at - 1 /\ end <= Len(line)
        BY <1>1, <3>3, <4>1 DEF Size
      <4>3. Frames(line, FragmentOf(line, begin, end), at, q)
        BY <1>1, <3>3, <3>4, <4>1, <4>2, FragmentFrames
      <4> QED BY <2>1, <4>3 DEF end, begin, late
    <3>5. CASE ~(q <= M)
      <4>1. end \in 1..Len(line) /\ Boundary(line, end + 1)
        <5>1. end + 1 = at + q BY <1>1, <3>1
        <5> QED BY <1>1, <3>1, <3>3, <5>1 DEF Size
      <4>2. PICK p \in 1..end : /\ Boundary(line, p) /\ CharacterBytes(line, p) \in 1..4
                                /\ p + CharacterBytes(line, p) = end + 1
        BY <4>1, LastCharacter
      <4> DEFINE start == p - 1
                 n == CharacterBytes(line, p)
      <4>3. n \in 1..4 /\ p + n = end + 1 BY <4>2
      <4> HIDE DEF n
      <4>4. start \in Nat /\ start < end /\ begin <= start /\ start + 1 = p
        BY <1>1, <3>1, <3>2, <3>3, <4>3
      <4>5. Boundary(line, start + 1) BY <4>2, <4>4
      <4> HIDE DEF start
      <4>6. at + q - 1 <= end /\ end = at + q - 1 /\ end <= Len(line)
        BY <1>1, <3>1, <4>1
      <4>7. Frames(line, FragmentOf(line, begin, end), at, q)
        BY <1>1, <3>3, <3>5, <4>4, <4>5, <4>6, FragmentFrames
      <4> QED BY <2>1, <4>7 DEF end, begin, late
    <3> QED BY <3>4, <3>5
  <2>5. CASE ~late
    <3>1. end = far /\ begin = near /\ offset + q <= far
      BY <1>1, <2>3, <2>5
    <3> HIDE DEF end, begin, late
    <3>2. q <= M /\ near < far /\ offset < far
      BY <1>1, <2>2, <2>3, <3>1
    <3>3. at + q - 1 <= far /\ far <= Len(line) /\ Boundary(line, offset + 1) /\ near <= at - 1
      BY <1>1, <2>2, <2>3, <3>1 DEF Size
    <3>4. Frames(line, FragmentOf(line, near, far), at, q)
      BY <1>1, <2>2, <2>3, <3>2, <3>3, FragmentFrames
    <3> QED BY <2>1, <3>1, <3>4 DEF end, begin, late
  <2> QED BY <2>4, <2>5
<1> QED BY <1>3, <1>4

(* Where a text occurs in a line. *)
Same(line, at, query, exactly) ==
  \A i \in 1..Len(query) :
    (IF exactly THEN line[at + i - 1] ELSE ascii_fold(line[at + i - 1]))
      = (IF exactly THEN query[i] ELSE ascii_fold(query[i]))

Occurrences(line, query, exactly) == {a \in 1..Len(line) : Occurs(line, a, query, exactly)}

IsMatching(f, line, query, exactly) ==
  f = [at \in 1..Len(line) + 1 |->
         IF at + Len(query) > Len(line) + 1 THEN <<>>
         ELSE IF Same(line, at, query, exactly) THEN <<at>> \o f[at + Len(query)]
         ELSE f[at + 1]]

LEMMA SameIs ==
  ASSUME NEW line, NEW query, NEW exactly \in BOOLEAN, NEW at,
         at + Len(query) - 1 <= Len(line)
  PROVE  Same(line, at, query, exactly) <=> Occurs(line, at, query, exactly)
<1>1. CASE exactly
  BY <1>1 DEF Same, Occurs
<1>2. CASE ~exactly
  BY <1>2 DEF Same, Occurs
<1> QED BY <1>1, <1>2

LEMMA MatchingExists ==
  ASSUME NEW line \in Seq(Nat), NEW query \in Seq(Nat), query # <<>>, NEW exactly \in BOOLEAN
  PROVE  \E f : IsMatching(f, line, query, exactly)
<1> DEFINE L == Len(line)
           q == Len(query)
           N == L + 1
           T == Seq(Nat)
           S(k) == Same(line, k, query, exactly)
           stops == {k \in 1..N : k + q > N}
           base == [k \in 1..N |-> <<>>]
           step == [p \in (1..N) \X T |-> IF S(p[1]) THEN <<p[1]>> \o p[2] ELSE p[2]]
           nxt == [k \in 1..N |-> IF S(k) THEN k + q ELSE k + 1]
<1>1. L \in Nat /\ N \in Nat /\ q \in Nat /\ q >= 1
  OBVIOUS
<1>9. N = Len(line) + 1 /\ q = Len(query)
  OBVIOUS
<1> HIDE DEF N, q, S
<1>2. \A k \in 1..N : k \notin stops => nxt[k] \in k + 1..N
  BY <1>1
<1>3. <<>> \in T OBVIOUS
<1>4. base \in [1..N -> T]
  <2> HIDE DEF T
  <2> QED BY <1>3
<1>5. ASSUME NEW k \in 1..N, NEW s \in T
      PROVE  (IF S(k) THEN <<k>> \o s ELSE s) \in T
  <2>1. <<k>> \in Seq(Nat) BY <1>1
  <2>2. <<k>> \o s \in Seq(Nat) BY <2>1, ConcatProperties
  <2> QED BY <2>2
<1> HIDE DEF T
<1>6. /\ step \in [(1..N) \X T -> T]
      /\ \A k \in 1..N, s \in T : step[<<k, s>>] = IF S(k) THEN <<k>> \o s ELSE s
  <2>1. ASSUME NEW p \in (1..N) \X T PROVE (IF S(p[1]) THEN <<p[1]>> \o p[2] ELSE p[2]) \in T
    <3>1. p[1] \in 1..N /\ p[2] \in T OBVIOUS
    <3> QED BY <1>5, <3>1
  <2> QED BY <2>1
<1>7. \A k \in 1..N : base[k] = <<>> /\ nxt[k] = IF S(k) THEN k + q ELSE k + 1
  OBVIOUS
<1>8. \A k \in 1..N : k \in stops <=> k + q > N
  OBVIOUS
<1> HIDE DEF base, step, nxt, stops
<1>10. PICK f \in [1..N -> T] : Onward(f, stops, base, step, nxt, N)
  BY <1>1, <1>2, <1>4, <1>6, OnwardExists
<1>11. ASSUME NEW k \in 1..N
       PROVE  f[k] = IF k + q > N THEN <<>> ELSE IF S(k) THEN <<k>> \o f[k + q] ELSE f[k + 1]
  <2>1. f[k] = IF k \in stops THEN base[k] ELSE step[<<k, f[nxt[k]]>>]
    BY <1>10 DEF Onward
  <2>2. CASE k + q > N
    BY <1>7, <1>8, <2>1, <2>2
  <2>3. CASE ~(k + q > N)
    <3>1. k \notin stops BY <1>8, <2>3
    <3>2. nxt[k] \in 1..N
      <4>1. nxt[k] \in k + 1..N BY <1>2, <3>1
      <4> QED BY <1>1, <4>1
    <3>3. f[nxt[k]] \in T BY <3>2
    <3>4. f[k] = IF S(k) THEN <<k>> \o f[nxt[k]] ELSE f[nxt[k]]
      BY <1>6, <2>1, <3>1, <3>3
    <3>5. nxt[k] = IF S(k) THEN k + q ELSE k + 1
      BY <1>7
    <3> QED BY <2>3, <3>4, <3>5
  <2> QED BY <2>2, <2>3
<1>12. f = [k \in 1..N |-> f[k]] OBVIOUS
<1>13. f = [k \in 1..N |-> IF k + q > N THEN <<>> ELSE IF S(k) THEN <<k>> \o f[k + q] ELSE f[k + 1]]
  BY <1>11, <1>12
<1> QED BY <1>13 DEF IsMatching, N, q, S

(* Only places where the text occurs are found, and one if there is one. *)
LEMMA MatchingMeans ==
  ASSUME NEW line \in Seq(Nat), NEW query \in Seq(Nat), query # <<>>, NEW exactly \in BOOLEAN,
         NEW f, IsMatching(f, line, query, exactly)
  PROVE  /\ f[1] \in Seq(Occurrences(line, query, exactly))
         /\ Occurrences(line, query, exactly) # {} => f[1] # <<>>
<1> DEFINE L == Len(line)
           q == Len(query)
           N == L + 1
           O == Occurrences(line, query, exactly)
           Good(k) == f[k] \in Seq(O) /\ ((\E a \in O : a >= k) => f[k] # <<>>)
           S == {k \in 1..N : Good(k)}
<1>1. L \in Nat /\ N \in Nat /\ q \in Nat /\ q >= 1 /\ N = L + 1
  OBVIOUS
<1>2. \A k \in 1..N : f[k] = IF k + q > N THEN <<>>
                             ELSE IF Same(line, k, query, exactly) THEN <<k>> \o f[k + q] ELSE f[k + 1]
  BY DEF IsMatching
<1>3. \A a \in O : a \in 1..L /\ a + q - 1 <= L /\ Occurs(line, a, query, exactly)
  BY DEF Occurrences, Occurs
<1>4. ASSUME NEW k \in 1..L, k + q - 1 <= L
      PROVE  Same(line, k, query, exactly) <=> k \in O
  <2>1. Same(line, k, query, exactly) <=> Occurs(line, k, query, exactly)
    BY <1>4, SameIs
  <2> QED BY <2>1 DEF Occurrences
<1> HIDE DEF L, q, N, O
<1>5. ASSUME NEW k \in 1..N, \A j \in k + 1..N : j \in S PROVE k \in S
  <2>1. f[k] = IF k + q > N THEN <<>>
               ELSE IF Same(line, k, query, exactly) THEN <<k>> \o f[k + q] ELSE f[k + 1]
    BY <1>2
  <2>2. CASE k + q > N
    <3>1. f[k] = <<>> BY <2>1, <2>2
    <3>2. <<>> \in Seq(O) OBVIOUS
    <3>3. \A a \in O : ~(a >= k)
      <4> SUFFICES ASSUME NEW a \in O, a >= k PROVE FALSE
        OBVIOUS
      <4>1. a \in 1..L /\ a + q - 1 <= L BY <1>3
      <4> QED BY <1>1, <2>2, <4>1
    <3> QED BY <3>1, <3>2, <3>3
  <2>3. CASE ~(k + q > N)
    <3>1. k \in 1..L /\ k + q - 1 <= L /\ k + q \in k + 1..N /\ k + 1 \in k + 1..N
      BY <1>1, <2>3
    <3>2. Good(k + q) /\ Good(k + 1) BY <1>5, <3>1
    <3>3. CASE Same(line, k, query, exactly)
      <4>1. f[k] = <<k>> \o f[k + q] BY <2>1, <2>3, <3>3
      <4>2. k \in O BY <1>4, <3>1, <3>3
      <4> DEFINE rest == f[k + q]
      <4>3. rest \in Seq(O) BY <3>2
      <4> HIDE DEF rest
      <4>4. <<k>> \in Seq(O) /\ Len(<<k>>) = 1 BY <4>2
      <4>5. <<k>> \o rest \in Seq(O) /\ Len(<<k>> \o rest) = 1 + Len(rest) /\ Len(rest) \in Nat
        BY <4>3, <4>4, ConcatProperties
      <4>6. <<k>> \o rest # <<>> BY <4>5
      <4> QED BY <4>1, <4>5, <4>6 DEF rest
    <3>4. CASE ~Same(line, k, query, exactly)
      <4>1. f[k] = f[k + 1] BY <2>1, <2>3, <3>4
      <4>2. k \notin O BY <1>4, <3>1, <3>4
      <4>3. \A a \in O : a >= k => a >= k + 1
        <5> SUFFICES ASSUME NEW a \in O, a >= k PROVE a >= k + 1
          OBVIOUS
        <5>1. a \in 1..L /\ a # k BY <1>3, <4>2
        <5> QED BY <3>1, <5>1
      <4> QED BY <3>2, <4>1, <4>3
    <3> QED BY <3>3, <3>4
  <2> QED BY <2>2, <2>3
<1> HIDE DEF S
<1>6. 1 \in S
  <2>1. \A k \in 1..N : k \in S BY <1>1, <1>5, BackwardInduction
  <2>2. 1 \in 1..N BY <1>1
  <2> QED BY <2>1, <2>2
<1>7. Good(1) BY <1>6 DEF S
<1>8. \A a \in O : a >= 1 BY <1>3
<1> QED BY <1>7, <1>8 DEF O

LEMMA MatchesAre ==
  ASSUME NEW line \in Seq(Nat), NEW query \in Seq(Nat), query # <<>>, NEW exactly \in BOOLEAN
  PROVE  /\ literal_matches(line, query, exactly) \in Seq(Occurrences(line, query, exactly))
         /\ Occurrences(line, query, exactly) # {} => literal_matches(line, query, exactly) # <<>>
<1> DEFINE O == Occurrences(line, query, exactly)
           P(f) == IsMatching(f, line, query, exactly)
           g == CHOOSE f : P(f)
<1>1. literal_matches(line, query, exactly) = IF Len(query) > Len(line) THEN <<>> ELSE g[1]
  BY DEF literal_matches, IsMatching, Same
<1>2. PICK f : P(f)
  BY MatchingExists
<1>3. P(g)
  <2>1. P(f) BY <1>2
  <2> HIDE DEF P
  <2> QED BY <2>1
<1>4. IsMatching(g, line, query, exactly)
  BY <1>3
<1> HIDE DEF g
<1>5. g[1] \in Seq(O) /\ (O # {} => g[1] # <<>>)
  BY <1>4, MatchingMeans
<1>6. ASSUME Len(query) > Len(line) PROVE O = {}
  <2> SUFFICES ASSUME NEW a \in O PROVE FALSE
    OBVIOUS
  <2>1. a \in 1..Len(line) /\ a + Len(query) - 1 <= Len(line)
    BY DEF Occurrences, Occurs
  <2>2. Len(query) \in Nat /\ Len(line) \in Nat
    OBVIOUS
  <2> QED BY <1>6, <2>1, <2>2
<1>7. <<>> \in Seq(O) OBVIOUS
<1> HIDE DEF O
<1> QED BY <1>1, <1>5, <1>6, <1>7 DEF O

(* The lines of a text. *)
LineEnd(text, from) == Min({i \in from..Len(text) : text[i] = LineFeed} \cup {Len(text) + 1})

LineFrom(text, from, end) ==
  SubSeq(text, from, IF end > from /\ text[end - 1] = CarriageReturn THEN end - 2 ELSE end - 1)

IsLines(f, text) ==
  f = [from \in 1..Len(text) + 2 |->
         IF from > Len(text) THEN <<>>
         ELSE <<LineFrom(text, from, LineEnd(text, from))>> \o f[LineEnd(text, from) + 1]]

LEMMA LineEndIs ==
  ASSUME NEW text \in Seq(Nat), NEW from \in 1..Len(text)
  PROVE  /\ LineEnd(text, from) \in from..Len(text) + 1
         /\ LineEnd(text, from) # Len(text) + 1 => text[LineEnd(text, from)] = LineFeed
<1> DEFINE T == {i \in from..Len(text) : text[i] = LineFeed} \cup {Len(text) + 1}
<1>1. T \subseteq Nat /\ T # {} /\ \A i \in T : i \in from..Len(text) + 1
  OBVIOUS
<1>2. \A i \in T : i # Len(text) + 1 => text[i] = LineFeed
  OBVIOUS
<1> DEFINE m == Min(T)
<1> HIDE DEF T
<1>3. m \in T BY <1>1, MinIsLeast
<1> HIDE DEF m
<1>4. m = LineEnd(text, from) BY DEF LineEnd, m, T
<1> QED BY <1>1, <1>2, <1>3, <1>4

LEMMA LineTyped ==
  ASSUME NEW text \in Seq(Nat), NEW from \in 1..Len(text), NEW end \in from..Len(text) + 1
  PROVE  \E b \in Nat : /\ LineFrom(text, from, end) = SubSeq(text, from, b)
                        /\ from <= b + 1 /\ b <= Len(text) /\ SubSeq(text, from, b) \in Seq(Nat)
                        /\ b + 1 = end \/ (b + 1 \in 1..Len(text) /\ text[b + 1] = CarriageReturn)
<1>1. Len(text) \in Nat /\ from \in Nat /\ end \in Nat /\ 1 <= from
  OBVIOUS
<1>2. CASE end > from /\ text[end - 1] = CarriageReturn
  <2> DEFINE b == end - 2
  <2>1. b \in Nat /\ from <= b + 1 /\ b <= Len(text) /\ b + 1 = end - 1 /\ b + 1 \in 1..Len(text)
    BY <1>1, <1>2
  <2>2. LineFrom(text, from, end) = SubSeq(text, from, b)
    BY <1>2 DEF LineFrom
  <2>3. text[b + 1] = CarriageReturn BY <1>2, <2>1
  <2> HIDE DEF b
  <2>4. SubSeq(text, from, b) \in Seq(Nat) BY <1>1, <2>1
  <2> QED BY <2>1, <2>2, <2>3, <2>4
<1>3. CASE ~(end > from /\ text[end - 1] = CarriageReturn)
  <2> DEFINE b == end - 1
  <2>1. b \in Nat /\ from <= b + 1 /\ b <= Len(text) /\ b + 1 = end
    BY <1>1
  <2>2. LineFrom(text, from, end) = SubSeq(text, from, b)
    BY <1>3 DEF LineFrom
  <2> HIDE DEF b
  <2>4. SubSeq(text, from, b) \in Seq(Nat) BY <1>1, <2>1
  <2> QED BY <2>1, <2>2, <2>4
<1> QED BY <1>2, <1>3

LEMMA LinesExist ==
  ASSUME NEW text \in Seq(Nat)
  PROVE  \E f : IsLines(f, text)
<1> DEFINE L == Len(text)
           N == L + 2
           T == Seq(Seq(Nat))
           E(k) == LineEnd(text, k)
           Line(k) == LineFrom(text, k, E(k))
           stops == {k \in 1..N : k > L}
           base == [k \in 1..N |-> <<>>]
           lines == [k \in 1..N |-> IF k > L THEN <<>> ELSE Line(k)]
           step == [p \in (1..N) \X T |-> <<lines[p[1]]>> \o p[2]]
           nxt == [k \in 1..N |-> E(k) + 1]
<1>1. L \in Nat /\ N \in Nat /\ N = L + 2
  OBVIOUS
<1>2. ASSUME NEW k \in 1..L PROVE E(k) + 1 \in k + 1..N /\ Line(k) \in Seq(Nat)
  <2> DEFINE e == E(k)
  <2>1. e \in k..Len(text) + 1 BY LineEndIs
  <2>2. Line(k) \in Seq(Nat) BY <2>1, LineTyped
  <2> HIDE DEF e
  <2>3. e + 1 \in k + 1..N BY <1>1, <2>1
  <2> QED BY <2>2, <2>3 DEF e
<1>20. L = Len(text) OBVIOUS
<1> HIDE DEF L, N, E, Line
<1>3. \A k \in 1..N : k \notin stops => nxt[k] \in k + 1..N
  <2> SUFFICES ASSUME NEW k \in 1..N, k \notin stops PROVE nxt[k] \in k + 1..N
    OBVIOUS
  <2>1. k \in 1..L /\ nxt[k] = E(k) + 1 BY <1>1
  <2> QED BY <1>2, <2>1
<1>4. <<>> \in T /\ base \in [1..N -> T]
  <2>1. <<>> \in T OBVIOUS
  <2> HIDE DEF T
  <2> QED BY <2>1
<1>5. lines \in [1..N -> Seq(Nat)]
  <2>1. ASSUME NEW k \in 1..N PROVE (IF k > L THEN <<>> ELSE Line(k)) \in Seq(Nat)
    <3>1. CASE k > L
      BY <3>1
    <3>2. CASE ~(k > L)
      <4>1. k \in 1..L BY <1>1, <3>2
      <4> QED BY <1>2, <3>2, <4>1
    <3> QED BY <3>1, <3>2
  <2> QED BY <2>1
<1>6. ASSUME NEW k \in 1..N, NEW s \in T PROVE <<lines[k]>> \o s \in T
  <2> DEFINE l == lines[k]
  <2>1. l \in Seq(Nat) BY <1>5
  <2> HIDE DEF l
  <2>2. <<l>> \in Seq(Seq(Nat)) BY <2>1
  <2>3. <<l>> \o s \in Seq(Seq(Nat)) BY <2>2, ConcatProperties
  <2> QED BY <2>3 DEF l
<1>7. \A k \in 1..N : base[k] = <<>> /\ nxt[k] = E(k) + 1 /\ (k \in stops <=> k > L)
                      /\ (~(k > L) => lines[k] = Line(k))
  OBVIOUS
<1> HIDE DEF T, lines
<1>8. step \in [(1..N) \X T -> T] /\ \A k \in 1..N, s \in T : step[<<k, s>>] = <<lines[k]>> \o s
  <2>1. ASSUME NEW p \in (1..N) \X T PROVE <<lines[p[1]]>> \o p[2] \in T
    <3>1. p[1] \in 1..N /\ p[2] \in T OBVIOUS
    <3> QED BY <1>6, <3>1
  <2> QED BY <2>1
<1> HIDE DEF base, step, nxt, stops
<1>10. PICK f \in [1..N -> T] : Onward(f, stops, base, step, nxt, N)
  BY <1>1, <1>3, <1>4, <1>8, OnwardExists
<1>11. ASSUME NEW k \in 1..N
       PROVE  f[k] = IF k > L THEN <<>> ELSE <<Line(k)>> \o f[E(k) + 1]
  <2>1. f[k] = IF k \in stops THEN base[k] ELSE step[<<k, f[nxt[k]]>>]
    BY <1>10 DEF Onward
  <2>2. CASE k > L
    BY <1>7, <2>1, <2>2
  <2>3. CASE ~(k > L)
    <3>1. k \notin stops /\ nxt[k] = E(k) + 1 /\ lines[k] = Line(k)
      BY <1>7, <2>3
    <3>2. nxt[k] \in 1..N
      <4>1. nxt[k] \in k + 1..N BY <1>3, <3>1
      <4> QED BY <1>1, <4>1
    <3>3. f[nxt[k]] \in T BY <3>2
    <3>4. f[k] = <<lines[k]>> \o f[nxt[k]] BY <1>8, <2>1, <3>1, <3>3
    <3> QED BY <2>3, <3>1, <3>4
  <2> QED BY <2>2, <2>3
<1>12. f = [k \in 1..N |-> f[k]] OBVIOUS
<1>13. f = [k \in 1..N |-> IF k > L THEN <<>> ELSE <<Line(k)>> \o f[E(k) + 1]]
  BY <1>11, <1>12
<1> QED BY <1>13 DEF IsLines, N, L, E, Line

(* Texts whose bytes are characters. *)
Strict == {l \in Seq(Nat) : WellFormed(l)}

(* A line of a text is text. *)
LEMMA LineStrict ==
  ASSUME NEW text \in Seq(Nat), WellFormed(text), NEW from \in 1..Len(text), Boundary(text, from)
  PROVE  /\ LineFrom(text, from, LineEnd(text, from)) \in Strict
         /\ LineEnd(text, from) + 1 > Len(text) \/ Boundary(text, LineEnd(text, from) + 1)
<1> DEFINE end == LineEnd(text, from)
           L == Len(text)
<1>1. end \in from..L + 1 /\ (end # L + 1 => text[end] = LineFeed)
  BY LineEndIs
<1>2. L \in Nat /\ from \in Nat /\ 1 <= from
  OBVIOUS
<1> HIDE DEF end
<1>3. PICK b \in Nat : /\ LineFrom(text, from, end) = SubSeq(text, from, b)
                       /\ from <= b + 1 /\ b <= L /\ SubSeq(text, from, b) \in Seq(Nat)
                       /\ b + 1 = end \/ (b + 1 \in 1..L /\ text[b + 1] = CarriageReturn)
  BY <1>1, LineTyped
<1>4. end = L + 1 \/ (end \in 1..L /\ text[end] = 10)
  BY <1>1, <1>2 DEF LineFeed
<1>5. Boundary(text, end)
  <2>1. ~continuation(10) BY DEF continuation
  <2> QED BY <1>4, <2>1 DEF Boundary
<1>6. Boundary(text, b + 1)
  <2>1. CASE b + 1 = end
    BY <1>5, <2>1
  <2>2. CASE b + 1 \in 1..L /\ text[b + 1] = CarriageReturn
    BY <2>2 DEF CarriageReturn, Boundary, continuation
  <2> QED BY <1>3, <2>1, <2>2
<1>7. LineFrom(text, from, end) \in Strict
  <2>1. WellFormed(SubSeq(text, from, b))
    BY <1>2, <1>3, <1>6, PartWellFormed
  <2> QED BY <1>3, <2>1 DEF Strict
<1>8. end + 1 > L \/ Boundary(text, end + 1)
  <2>1. CASE end = L + 1
    BY <1>2, <2>1
  <2>2. CASE end \in 1..L /\ text[end] = 10
    <3>1. CharacterBytes(text, end) = 1 BY <2>2, CharacterIs
    <3>2. CharacterAt(text, end) BY <1>5, <2>2 DEF WellFormed
    <3> QED BY <3>1, <3>2 DEF CharacterAt
  <2> QED BY <1>4, <2>1, <2>2
<1> QED BY <1>7, <1>8 DEF end

LEMMA LinesMean ==
  ASSUME NEW text \in Seq(Nat), WellFormed(text), NEW f, IsLines(f, text)
  PROVE  f[1] \in Seq(Strict)
<1> DEFINE L == Len(text)
           N == L + 2
           Good(k) == (k > L \/ Boundary(text, k)) => f[k] \in Seq(Strict)
           S == {k \in 1..N : Good(k)}
<1>1. L \in Nat /\ N \in Nat /\ N = L + 2
  OBVIOUS
<1>2. \A k \in 1..N : f[k] = IF k > L THEN <<>>
                             ELSE <<LineFrom(text, k, LineEnd(text, k))>> \o f[LineEnd(text, k) + 1]
  BY DEF IsLines
<1>3. ASSUME NEW k \in 1..N, \A j \in k + 1..N : j \in S PROVE k \in S
  <2> SUFFICES ASSUME k > L \/ Boundary(text, k) PROVE f[k] \in Seq(Strict)
    OBVIOUS
  <2>1. CASE k > L
    <3>1. f[k] = <<>> BY <1>2, <2>1
    <3> QED BY <3>1
  <2>2. CASE ~(k > L)
    <3> DEFINE e == LineEnd(text, k)
               l == LineFrom(text, k, e)
               rest == f[e + 1]
    <3>1. k \in 1..L /\ Boundary(text, k) BY <1>1, <2>2
    <3>2. l \in Strict /\ (e + 1 > L \/ Boundary(text, e + 1))
      BY <3>1, LineStrict
    <3>3. e \in k..L + 1 BY <3>1, LineEndIs
    <3>4. f[k] = <<l>> \o rest BY <1>2, <2>2
    <3> HIDE DEF l, e
    <3>5. e + 1 \in k + 1..N BY <1>1, <3>3
    <3>6. rest \in Seq(Strict) BY <1>3, <3>2, <3>5
    <3> HIDE DEF rest
    <3>7. <<l>> \in Seq(Strict) BY <3>2
    <3>8. <<l>> \o rest \in Seq(Strict)
      BY <3>6, <3>7, ConcatProperties
    <3> QED BY <3>4, <3>8
  <2> QED BY <2>1, <2>2
<1> HIDE DEF S
<1>4. 1 \in S
  <2>1. \A k \in 1..N : k \in S
    <3> HIDE DEF N
    <3> QED BY <1>1, <1>3, BackwardInduction
  <2>2. 1 \in 1..N BY <1>1
  <2> QED BY <2>1, <2>2
<1>5. Good(1) BY <1>4 DEF S
<1>6. Boundary(text, 1) BY DEF WellFormed
<1> QED BY <1>5, <1>6

LEMMA TextLinesAre ==
  ASSUME NEW text \in Seq(Nat), WellFormed(text)
  PROVE  TextLines(text) \in Seq(Strict)
<1> DEFINE P(f) == IsLines(f, text)
           g == CHOOSE f : P(f)
<1>1. TextLines(text) = g[1]
  BY DEF TextLines, IsLines, LineFrom, LineEnd
<1>2. PICK f : P(f)
  BY LinesExist
<1>3. P(g)
  <2>1. P(f) BY <1>2
  <2> HIDE DEF P
  <2> QED BY <2>1
<1>4. IsLines(g, text) BY <1>3
<1> HIDE DEF g
<1>5. g[1] \in Seq(Strict) BY <1>4, LinesMean
<1> QED BY <1>1, <1>5

(* Sequences in a row have the elements of each. *)
LEMMA FlattenHolds ==
  ASSUME NEW T, NEW seqs \in Seq(Seq(T))
  PROVE  /\ FlattenSeq(seqs) \in Seq(T)
         /\ \A i \in 1..Len(seqs) : ToSet(seqs[i]) \subseteq ToSet(FlattenSeq(seqs))
<1> DEFINE N == Len(seqs)
<1>1. N \in Nat /\ N = Len(seqs) /\ \A i \in 1..N : seqs[i] \in Seq(T)
  OBVIOUS
<1>2. CASE N = 0
  <2>1. FlattenSeq(seqs) = seqs /\ seqs = <<>>
    BY <1>2 DEF FlattenSeq
  <2>2. <<>> \in Seq(T) OBVIOUS
  <2>3. \A i \in 1..Len(seqs) : FALSE BY <1>1, <1>2
  <2> QED BY <2>1, <2>2, <2>3
<1>3. CASE N # 0
  <2>1. PICK f : IsFlat(f, seqs, N) /\ FlattenSeq(seqs) = f[N]
    BY <1>1, <1>3, FlattenIs
  <2> HIDE DEF N
  <2>2. \A i \in 1..N : f[i] \in Seq(T) BY <1>1, <2>1, FlatTyped
  <2> DEFINE S == {n \in Nat : n \in 1..N => \A i \in 1..n : ToSet(seqs[i]) \subseteq ToSet(f[n])}
  <2>3. 0 \in S OBVIOUS
  <2>4. ASSUME NEW n \in Nat, n \in S PROVE n + 1 \in S
    <3> SUFFICES ASSUME n + 1 \in 1..N, NEW i \in 1..n + 1 PROVE ToSet(seqs[i]) \subseteq ToSet(f[n + 1])
      OBVIOUS
    <3>1. f[n + 1] = IF n + 1 = 1 THEN seqs[n + 1] ELSE f[(n + 1) - 1] \o seqs[n + 1]
      BY <2>1 DEF IsFlat
    <3>2. CASE n = 0
      <4>1. i = 1 /\ f[n + 1] = seqs[1] BY <3>1, <3>2
      <4> QED BY <4>1
    <3>3. CASE n # 0
      <4>1. n \in 1..N /\ f[n] \in Seq(T) /\ seqs[n + 1] \in Seq(T) /\ f[n + 1] = f[n] \o seqs[n + 1]
        <5>1. n \in 1..N /\ n + 1 # 1 /\ (n + 1) - 1 = n
          BY <1>1, <3>3
        <5>2. f[n + 1] = f[n] \o seqs[n + 1] BY <3>1, <5>1
        <5>3. f[n] \in Seq(T) /\ seqs[n + 1] \in Seq(T)
          BY <1>1, <2>2, <5>1
        <5> QED BY <5>1, <5>2, <5>3
      <4>2. ToSet(f[n + 1]) = ToSet(f[n]) \cup ToSet(seqs[n + 1])
        BY <4>1, OfTwo
      <4>3. CASE i = n + 1
        BY <4>2, <4>3
      <4>4. CASE i # n + 1
        <5>1. i \in 1..n BY <4>4
        <5>2. ToSet(seqs[i]) \subseteq ToSet(f[n])
          BY <2>4, <4>1, <5>1
        <5> QED BY <4>2, <5>2
      <4> QED BY <4>3, <4>4
    <3> QED BY <3>2, <3>3
  <2> HIDE DEF S
  <2>5. N \in S BY <1>1, <2>3, <2>4, SetInduction
  <2>6. N \in 1..N BY <1>1, <1>3
  <2> QED BY <1>1, <2>1, <2>2, <2>5, <2>6 DEF S
<1> QED BY <1>2, <1>3

(* What is said of one occurrence, and of those in a file. *)
MatchAt(path, line, n, at, query) ==
  [path |-> path, line |-> n, column |-> utf8_column(line, at),
   shown |-> line_fragment(line, at, Len(query))]

MatchesIn(path, text, query, exactly) ==
  {MatchAt(path, TextLines(text)[p[1]], p[1], p[2], query) :
     p \in {r \in (1..Len(TextLines(text))) \X Nat :
              r[2] \in Occurrences(TextLines(text)[r[1]], query, exactly)}}

EachTold(path, text, query, exactly) ==
  \A n \in 1..Len(TextLines(text)) :
    Occurrences(TextLines(text)[n], query, exactly) # {} =>
      \E m \in ToSet(MatchesOf(path, text, query, exactly)) : m.path = path /\ m.line = n

LEMMA MatchesOfAre ==
  ASSUME NEW path, NEW text \in Strict, NEW query \in Strict, query # <<>>, NEW exactly \in BOOLEAN
  PROVE  /\ MatchesOf(path, text, query, exactly) \in Seq(MatchesIn(path, text, query, exactly))
         /\ EachTold(path, text, query, exactly)
<1> DEFINE lines == TextLines(text)
           T == MatchesIn(path, text, query, exactly)
           Hits(n) == literal_matches(lines[n], query, exactly)
           Said(n) == [k \in DOMAIN Hits(n) |-> MatchAt(path, lines[n], n, Hits(n)[k], query)]
           seqs == [n \in DOMAIN lines |-> Said(n)]
           O(n) == Occurrences(lines[n], query, exactly)
<1>1. lines \in Seq(Strict) /\ Len(lines) \in Nat /\ DOMAIN lines = 1..Len(lines)
  <2>1. lines \in Seq(Strict) BY TextLinesAre DEF Strict
  <2> HIDE DEF lines
  <2> QED BY <2>1
<1>2. MatchesOf(path, text, query, exactly) = FlattenSeq(seqs)
  BY DEF MatchesOf, MatchAt
<1>3. lines = TextLines(text) OBVIOUS
<1> HIDE DEF lines
<1>9. \A n \in 1..Len(lines) : O(n) \subseteq Nat
  BY DEF Occurrences
<1>4. ASSUME NEW n \in 1..Len(lines)
      PROVE  /\ Said(n) \in Seq(T) /\ (O(n) # {} => \E m \in ToSet(Said(n)) : m.path = path /\ m.line = n)
  <2>1. lines[n] \in Seq(Nat) /\ query \in Seq(Nat)
    BY <1>1 DEF Strict
  <2> DEFINE found == Hits(n)
             told == Said(n)
  <2>2. found \in Seq(O(n)) /\ (O(n) # {} => found # <<>>)
    BY <2>1, MatchesAre
  <2>3. told = [k \in DOMAIN found |-> MatchAt(path, lines[n], n, found[k], query)]
    OBVIOUS
  <2> HIDE DEF found, told
  <2>4. Len(found) \in Nat /\ DOMAIN found = 1..Len(found) /\ \A k \in 1..Len(found) : found[k] \in O(n)
    BY <2>2
  <2>5. ASSUME NEW k \in 1..Len(found) PROVE MatchAt(path, lines[n], n, found[k], query) \in T
    <3> DEFINE r == <<n, found[k]>>
    <3>1. r \in (1..Len(lines)) \X Nat /\ r[1] = n /\ r[2] = found[k]
      BY <1>9, <2>4
    <3>2. r \in {x \in (1..Len(lines)) \X Nat : x[2] \in Occurrences(lines[x[1]], query, exactly)}
      BY <2>4, <3>1
    <3> HIDE DEF r
    <3>3. MatchAt(path, lines[r[1]], r[1], r[2], query) \in T
      BY <1>3, <3>2 DEF MatchesIn
    <3> QED BY <3>1, <3>3
  <2> HIDE DEF T
  <2>6. told \in [1..Len(found) -> T] BY <2>3, <2>4, <2>5
  <2>7. told \in Seq(T) /\ Len(told) = Len(found)
    BY <2>4, <2>6
  <2>8. ASSUME O(n) # {} PROVE \E m \in ToSet(told) : m.path = path /\ m.line = n
    <3>1. 1 \in 1..Len(found) BY <2>2, <2>4, <2>8
    <3>2. told[1] \in ToSet(told) BY <2>7, <3>1, Elements
    <3>3. told[1] = MatchAt(path, lines[n], n, found[1], query)
      BY <2>3, <2>4, <3>1
    <3>4. told[1].path = path /\ told[1].line = n
      BY <3>3 DEF MatchAt
    <3> QED BY <3>2, <3>4
  <2>9. told = Said(n) BY DEF told
  <2> HIDE DEF Said, O
  <2> QED BY <2>7, <2>8, <2>9
<1>10. \A n \in 1..Len(lines) : seqs[n] = Said(n)
  BY <1>1
<1>11. DOMAIN seqs = 1..Len(lines) /\ seqs = [n \in 1..Len(lines) |-> seqs[n]]
  BY <1>1
<1> HIDE DEF T, seqs, Said, O
<1>5. seqs \in Seq(Seq(T)) /\ Len(seqs) = Len(lines)
  <2>1. seqs \in [1..Len(lines) -> Seq(T)] BY <1>4, <1>10, <1>11
  <2> QED BY <1>1, <2>1
<1>6. /\ FlattenSeq(seqs) \in Seq(T)
      /\ \A i \in 1..Len(seqs) : ToSet(seqs[i]) \subseteq ToSet(FlattenSeq(seqs))
  BY <1>5, FlattenHolds
<1>7. ASSUME NEW n \in 1..Len(lines), O(n) # {}
      PROVE  \E m \in ToSet(FlattenSeq(seqs)) : m.path = path /\ m.line = n
  <2>1. PICK m \in ToSet(Said(n)) : m.path = path /\ m.line = n
    BY <1>4, <1>7
  <2>2. m \in ToSet(FlattenSeq(seqs)) BY <1>5, <1>6, <1>10, <2>1
  <2> QED BY <2>1, <2>2
<1>8. \A n \in 1..Len(lines) : O(n) = Occurrences(TextLines(text)[n], query, exactly)
  BY <1>3 DEF O
<1> QED BY <1>2, <1>3, <1>6, <1>7, <1>8 DEF T, EachTold

(* What a match says: what is shown of its line is text, and what was looked for is  *)
(* in it.                                                                            *)
RightMatch(m, path, text, query, exactly) ==
  LET line == TextLines(text)[m.line]
  IN  /\ m.path = path
      /\ is_strict_utf8_text(SubSeq(line, m.shown.first, m.shown.last))
      /\ \E at \in DOMAIN line :
           LET end == at + Len(query) - 1
           IN  /\ Occurs(line, at, query, exactly)
               /\ m.column = utf8_column(line, at)
               /\ IF Len(query) <= MaxFragmentBytes
                  THEN m.shown.first <= at /\ end <= m.shown.last
                  ELSE m.shown.first <= end /\ at <= m.shown.last

LEMMA MatchesAreRight ==
  ASSUME NEW path, NEW text \in Strict, NEW query \in Strict, query # <<>>, NEW exactly \in BOOLEAN,
         NEW m \in MatchesIn(path, text, query, exactly)
  PROVE  RightMatch(m, path, text, query, exactly)
<1>1. PICK n \in 1..Len(TextLines(text)), at \in Nat :
        /\ at \in Occurrences(TextLines(text)[n], query, exactly)
        /\ m = MatchAt(path, TextLines(text)[n], n, at, query)
  BY DEF MatchesIn
<1> DEFINE line == TextLines(text)[n]
           q == Len(query)
           fr == line_fragment(line, at, q)
<1>2. TextLines(text) \in Seq(Strict) BY TextLinesAre DEF Strict
<1>3. line \in Seq(Nat) /\ WellFormed(line) /\ query \in Seq(Nat) /\ WellFormed(query)
  <2>1. line \in Strict BY <1>2
  <2> QED BY <2>1 DEF Strict
<1>4. /\ m.path = path /\ m.line = n /\ m.column = utf8_column(line, at) /\ m.shown = fr
  BY <1>1 DEF MatchAt
<1>5. at \in 1..Len(line) /\ Occurs(line, at, query, exactly)
  BY <1>1 DEF Occurrences
<1>10. line = TextLines(text)[n] OBVIOUS
<1> HIDE DEF line, fr
<1>6. /\ q \in Nat \ {0} /\ at + q - 1 <= Len(line)
      /\ Boundary(line, at) /\ Boundary(line, at + q)
  BY <1>3, <1>5, OccurrenceAligned
<1>7. Frames(line, fr, at, q) BY <1>3, <1>5, <1>6, FragmentIs DEF fr
<1>8. is_strict_utf8_text(SubSeq(line, fr.first, fr.last))
  BY <1>7, StrictIs DEF Frames
<1>9. at \in DOMAIN line BY <1>3, <1>5
<1>11. IF q <= MaxFragmentBytes THEN fr.first <= at /\ at + q - 1 <= fr.last
       ELSE fr.first <= at + q - 1 /\ at <= fr.last
  BY <1>7 DEF Frames
<1> QED BY <1>4, <1>5, <1>8, <1>9, <1>10, <1>11 DEF RightMatch

(* What a scan has collected.                                                        *)
Scans(T, max) ==
  {s \in [matches : Seq(T), files : Nat, bytes : 0..MaxSearchBytes, omitted : Nat,
          truncated : {"", "entry_budget", "max_results", "file_budget", "byte_budget"},
          done : BOOLEAN, fault : {"", "limit_exceeded", "unsupported_file"}] :
     Len(s.matches) <= max}

Faultless(s) == s.fault = ""

(* A file a search can read.                                                         *)
Legible(text) == Len(text) <= MaxTextFileBytes /\ is_strict_utf8_text(text)

LEMMA ScanFields ==
  ASSUME NEW T, NEW max \in Nat, NEW s \in Scans(T, max)
  PROVE  /\ s.matches \in Seq(T) /\ Len(s.matches) \in Nat /\ Len(s.matches) <= max
         /\ s.files \in Nat /\ s.omitted \in Nat /\ s.done \in BOOLEAN
         /\ s.bytes \in Nat /\ s.bytes <= MaxSearchBytes
<1>1. /\ s.matches \in Seq(T) /\ Len(s.matches) <= max /\ s.files \in Nat /\ s.omitted \in Nat
      /\ s.done \in BOOLEAN /\ s.bytes \in 0..MaxSearchBytes
  BY DEF Scans
<1>2. Len(s.matches) \in Nat /\ s.bytes \in Nat /\ s.bytes <= MaxSearchBytes
  BY <1>1, ScanLimits
<1> QED BY <1>1, <1>2

(* The scan ends here and says why.                                                  *)
LEMMA EndedIs ==
  ASSUME NEW T, NEW max \in Nat, NEW s \in Scans(T, max),
         NEW reason \in {"max_results", "file_budget", "byte_budget"}
  PROVE  /\ Ended(s, reason) \in Scans(T, max) /\ Ended(s, reason).matches = s.matches
         /\ Ended(s, reason).done /\ ~Uncut(Ended(s, reason))
<1> DEFINE m == mark_truncated(s, reason)
           e == [m EXCEPT !.done = TRUE]
<1>1. m \in Scans(T, max) /\ m.matches = s.matches /\ m.truncated # ""
  <2>1. CASE s.truncated = ""
    <3> DEFINE t == [s EXCEPT !.truncated = reason]
    <3>1. t \in Scans(T, max) /\ t.truncated = reason /\ t.matches = s.matches
      BY DEF Scans
    <3>2. m = t BY <2>1 DEF mark_truncated
    <3> HIDE DEF m, t
    <3> QED BY <3>1, <3>2
  <2>2. CASE s.truncated # ""
    BY <2>2 DEF mark_truncated
  <2> QED BY <2>1, <2>2
<1> HIDE DEF m
<1>2. e \in Scans(T, max) /\ e.matches = m.matches /\ e.truncated = m.truncated /\ e.done
  BY <1>1 DEF Scans
<1>3. e = Ended(s, reason) BY DEF Ended, m
<1> HIDE DEF e
<1>4. ~Uncut(e) BY <1>1, <1>2 DEF Uncut
<1> QED BY <1>1, <1>2, <1>3, <1>4

(* A file that was not read: an omission, or the failure of the search.              *)
LEMMA UnreadableIs ==
  ASSUME NEW T, NEW max \in Nat, NEW s \in Scans(T, max), NEW direct \in BOOLEAN,
         NEW fault \in {"limit_exceeded", "unsupported_file"}
  PROVE  /\ Unreadable(s, direct, fault) \in Scans(T, max)
         /\ Unreadable(s, direct, fault).matches = s.matches
         /\ Uncut(Unreadable(s, direct, fault)) => Uncut(s)
         /\ Unreadable(s, direct, fault).done => s.done \/ ~Faultless(Unreadable(s, direct, fault))
<1> DEFINE stopped == [s EXCEPT !.fault = fault, !.done = TRUE]
           passed == [s EXCEPT !.omitted = @ + 1]
<1>1. /\ stopped \in Scans(T, max) /\ stopped.matches = s.matches /\ stopped.truncated = s.truncated
      /\ stopped.fault = fault
  BY DEF Scans
<1>2. /\ passed \in Scans(T, max) /\ passed.matches = s.matches /\ passed.truncated = s.truncated
      /\ passed.done = s.done
  <2>1. s.omitted + 1 \in Nat BY ScanFields
  <2> QED BY <2>1 DEF Scans
<1>3. Unreadable(s, direct, fault) = IF direct THEN stopped ELSE passed
  BY DEF Unreadable
<1> HIDE DEF stopped, passed
<1>4. ~Faultless(stopped) BY <1>1 DEF Faultless
<1>5. (Uncut(stopped) => Uncut(s)) /\ (Uncut(passed) => Uncut(s))
  BY <1>1, <1>2 DEF Uncut
<1> QED BY <1>1, <1>2, <1>3, <1>4, <1>5

(* One file more: nothing is lost, what it holds is there unless the scan ends, and  *)
(* a scan that ends says so.                                                         *)
Scan(T, max, s, next, text, found) ==
  /\ next \in Scans(T, max) /\ ToSet(s.matches) \subseteq ToSet(next.matches)
  /\ Uncut(next) => Uncut(s)
  /\ next.done => s.done \/ ~Uncut(next) \/ ~Faultless(next)
  /\ s.done => next = s
  /\ ~next.done /\ Legible(text) => ToSet(found) \subseteq ToSet(next.matches)

LEMMA FileScanned ==
  ASSUME NEW T, NEW max \in Nat, NEW s \in Scans(T, max), NEW text \in Seq(Nat), NEW direct \in BOOLEAN,
         NEW path, NEW query, NEW exactly,
         Legible(text) => MatchesOf(path, text, query, exactly) \in Seq(T)
  PROVE  Scan(T, max, s, ScanFile(s, path, text, direct, query, exactly, max), text,
              MatchesOf(path, text, query, exactly))
<1> DEFINE size == Len(text)
           read == [s EXCEPT !.bytes = @ + size, !.files = @ + 1]
           found == MatchesOf(path, text, query, exactly)
           room == max - Len(s.matches)
           part == [read EXCEPT !.matches = @ \o SubSeq(found, 1, room)]
           all == [read EXCEPT !.matches = @ \o found]
           next == ScanFile(s, path, text, direct, query, exactly, max)
           Good(n) == Scan(T, max, s, n, text, found)
<1> SUFFICES Good(next)
  OBVIOUS
<1>1. next = IF s.done THEN s
             ELSE IF s.files >= MaxSearchFiles THEN Ended(s, "file_budget")
             ELSE IF size > MaxTextFileBytes THEN Unreadable(s, direct, "limit_exceeded")
             ELSE IF size > MaxSearchBytes - s.bytes THEN Ended(s, "byte_budget")
             ELSE IF ~is_strict_utf8_text(text) THEN Unreadable(read, direct, "unsupported_file")
             ELSE IF Len(found) > room THEN Ended(part, "max_results") ELSE all
  BY DEF ScanFile
<1>2. size \in Nat /\ room \in Nat /\ MaxSearchBytes \in Nat
      /\ Legible(text) = (size <= MaxTextFileBytes /\ is_strict_utf8_text(text))
  <2>1. size \in Nat OBVIOUS
  <2>2. room \in Nat BY ScanFields
  <2> QED BY <2>1, <2>2, ScanLimits DEF Legible
<1>3. Legible(text) => found \in Seq(T) OBVIOUS
<1>20. size <= MaxTextFileBytes \/ size > MaxTextFileBytes
  BY <1>2, ScanLimits
<1>21. /\ read = [s EXCEPT !.bytes = @ + size, !.files = @ + 1]
       /\ room = max - Len(s.matches) /\ part = [read EXCEPT !.matches = @ \o SubSeq(found, 1, room)]
       /\ all = [read EXCEPT !.matches = @ \o found]
  OBVIOUS
<1>22. \A n : Good(n) <=> Scan(T, max, s, n, text, found)
  OBVIOUS
<1> HIDE DEF size, read, found, room, part, all, next, Good
<1>4. CASE s.done
  <2>1. next = s BY <1>1, <1>4
  <2>2. Scan(T, max, s, s, text, found) BY <1>4 DEF Scan
  <2> QED BY <1>22, <2>1, <2>2
<1>5. ASSUME NEW e, e \in Scans(T, max), ToSet(s.matches) \subseteq ToSet(e.matches), e.done, ~Uncut(e), ~s.done
      PROVE  Good(e)
  BY <1>5, <1>22 DEF Scan
<1>6. CASE ~s.done /\ s.files >= MaxSearchFiles
  <2> DEFINE e == Ended(s, "file_budget")
  <2>1. next = e BY <1>1, <1>6
  <2>2. e \in Scans(T, max) /\ e.matches = s.matches /\ e.done /\ ~Uncut(e)
    BY EndedIs
  <2> HIDE DEF e
  <2> QED BY <1>5, <1>6, <2>1, <2>2
<1>7. CASE ~s.done /\ ~(s.files >= MaxSearchFiles) /\ size > MaxTextFileBytes
  <2> DEFINE e == Unreadable(s, direct, "limit_exceeded")
  <2>1. next = e BY <1>1, <1>7
  <2>2. /\ e \in Scans(T, max) /\ e.matches = s.matches /\ (Uncut(e) => Uncut(s))
        /\ (e.done => s.done \/ ~Faultless(e))
    BY UnreadableIs
  <2>3. ~Legible(text)
    <3>1. ~(size <= MaxTextFileBytes)
      <4>1. MaxTextFileBytes \in Nat /\ size \in Nat /\ size > MaxTextFileBytes
        BY <1>2, <1>7, ScanLimits
      <4> QED BY <4>1
    <3> QED BY <1>2, <3>1
  <2> HIDE DEF e
  <2>4. Scan(T, max, s, e, text, found) BY <1>7, <2>2, <2>3 DEF Scan
  <2> QED BY <1>22, <2>1, <2>4
<1>8. CASE /\ ~s.done /\ ~(s.files >= MaxSearchFiles) /\ ~(size > MaxTextFileBytes)
           /\ size > MaxSearchBytes - s.bytes
  <2> DEFINE e == Ended(s, "byte_budget")
  <2>1. next = e BY <1>1, <1>8
  <2>2. e \in Scans(T, max) /\ e.matches = s.matches /\ e.done /\ ~Uncut(e)
    BY EndedIs
  <2> HIDE DEF e
  <2> QED BY <1>5, <1>8, <2>1, <2>2
<1>9. CASE /\ ~s.done /\ ~(s.files >= MaxSearchFiles) /\ ~(size > MaxTextFileBytes)
           /\ ~(size > MaxSearchBytes - s.bytes)
  <2>1. s.bytes + size \in 0..MaxSearchBytes /\ s.files + 1 \in Nat
    BY <1>2, <1>9, ScanFields
  <2>2. /\ read \in Scans(T, max) /\ read.matches = s.matches /\ read.truncated = s.truncated
        /\ read.done = s.done
    BY <1>21, <2>1 DEF Scans
  <2>3. ~read.done /\ (Uncut(read) => Uncut(s))
    BY <1>9, <2>2 DEF Uncut
  <2>4. CASE ~is_strict_utf8_text(text)
    <3> DEFINE e == Unreadable(read, direct, "unsupported_file")
    <3>1. next = e BY <1>1, <1>9, <2>4
    <3>2. /\ e \in Scans(T, max) /\ e.matches = read.matches /\ (Uncut(e) => Uncut(read))
          /\ (e.done => read.done \/ ~Faultless(e))
      BY <2>2, UnreadableIs
    <3>3. ~Legible(text) BY <1>2, <2>4
    <3> HIDE DEF e
    <3>4. Scan(T, max, s, e, text, found)
      BY <1>9, <2>2, <2>3, <3>2, <3>3 DEF Scan
    <3> QED BY <1>22, <3>1, <3>4
  <2>5. CASE is_strict_utf8_text(text)
    <3>1. Legible(text) /\ found \in Seq(T) /\ Len(found) \in Nat /\ s.matches \in Seq(T)
      <4>1. Legible(text) BY <1>2, <1>9, <1>20, <2>5
      <4>2. found \in Seq(T) BY <1>3, <4>1
      <4> QED BY <4>1, <4>2, ScanFields
    <3>2. CASE Len(found) > room
      <4> DEFINE f == SubSeq(found, 1, room)
                 e == Ended(part, "max_results")
      <4>1. f \in Seq(T) /\ Len(f) = room
        BY <1>2, <3>1, <3>2, RisingPart
      <4>9. f = SubSeq(found, 1, room) OBVIOUS
      <4> HIDE DEF f
      <4>2. /\ s.matches \o f \in Seq(T) /\ Len(s.matches \o f) = Len(s.matches) + Len(f)
            /\ ToSet(s.matches \o f) = ToSet(s.matches) \cup ToSet(f)
        <5> DEFINE m == s.matches
        <5>1. m \in Seq(T) BY <3>1
        <5> HIDE DEF m
        <5>2. m \o f \in Seq(T) /\ Len(m \o f) = Len(m) + Len(f)
          BY <4>1, <5>1, ConcatProperties
        <5>3. ToSet(m \o f) = ToSet(m) \cup ToSet(f)
          BY <4>1, <5>1, OfTwo
        <5> QED BY <5>2, <5>3 DEF m
      <4>3. Len(s.matches \o f) <= max
        BY <1>21, <4>1, <4>2, ScanFields
      <4>4. part = [read EXCEPT !.matches = s.matches \o f]
        BY <1>21, <2>2, <4>9
      <4> DEFINE grown == s.matches \o f
      <4>5. grown \in Seq(T) /\ Len(grown) <= max /\ part = [read EXCEPT !.matches = grown]
            /\ ToSet(s.matches) \subseteq ToSet(grown)
        BY <4>2, <4>3, <4>4
      <4> HIDE DEF grown
      <4>6. part \in Scans(T, max) /\ part.matches = grown
        BY <2>2, <4>5 DEF Scans
      <4>7. e \in Scans(T, max) /\ e.matches = part.matches /\ e.done /\ ~Uncut(e)
        BY <4>6, EndedIs
      <4>8. next = e BY <1>1, <1>9, <2>5, <3>2
      <4> HIDE DEF e
      <4> QED BY <1>5, <1>9, <4>5, <4>6, <4>7, <4>8
    <3>3. CASE ~(Len(found) > room)
      <4>1. /\ s.matches \o found \in Seq(T) /\ Len(s.matches \o found) = Len(s.matches) + Len(found)
            /\ ToSet(s.matches \o found) = ToSet(s.matches) \cup ToSet(found)
        BY <3>1, ConcatProperties, OfTwo
      <4>2. Len(s.matches \o found) <= max
        BY <1>2, <1>21, <3>1, <3>3, <4>1, ScanFields
      <4> DEFINE grown == s.matches \o found
      <4>3. grown \in Seq(T) /\ Len(grown) <= max /\ all = [read EXCEPT !.matches = grown]
            /\ ToSet(s.matches) \subseteq ToSet(grown) /\ ToSet(found) \subseteq ToSet(grown)
        BY <1>21, <2>2, <4>1, <4>2
      <4> HIDE DEF grown
      <4>4. all \in Scans(T, max) /\ all.matches = grown /\ all.truncated = read.truncated
            /\ all.done = read.done
        BY <2>2, <4>3 DEF Scans
      <4>5. next = all BY <1>1, <1>9, <2>5, <3>3
      <4>6. (Uncut(all) => Uncut(s)) /\ ~all.done
        BY <2>2, <2>3, <4>4 DEF Uncut
      <4>7. Scan(T, max, s, all, text, found)
        BY <1>9, <4>3, <4>4, <4>6 DEF Scan
      <4> QED BY <1>22, <4>5, <4>7
    <3> QED BY <3>2, <3>3
  <2> QED BY <2>4, <2>5
<1> QED BY <1>4, <1>6, <1>7, <1>8, <1>9

(* All files of a scan, one after the other.                                         *)
IsScan(f, tree, o, files, direct, query, exactly, max) ==
  f = [n \in 0..Len(files) |->
         IF n = 0 THEN NoMatches(o)
         ELSE ScanFile(f[n - 1], files[n], tree[files[n]].text, direct, query, exactly, max)]

ScanOf(tree, o, files, direct, query, exactly, max) ==
  (CHOOSE f : IsScan(f, tree, o, files, direct, query, exactly, max))[Len(files)]

(* The matches of the files that can be read.                                        *)
Matching(tree, files, query, exactly) ==
  UNION {MatchesIn(p, tree[p].text, query, exactly) : p \in {q \in files : Legible(tree[q].text)}}

(* What is known of a scan when n files are through.                                 *)
Through(T, max, o, s, n, tree, files, query, exactly) ==
  /\ s \in Scans(T, max)
  /\ Uncut(s) => Uncut(o)
  /\ s.done => ~Uncut(s) \/ ~Faultless(s)
  /\ ~s.done => \A i \in 1..n : Legible(tree[files[i]].text) =>
                  ToSet(MatchesOf(files[i], tree[files[i]].text, query, exactly)) \subseteq ToSet(s.matches)

LEMMA MatchingTyped ==
  ASSUME NEW tree \in Trees, NEW files, files \subseteq NodesOf(tree, "file"), NEW p \in files,
         NEW query \in Strict, query # <<>>, NEW exactly \in BOOLEAN
  PROVE  /\ tree[p].text \in Seq(Nat)
         /\ Legible(tree[p].text) =>
              /\ tree[p].text \in Strict
              /\ MatchesOf(p, tree[p].text, query, exactly) \in Seq(Matching(tree, files, query, exactly))
<1> DEFINE text == tree[p].text
           T == Matching(tree, files, query, exactly)
           P == MatchesIn(p, text, query, exactly)
<1>1. text \in Seq(Nat) BY TextsAreBytes
<1>2. ASSUME Legible(text) PROVE text \in Strict /\ MatchesOf(p, text, query, exactly) \in Seq(T)
  <2>1. text \in Strict BY <1>1, <1>2, StrictIs DEF Legible, Strict
  <2>2. MatchesOf(p, text, query, exactly) \in Seq(P)
    BY <2>1, MatchesOfAre
  <2>3. P \subseteq T BY <1>2 DEF Matching
  <2> DEFINE s == MatchesOf(p, text, query, exactly)
  <2>4. s \in Seq(P) BY <2>2
  <2> HIDE DEF s, P, T
  <2>5. s \in Seq(T) BY <2>3, <2>4
  <2> QED BY <2>1, <2>5 DEF s
<1> QED BY <1>1, <1>2

LEMMA ScanBegins ==
  ASSUME NEW tree, NEW T, NEW max \in Nat, NEW o \in Outs(tree), NEW files, NEW query, NEW exactly
  PROVE  Through(T, max, o, NoMatches(o), 0, tree, files, query, exactly)
<1> DEFINE s == NoMatches(o)
           empty == <<>>
<1>1. empty \in Seq(T) /\ Len(empty) <= max
  OBVIOUS
<1>2. 0 \in 0..MaxSearchBytes /\ 0 \in Nat
  BY ScanLimits
<1>3. s = [matches |-> empty, files |-> 0, bytes |-> 0, omitted |-> o.omitted,
           truncated |-> o.truncated, done |-> FALSE, fault |-> ""]
  BY DEF NoMatches
<1>4. o.omitted \in Nat /\ o.truncated \in {"", "entry_budget"}
  BY DEF Outs
<1> HIDE DEF empty, s
<1>5. s \in Scans(T, max) /\ s.truncated = o.truncated /\ ~s.done
  BY <1>1, <1>2, <1>3, <1>4 DEF Scans
<1>6. Uncut(s) => Uncut(o) BY <1>5 DEF Uncut
<1>7. Through(T, max, o, s, 0, tree, files, query, exactly)
  BY <1>5, <1>6 DEF Through
<1> QED BY <1>7 DEF s

LEMMA ScanGoesOn ==
  ASSUME NEW tree, NEW T, NEW max \in Nat, NEW o, NEW files, NEW query, NEW exactly,
         NEW n \in Nat, NEW s, NEW next, Through(T, max, o, s, n, tree, files, query, exactly),
         Scan(T, max, s, next, tree[files[n + 1]].text,
              MatchesOf(files[n + 1], tree[files[n + 1]].text, query, exactly))
  PROVE  Through(T, max, o, next, n + 1, tree, files, query, exactly)
<1> DEFINE Text(i) == tree[files[i]].text
           All(i) == ToSet(MatchesOf(files[i], Text(i), query, exactly))
<1>1. /\ s \in Scans(T, max) /\ (Uncut(s) => Uncut(o)) /\ (s.done => ~Uncut(s) \/ ~Faultless(s))
      /\ ~s.done => \A i \in 1..n : Legible(Text(i)) => All(i) \subseteq ToSet(s.matches)
  BY DEF Through
<1>2. /\ next \in Scans(T, max) /\ ToSet(s.matches) \subseteq ToSet(next.matches)
      /\ Uncut(next) => Uncut(s)
      /\ next.done => s.done \/ ~Uncut(next) \/ ~Faultless(next)
      /\ s.done => next = s
      /\ ~next.done /\ Legible(Text(n + 1)) => All(n + 1) \subseteq ToSet(next.matches)
  BY DEF Scan
<1>3. \A i \in 1..n + 1 : i \in 1..n \/ i = n + 1
  OBVIOUS
<1>4. (\A i \in 1..n + 1 : Legible(Text(i)) => All(i) \subseteq ToSet(next.matches)) =>
        \A i \in 1..n + 1 : Legible(tree[files[i]].text) =>
          ToSet(MatchesOf(files[i], tree[files[i]].text, query, exactly)) \subseteq ToSet(next.matches)
  OBVIOUS
<1> HIDE DEF Text, All
<1>5. ASSUME ~next.done, NEW i \in 1..n + 1, Legible(Text(i)) PROVE All(i) \subseteq ToSet(next.matches)
  <2>1. ~s.done BY <1>2, <1>5
  <2> QED BY <1>1, <1>2, <1>3, <1>5, <2>1
<1>6. next.done => ~Uncut(next) \/ ~Faultless(next)
  BY <1>1, <1>2
<1>7. Uncut(next) => Uncut(o) BY <1>1, <1>2
<1>8. ~next.done => \A i \in 1..n + 1 : Legible(Text(i)) => All(i) \subseteq ToSet(next.matches)
  BY <1>5
<1> QED BY <1>2, <1>4, <1>6, <1>7, <1>8 DEF Through

LEMMA ScanTyped ==
  ASSUME NEW tree \in Trees, NEW set, set \subseteq NodesOf(tree, "file"), NEW files \in Seq(set),
         NEW direct \in BOOLEAN, NEW query \in Strict, query # <<>>, NEW exactly \in BOOLEAN,
         NEW max \in Nat, NEW n \in 1..Len(files),
         NEW s \in Scans(Matching(tree, set, query, exactly), max)
  PROVE  Scan(Matching(tree, set, query, exactly), max, s,
              ScanFile(s, files[n], tree[files[n]].text, direct, query, exactly, max),
              tree[files[n]].text, MatchesOf(files[n], tree[files[n]].text, query, exactly))
<1> DEFINE p == files[n]
           text == tree[p].text
<1>1. p \in set OBVIOUS
<1> HIDE DEF p
<1>2. /\ text \in Seq(Nat)
      /\ Legible(text) => MatchesOf(p, text, query, exactly) \in Seq(Matching(tree, set, query, exactly))
  BY <1>1, MatchingTyped
<1> HIDE DEF text
<1>3. Scan(Matching(tree, set, query, exactly), max, s,
           ScanFile(s, p, text, direct, query, exactly, max), text, MatchesOf(p, text, query, exactly))
  BY <1>2, FileScanned
<1> QED BY <1>3 DEF p, text

LEMMA ScanExists ==
  ASSUME NEW tree \in Trees, NEW set, set \subseteq NodesOf(tree, "file"), NEW files \in Seq(set),
         NEW direct \in BOOLEAN, NEW query \in Strict, query # <<>>, NEW exactly \in BOOLEAN,
         NEW max \in Nat, NEW o \in Outs(tree)
  PROVE  \E f : IsScan(f, tree, o, files, direct, query, exactly, max)
<1> DEFINE M == Matching(tree, set, query, exactly)
           T == Scans(M, max)
           N == Len(files)
           start == NoMatches(o)
           After(n, s) == ScanFile(s, files[n], tree[files[n]].text, direct, query, exactly, max)
           step == [p \in (1..N) \X T |-> After(p[1], p[2])]
<1>1. start \in T BY ScanBegins DEF Through
<1>2. N \in Nat OBVIOUS
<1>3. \A n \in 1..N, s \in T : After(n, s) \in T
  BY ScanTyped DEF Scan
<1>10. start = NoMatches(o) /\ N = Len(files)
  OBVIOUS
<1> HIDE DEF M, T, N, start, After
<1>4. step \in [(1..N) \X T -> T] /\ \A n \in 1..N, s \in T : step[<<n, s>>] = After(n, s)
  <2>1. ASSUME NEW p \in (1..N) \X T PROVE After(p[1], p[2]) \in T
    <3>1. p[1] \in 1..N /\ p[2] \in T OBVIOUS
    <3> QED BY <1>3, <3>1
  <2> QED BY <2>1
<1> HIDE DEF step
<1>5. PICK f : Passes(f, start, step, N, T)
  BY <1>1, <1>2, <1>4, PassesExist
<1>7. \A n \in 0..N : f[n] = IF n = 0 THEN start ELSE After(n, f[n - 1])
  <2>1. \A n \in 0..N : n # 0 => n \in 1..N
    BY <1>2
  <2> QED BY <1>4, <1>5, <2>1 DEF Passes
<1>8. f = [n \in 0..N |-> IF n = 0 THEN start ELSE After(n, f[n - 1])]
  BY <1>5, <1>7 DEF Passes
<1>9. IsScan(f, tree, o, files, direct, query, exactly, max)
  BY <1>8, <1>10 DEF IsScan, After
<1> QED BY <1>9

(* A scan that was not cut and did not fail has everything of every file it can      *)
(* read, and one that was cut has nothing else.                                      *)
LEMMA ScanIs ==
  ASSUME NEW tree \in Trees, NEW set, set \subseteq NodesOf(tree, "file"), NEW files \in Seq(set),
         NEW direct \in BOOLEAN, NEW query \in Strict, query # <<>>, NEW exactly \in BOOLEAN,
         NEW max \in Nat, NEW o \in Outs(tree)
  PROVE  Through(Matching(tree, set, query, exactly), max, o,
                 ScanOf(tree, o, files, direct, query, exactly, max), Len(files),
                 tree, files, query, exactly)
<1> DEFINE M == Matching(tree, set, query, exactly)
           N == Len(files)
           P(f) == IsScan(f, tree, o, files, direct, query, exactly, max)
           g == CHOOSE f : P(f)
           Good(n) == Through(M, max, o, g[n], n, tree, files, query, exactly)
           S == {n \in Nat : n <= N => Good(n)}
<1>1. P(g)
  <2>1. \E f : P(f) BY ScanExists
  <2> HIDE DEF P
  <2> QED BY <2>1
<1>2. IsScan(g, tree, o, files, direct, query, exactly, max)
  BY <1>1
<1>3. ScanOf(tree, o, files, direct, query, exactly, max) = g[N]
  BY DEF ScanOf
<1>4. N \in Nat /\ N = Len(files) OBVIOUS
<1> HIDE DEF g
<1>5. \A n \in 0..Len(files) :
        g[n] = IF n = 0 THEN NoMatches(o)
               ELSE ScanFile(g[n - 1], files[n], tree[files[n]].text, direct, query, exactly, max)
  BY <1>2 DEF IsScan
<1>10. M = Matching(tree, set, query, exactly)
  OBVIOUS
<1> HIDE DEF N, P, M
<1>6. 0 \in S
  <2>1. g[0] = NoMatches(o) BY <1>4, <1>5, SMTT(20)
  <2>2. Good(0) BY <2>1, ScanBegins
  <2> HIDE DEF Good
  <2> QED BY <2>2
<1>7. ASSUME NEW n \in Nat, n \in S PROVE n + 1 \in S
  <2> SUFFICES ASSUME n + 1 <= N PROVE Good(n + 1)
    OBVIOUS
  <2>1. n <= N /\ n + 1 \in 0..N /\ n + 1 # 0 /\ n + 1 \in 1..N
    BY <1>4
  <2>8. (n + 1) - 1 = n OBVIOUS
  <2>2. Good(n) BY <1>7, <2>1
  <2>3. g[n + 1] = ScanFile(g[n], files[n + 1], tree[files[n + 1]].text, direct, query, exactly, max)
    BY <1>4, <1>5, <2>1, <2>8
  <2>4. g[n] \in Scans(M, max) BY <2>2 DEF Through
  <2> DEFINE s == g[n]
             k == n + 1
  <2>5. k \in 1..Len(files) /\ s \in Scans(Matching(tree, set, query, exactly), max)
    BY <1>4, <1>10, <2>1, <2>4
  <2> HIDE DEF s, k
  <2>6. Scan(M, max, s, ScanFile(s, files[k], tree[files[k]].text, direct, query, exactly, max),
             tree[files[k]].text, MatchesOf(files[k], tree[files[k]].text, query, exactly))
    BY <1>10, <2>5, ScanTyped
  <2>7. Scan(M, max, g[n], g[n + 1], tree[files[n + 1]].text,
             MatchesOf(files[n + 1], tree[files[n + 1]].text, query, exactly))
    BY <2>3, <2>6 DEF s, k
  <2> QED BY <2>2, <2>7, ScanGoesOn
<1> HIDE DEF S
<1>8. N \in S BY <1>4, <1>6, <1>7, SetInduction
<1>9. Good(N) BY <1>4, <1>8 DEF S
<1> QED BY <1>3, <1>4, <1>9, <1>10

(* The rounds of a search, and what is made of the last one.                         *)
IsSearchRounds(f, tree, path, N) ==
  f = [n \in 0..N |-> IF n = 0 THEN [NoOutput EXCEPT !.pending = <<path>>]
                      ELSE SearchStep(tree, f[n - 1])]

LEMMA SearchRoundsExist ==
  ASSUME NEW tree \in Trees, NEW path \in DOMAIN tree, NEW N \in Nat
  PROVE  \E f : IsSearchRounds(f, tree, path, N)
<1> DEFINE T == Outs(tree)
           start == [NoOutput EXCEPT !.pending = <<path>>]
           next == [o \in T |-> SearchStep(tree, o)]
<1>1. next \in [T -> T] /\ \A o \in T : next[o] = SearchStep(tree, o)
  BY SearchRound
<1> HIDE DEF next
<1>2. PICK f : MadeBy(f, tree, path, next, N)
  BY <1>1, RoundsExist
<1>5. f \in [0..N -> T] /\ f[0] = start /\ \A k \in 1..N : f[k - 1] \in T /\ f[k] = next[f[k - 1]]
  BY <1>2 DEF MadeBy
<1> HIDE DEF T, start
<1>3. \A k \in 0..N : f[k] = IF k = 0 THEN start ELSE SearchStep(tree, f[k - 1])
  <2>1. \A k \in 0..N : k # 0 => k \in 1..N
    OBVIOUS
  <2> QED BY <1>1, <1>5, <2>1
<1>4. f = [k \in 0..N |-> IF k = 0 THEN start ELSE SearchStep(tree, f[k - 1])]
  BY <1>3, <1>5
<1> QED BY <1>4 DEF IsSearchRounds, start

LEMMA SearchRoundsAre ==
  ASSUME NEW tree \in Trees, NEW path \in DOMAIN tree, NEW N \in Nat,
         NEW f, IsSearchRounds(f, tree, path, N)
  PROVE  AreRounds(f, N, tree, path, NodesOf(tree, "file"), TRUE)
<1> DEFINE start == [NoOutput EXCEPT !.pending = <<path>>]
<1>1. \A k \in 0..N : f[k] = IF k = 0 THEN start ELSE SearchStep(tree, f[k - 1])
  BY DEF IsSearchRounds
<1>2. f = [k \in 0..N |-> f[k]] BY DEF IsSearchRounds
<1>3. f[0] = start BY <1>1
<1>4. ASSUME NEW k \in 1..N, f[k - 1] \in Outs(tree)
      PROVE  /\ f[k] \in Outs(tree)
             /\ IsInjective(f[k - 1].pending) => Round(tree, f[k - 1], f[k], NodesOf(tree, "file"), TRUE)
  <2>1. f[k] = SearchStep(tree, f[k - 1]) BY <1>1
  <2> QED BY <1>4, <2>1, SearchRound
<1> QED BY <1>2, <1>3, <1>4, RoundsAre

(* The files that lie below the path are what a search of it reaches.                *)
LEMMA FilesReached ==
  ASSUME NEW tree \in Trees, NEW path \in DOMAIN tree, KindAt(tree, path) # "file"
  PROVE  Reached(tree, path, NodesOf(tree, "file"), TRUE) = Searched(tree, path)
<1>1. Reached(tree, path, DOMAIN tree, TRUE) = Below(tree, path)
  <2>1. Reached(tree, path, DOMAIN tree, TRUE)
          = {p \in Below(tree, path) : TRUE \/ Len(p) = Len(path) + 1}
    BY ReachedIs
  <2> QED BY <2>1
<1>2. Reached(tree, path, NodesOf(tree, "file"), TRUE)
        = {c \in Reached(tree, path, DOMAIN tree, TRUE) : c \in NodesOf(tree, "file")}
  BY DEF Reached
<1>3. Searched(tree, path) = {p \in Below(tree, path) : KindAt(tree, p) = "file"}
  BY DEF Searched
<1>4. \A p \in Below(tree, path) : KindAt(tree, p) = "file" <=> p \in NodesOf(tree, "file")
  BY DEF Below, KindAt, NodesOf
<1> DEFINE B == Below(tree, path)
           F == NodesOf(tree, "file")
           K(p) == KindAt(tree, p) = "file"
<1>5. (\A p \in B : K(p) <=> p \in F) /\ Searched(tree, path) = {p \in B : K(p)}
      /\ Reached(tree, path, F, TRUE) = {c \in B : c \in F}
  BY <1>1, <1>2, <1>3, <1>4
<1> HIDE DEF B, F, K
<1>6. Searched(tree, path) = Reached(tree, path, F, TRUE)
  BY <1>5
<1> QED BY <1>6 DEF F

(* What a search that was asked a proper question makes of the two ways to take the  *)
(* path: as a directory and, if it is none, as a file.                               *)
SearchAfter(tree, path, below, asDirectory, asFile, query, exactly, max) ==
  IF asDirectory = "unsupported_file"
  THEN IF IsFault(asFile) THEN [fault |-> asFile]
       ELSE ScanOf(tree, [NoOutput EXCEPT !.entries = <<path>>],
                   InOrder([NoOutput EXCEPT !.entries = <<path>>].entries), TRUE, query, exactly, max)
  ELSE IF IsFault(asDirectory) THEN [fault |-> asDirectory]
  ELSE ScanOf(tree, below, InOrder(below.entries), FALSE, query, exactly, max)

LEMMA SearchUnfolds ==
  ASSUME NEW tree, NEW path, NEW query, NEW exactly, NEW max
  PROVE  search(tree, path, query, exactly, max) =
           IF query = <<>> \/ ~is_strict_utf8_text(query) THEN [fault |-> "invalid_arguments"]
           ELSE SearchAfter(tree, path,
                            (CHOOSE f : IsSearchRounds(f, tree, path, Cardinality(DOMAIN tree)))
                              [Cardinality(DOMAIN tree)],
                            resolve_existing(tree, path, TRUE), resolve_existing(tree, path, FALSE),
                            query, exactly, max)
  BY DEF search, Rounds, IsSearchRounds, SearchAfter, ScanOf, IsScan

(* What a search that did not fail has found.                                        *)
IsSearchOf(tree, path, query, exactly, max, s) ==
  /\ query \in Strict /\ query # <<>> /\ Searched(tree, path) \subseteq NodesOf(tree, "file")
  /\ s \in Scans(Matching(tree, Searched(tree, path), query, exactly), max)
  /\ Uncut(s) => \A p \in Searched(tree, path) : Legible(tree[p].text) =>
       ToSet(MatchesOf(p, tree[p].text, query, exactly)) \subseteq ToSet(s.matches)

LEMMA FilesOrdered ==
  ASSUME NEW tree \in Trees, NEW o \in Outs(tree), IsInjective(o.entries), NEW set,
         ToSet(o.entries) \subseteq set
  PROVE  InOrder(o.entries) \in Seq(set) /\ ToSet(InOrder(o.entries)) = ToSet(o.entries)
<1> DEFINE T == DOMAIN tree
           e == o.entries
           s == InOrder(e)
<1>1. OrderedSet(T) BY TreesAreListed DEF OrderedSet
<1>2. e \in Seq(T) BY OutFields
<1>3. IsInjective(e) /\ ToSet(e) \subseteq set
  OBVIOUS
<1> HIDE DEF T, e
<1>4. s \in Seq(T) /\ ToSet(s) = ToSet(e)
  BY <1>1, <1>2, <1>3, InOrderRises
<1> HIDE DEF s
<1>5. \A i \in 1..Len(s) : s[i] \in set BY <1>3, <1>4, Elements
<1>6. s \in Seq(set) BY <1>4, <1>5
<1> QED BY <1>4, <1>6 DEF s, e

(* A scan of the files a search reaches, or of some of them if it was cut.           *)
LEMMA ScanSearches ==
  ASSUME NEW tree \in Trees, NEW path, NEW o \in Outs(tree), IsInjective(o.entries),
         Searched(tree, path) \subseteq NodesOf(tree, "file"),
         ToSet(o.entries) \subseteq Searched(tree, path), Uncut(o) => ToSet(o.entries) = Searched(tree, path),
         NEW direct \in BOOLEAN, NEW query \in Strict, query # <<>>, NEW exactly \in BOOLEAN, NEW max \in Nat,
         Faultless(ScanOf(tree, o, InOrder(o.entries), direct, query, exactly, max))
  PROVE  IsSearchOf(tree, path, query, exactly, max,
                    ScanOf(tree, o, InOrder(o.entries), direct, query, exactly, max))
<1> DEFINE set == Searched(tree, path)
           files == InOrder(o.entries)
           s == ScanOf(tree, o, files, direct, query, exactly, max)
           M == Matching(tree, set, query, exactly)
           N == Len(files)
<1>1. files \in Seq(set) /\ ToSet(files) = ToSet(o.entries)
  BY FilesOrdered
<1>2. Faultless(s) /\ set \subseteq NodesOf(tree, "file") /\ (Uncut(o) => ToSet(o.entries) = set)
  OBVIOUS
<1>8. N = Len(files) OBVIOUS
<1> HIDE DEF set, files
<1>3. Through(M, max, o, s, N, tree, files, query, exactly)
  BY <1>1, <1>2, ScanIs
<1> HIDE DEF s, N
<1>4. /\ s \in Scans(M, max) /\ (Uncut(s) => Uncut(o)) /\ (s.done => ~Uncut(s) \/ ~Faultless(s))
      /\ ~s.done => \A i \in 1..N : Legible(tree[files[i]].text) =>
           ToSet(MatchesOf(files[i], tree[files[i]].text, query, exactly)) \subseteq ToSet(s.matches)
  BY <1>3 DEF Through
<1>5. ASSUME Uncut(s), NEW p \in set, Legible(tree[p].text)
      PROVE  ToSet(MatchesOf(p, tree[p].text, query, exactly)) \subseteq ToSet(s.matches)
  <2>1. ~s.done /\ ToSet(files) = set BY <1>1, <1>2, <1>4, <1>5
  <2>2. PICK i \in 1..N : files[i] = p
    BY <1>1, <1>8, <2>1, Elements
  <2> QED BY <1>4, <1>5, <2>1, <2>2
<1>6. IsSearchOf(tree, path, query, exactly, max, s)
  BY <1>2, <1>4, <1>5 DEF IsSearchOf, set
<1> QED BY <1>6 DEF s, files

LEMMA FileAlone ==
  ASSUME NEW tree \in Trees, NEW path \in DOMAIN tree
  PROVE  /\ [NoOutput EXCEPT !.entries = <<path>>] \in Outs(tree)
         /\ IsInjective([NoOutput EXCEPT !.entries = <<path>>].entries)
         /\ ToSet([NoOutput EXCEPT !.entries = <<path>>].entries) = {path}
<1> DEFINE s == <<path>>
           o == [NoOutput EXCEPT !.entries = s]
<1>1. s \in Seq(DOMAIN tree) /\ ToSet(s) = {path} /\ IsInjective(s)
  <2>1. s \in Seq(DOMAIN tree) /\ Len(s) = 1 /\ s[1] = path /\ DOMAIN s = 1..1
    OBVIOUS
  <2> HIDE DEF s
  <2>2. \A i \in 1..1 : i = 1 OBVIOUS
  <2> QED BY <2>1, <2>2 DEF ToSet, IsInjective
<1>9. o = [NoOutput EXCEPT !.entries = s]
  OBVIOUS
<1> HIDE DEF s, o
<1>2. o = [entries |-> s, inspected |-> 0, omitted |-> 0, truncated |-> "", pending |-> <<>>]
  BY <1>9 DEF NoOutput
<1>3. 0 \in 0..MaxTraversalEntries /\ 0 \in Nat /\ <<>> \in Seq(DOMAIN tree)
  BY ScanLimits
<1>4. o.entries = s BY <1>2
<1>5. o \in Outs(tree) BY <1>1, <1>2, <1>3 DEF Outs
<1>6. IsInjective(o.entries) /\ ToSet(o.entries) = {path}
  BY <1>1, <1>4
<1> QED BY <1>5, <1>6 DEF o, s

LEMMA SearchFinds ==
  ASSUME NEW tree \in Trees, NEW path, NEW query \in Seq(Nat), NEW exactly \in BOOLEAN, NEW max \in Nat,
         Faultless(search(tree, path, query, exactly, max))
  PROVE  IsSearchOf(tree, path, query, exactly, max, search(tree, path, query, exactly, max))
<1> DEFINE N == Cardinality(DOMAIN tree)
           P(f) == IsSearchRounds(f, tree, path, N)
           g == CHOOSE f : P(f)
           asDirectory == resolve_existing(tree, path, TRUE)
           asFile == resolve_existing(tree, path, FALSE)
           found == search(tree, path, query, exactly, max)
           alone == [NoOutput EXCEPT !.entries = <<path>>]
           named == ScanOf(tree, alone, InOrder(alone.entries), TRUE, query, exactly, max)
           o == g[N]
           walked == ScanOf(tree, o, InOrder(o.entries), FALSE, query, exactly, max)
<1> SUFFICES IsSearchOf(tree, path, query, exactly, max, found)
  OBVIOUS
<1>1. found = IF query = <<>> \/ ~is_strict_utf8_text(query) THEN [fault |-> "invalid_arguments"]
              ELSE IF asDirectory = "unsupported_file"
              THEN IF IsFault(asFile) THEN [fault |-> asFile] ELSE named
              ELSE IF IsFault(asDirectory) THEN [fault |-> asDirectory] ELSE walked
  BY SearchUnfolds DEF SearchAfter
<1>2. \A fault : IsFault(fault) => ~Faultless([fault |-> fault])
  <2> SUFFICES ASSUME NEW fault, IsFault(fault) PROVE ~Faultless([fault |-> fault])
    OBVIOUS
  <2>1. fault # "" BY DEF IsFault
  <2> QED BY <2>1 DEF Faultless
<1>3. IsFault("invalid_arguments") /\ IsFault("unsupported_file")
  BY DEF IsFault
<1>4. Faultless(found) OBVIOUS
<1>5. ~IsFault(asDirectory) => KindAt(tree, path) = "dir"
  BY DEF resolve_existing, IsFault
<1>6. ~IsFault(asFile) => KindAt(tree, path) = "file"
  BY DEF resolve_existing, IsFault
<1>7. KindAt(tree, path) \in {"dir", "file"} => path \in DOMAIN tree
  BY DEF KindAt
<1>8. N = Cardinality(DOMAIN tree) /\ N \in Nat
  BY FS_CardinalityType, TreesAreListed
<1>20. alone = [NoOutput EXCEPT !.entries = <<path>>]
  OBVIOUS
<1> HIDE DEF found, named, asDirectory, asFile, alone, walked, o, N
<1>9. query \in Strict /\ query # <<>>
  <2>1. ~(query = <<>> \/ ~is_strict_utf8_text(query))
    <3> SUFFICES ASSUME query = <<>> \/ ~is_strict_utf8_text(query) PROVE FALSE
      OBVIOUS
    <3>1. found = [fault |-> "invalid_arguments"]
      BY <1>1
    <3> QED BY <1>2, <1>3, <1>4, <3>1
  <2> QED BY <2>1, StrictIs DEF Strict
<1>10. CASE asDirectory = "unsupported_file"
  <2>1. ~IsFault(asFile) /\ found = named
    <3>1. found = IF IsFault(asFile) THEN [fault |-> asFile] ELSE named
      BY <1>1, <1>9, <1>10, StrictIs DEF Strict
    <3>2. ~IsFault(asFile) BY <1>2, <1>4, <3>1
    <3> QED BY <3>1, <3>2
  <2>2. KindAt(tree, path) = "file" /\ path \in DOMAIN tree
    BY <1>6, <1>7, <2>1
  <2>3. Searched(tree, path) = {path} BY <2>2 DEF Searched
  <2>4. path \in NodesOf(tree, "file") BY <2>2 DEF KindAt, NodesOf
  <2>5. alone \in Outs(tree) /\ IsInjective(alone.entries) /\ ToSet(alone.entries) = {path}
    BY <1>20, <2>2, FileAlone
  <2> DEFINE scan == ScanOf(tree, alone, InOrder(alone.entries), TRUE, query, exactly, max)
  <2>6. Faultless(scan) BY <1>4, <2>1 DEF named
  <2>7. IsSearchOf(tree, path, query, exactly, max, scan)
    BY <1>9, <2>3, <2>4, <2>5, <2>6, ScanSearches
  <2> QED BY <2>1, <2>7 DEF named
<1>11. CASE asDirectory # "unsupported_file"
  <2>1. ~IsFault(asDirectory) /\ found = walked
    <3>1. found = IF IsFault(asDirectory) THEN [fault |-> asDirectory] ELSE walked
      BY <1>1, <1>9, <1>11, StrictIs DEF Strict
    <3>2. ~IsFault(asDirectory) BY <1>2, <1>4, <3>1
    <3> QED BY <3>1, <3>2
  <2>2. KindAt(tree, path) = "dir" /\ KindAt(tree, path) # "file" /\ path \in DOMAIN tree
    BY <1>5, <1>7, <2>1
  <2>3. P(g)
    <3>1. \E f : P(f) BY <1>8, <2>2, SearchRoundsExist
    <3> HIDE DEF P
    <3> QED BY <3>1
  <2>4. IsSearchRounds(g, tree, path, N) BY <2>3
  <2>12. o = g[N] BY DEF o
  <2> HIDE DEF P, g
  <2> DEFINE wanted == NodesOf(tree, "file")
  <2>5. AreRounds(g, N, tree, path, wanted, TRUE)
    BY <1>8, <2>2, <2>4, SearchRoundsAre
  <2> HIDE DEF wanted
  <2>6. PICK read : Traversal(tree, path, wanted, TRUE, g[N], read) /\ g[N].pending = <<>>
    BY <1>8, <2>2, <2>5, RoundsTraverse
  <2>7. Traversal(tree, path, wanted, TRUE, o, read) /\ o.pending = <<>>
    BY <2>6, <2>12
  <2>8. Reached(tree, path, wanted, TRUE) = Searched(tree, path)
    BY <2>2, FilesReached DEF wanted
  <2>9. /\ o \in Outs(tree) /\ IsInjective(o.entries) /\ ToSet(o.entries) \subseteq Searched(tree, path)
        /\ Uncut(o) => ToSet(o.entries) = Searched(tree, path)
    <3>1. /\ o \in Outs(tree) /\ IsInjective(o.entries)
          /\ ToSet(o.entries) \subseteq Reached(tree, path, wanted, TRUE)
          /\ Uncut(o) => ToSet(o.entries) = Reached(tree, path, wanted, TRUE)
      BY <2>2, <2>7, TraversalEnds DEF Uncut
    <3> QED BY <2>8, <3>1
  <2>10. Searched(tree, path) \subseteq NodesOf(tree, "file")
    BY <2>8 DEF Reached, wanted
  <2> DEFINE scan == ScanOf(tree, o, InOrder(o.entries), FALSE, query, exactly, max)
  <2>11. Faultless(scan) BY <1>4, <2>1 DEF walked
  <2>13. IsSearchOf(tree, path, query, exactly, max, scan)
    BY <1>9, <2>9, <2>10, <2>11, ScanSearches
  <2> QED BY <2>1, <2>13 DEF walked
<1> QED BY <1>10, <1>11

(* What is left of a scan when its answer is made small enough.                      *)
LEMMA BoundedSearchIs ==
  ASSUME NEW T, NEW max \in Nat, NEW s \in Scans(T, max), Faultless(s)
  PROVE  /\ ToSet(bounded_search_json(s).matches) \subseteq ToSet(s.matches)
         /\ Uncut(bounded_search_json(s)) => bounded_search_json(s) = s
<1> DEFINE m == s.matches
           B == MaxResultBytes
           part == SubSeq(m, 1, B)
           kept == [s EXCEPT !.matches = part]
           out == mark_truncated(kept, "output_bytes")
           answered == bounded_search_json(s)
<1> SUFFICES ToSet(answered.matches) \subseteq ToSet(m) /\ (Uncut(answered) => answered = s)
  OBVIOUS
<1>1. answered = IF Len(m) <= B THEN s ELSE out
  BY DEF bounded_search_json, Faultless
<1>2. m \in Seq(T) /\ Len(m) \in Nat BY ScanFields
<1>3. B \in Nat BY FilesAreLines
<1>9. s.matches = m OBVIOUS
<1> HIDE DEF answered, m, B
<1>4. CASE Len(m) <= B
  BY <1>1, <1>4, <1>9
<1>5. CASE ~(Len(m) <= B)
  <2>1. B \in 0..Len(m) BY <1>2, <1>3, <1>5
  <2>2. ToSet(part) \subseteq ToSet(m) BY <1>2, <2>1, RisingPart
  <2> HIDE DEF part
  <2>3. kept.matches = part BY DEF Scans
  <2>6. \A x : [kept EXCEPT !.truncated = x].matches = kept.matches
                 /\ [kept EXCEPT !.truncated = x].truncated = x
    BY DEF Scans
  <2> HIDE DEF kept
  <2>4. out.matches = part /\ ~Uncut(out)
    <3>1. CASE kept.truncated = ""
      <4>1. out = [kept EXCEPT !.truncated = "output_bytes"]
        BY <3>1 DEF mark_truncated
      <4>2. out.matches = part /\ out.truncated = "output_bytes"
        BY <2>3, <2>6, <4>1
      <4> HIDE DEF out
      <4> QED BY <4>2 DEF Uncut
    <3>2. CASE kept.truncated # ""
      <4>1. out = kept BY <3>2 DEF mark_truncated
      <4> HIDE DEF out
      <4> QED BY <2>3, <3>2, <4>1 DEF Uncut
    <3> QED BY <3>1, <3>2
  <2>5. answered = out BY <1>1, <1>5
  <2> HIDE DEF out
  <2> QED BY <2>2, <2>4, <2>5
<1> QED BY <1>4, <1>5

LEMMA LinePlaces ==
  ASSUME NEW text \in Strict, NEW n \in DOMAIN TextLines(text)
  PROVE  DOMAIN TextLines(text)[n] = 1..Len(TextLines(text)[n])
<1> DEFINE lines == TextLines(text)
           line == lines[n]
<1>1. lines \in Seq(Strict) BY TextLinesAre DEF Strict
<1>2. n \in DOMAIN lines OBVIOUS
<1> HIDE DEF lines
<1>3. line \in Strict BY <1>1, <1>2
<1> HIDE DEF line
<1>4. line \in Seq(Nat) BY <1>3 DEF Strict
<1>5. DOMAIN line = 1..Len(line) BY <1>4
<1> QED BY <1>5 DEF line, lines

(* What a search may answer with, and what it must if it was not cut.                *)
Sound(tree, path, query, exactly, m) ==
  /\ m.path \in Searched(tree, path) /\ Legible(tree[m.path].text)
  /\ RightMatch(m, m.path, tree[m.path].text, query, exactly)

NoneMissed(tree, path, query, exactly, found) ==
  \A p \in Searched(tree, path) : Legible(tree[p].text) =>
    \A n \in DOMAIN TextLines(tree[p].text) :
      Occurrences(TextLines(tree[p].text)[n], query, exactly) # {} =>
        \E m \in found : m.path = p /\ m.line = n

LEMMA SearchIsRight ==
  ASSUME NEW tree \in Trees, NEW path, NEW query, NEW exactly \in BOOLEAN, NEW max \in Nat,
         NEW s, IsSearchOf(tree, path, query, exactly, max, s)
  PROVE  /\ \A m \in ToSet(s.matches) : Sound(tree, path, query, exactly, m)
         /\ Uncut(s) => NoneMissed(tree, path, query, exactly, ToSet(s.matches))
<1> DEFINE set == Searched(tree, path)
           T == Matching(tree, set, query, exactly)
<1>1. /\ query \in Strict /\ query # <<>> /\ set \subseteq NodesOf(tree, "file") /\ s \in Scans(T, max)
      /\ Uncut(s) => \A p \in set : Legible(tree[p].text) =>
           ToSet(MatchesOf(p, tree[p].text, query, exactly)) \subseteq ToSet(s.matches)
  BY DEF IsSearchOf
<1>2. s.matches \in Seq(T) BY <1>1, ScanFields
<1>3. ASSUME NEW m \in ToSet(s.matches) PROVE Sound(tree, path, query, exactly, m)
  <2> HIDE DEF T
  <2>1. m \in T BY <1>2, Elements
  <2>2. PICK p \in set : Legible(tree[p].text) /\ m \in MatchesIn(p, tree[p].text, query, exactly)
    BY <2>1 DEF T, Matching
  <2>3. tree[p].text \in Strict BY <1>1, <2>2, MatchingTyped
  <2>4. RightMatch(m, p, tree[p].text, query, exactly)
    BY <1>1, <2>2, <2>3, MatchesAreRight
  <2>5. m.path = p BY <2>4 DEF RightMatch
  <2> QED BY <2>2, <2>4, <2>5 DEF Sound
<1>4. ASSUME Uncut(s) PROVE NoneMissed(tree, path, query, exactly, ToSet(s.matches))
  <2> SUFFICES ASSUME NEW p \in set, Legible(tree[p].text), NEW n \in DOMAIN TextLines(tree[p].text),
                      Occurrences(TextLines(tree[p].text)[n], query, exactly) # {}
               PROVE  \E m \in ToSet(s.matches) : m.path = p /\ m.line = n
    BY DEF NoneMissed
  <2> DEFINE text == tree[p].text
             lines == TextLines(text)
  <2>1. text \in Strict BY <1>1, MatchingTyped
  <2>2. lines \in Seq(Strict) BY <2>1, TextLinesAre DEF Strict
  <2>3. n \in 1..Len(lines)
    <3>1. n \in DOMAIN lines OBVIOUS
    <3> HIDE DEF lines
    <3> QED BY <2>2, <3>1
  <2>4. PICK m \in ToSet(MatchesOf(p, text, query, exactly)) : m.path = p /\ m.line = n
    <3>1. query \in Strict /\ query # <<>> BY <1>1
    <3>2. Occurrences(TextLines(text)[n], query, exactly) # {} /\ n \in 1..Len(TextLines(text))
      BY <2>3
    <3> HIDE DEF text, set, T, lines
    <3>3. EachTold(p, text, query, exactly)
      BY <2>1, <3>1, MatchesOfAre
    <3> QED BY <3>2, <3>3 DEF EachTold
  <2>5. m \in ToSet(s.matches) BY <1>1, <1>4, <2>4
  <2> QED BY <2>4, <2>5
<1> QED BY <1>3, <1>4

LEMMA SearchAsked ==
  ASSUME AnswerInv, asked.on = "search"
  PROVE  /\ asked.tree \in Trees /\ asked.call.query \in Seq(Nat)
         /\ asked.call.case_sensitive \in BOOLEAN /\ asked.call.max \in Nat
<1>1. PICK tree \in Trees, call \in Calls : asked = [on |-> call.tool, tree |-> tree, call |-> call]
  BY DEF AnswerInv, Posed
<1>2. asked.tree = tree /\ asked.call = call /\ call.tool = "search"
  BY <1>1
<1> QED BY <1>2, CallsNameTools

(* What is asked of an answer follows from what is known of the search.              *)
LEMMA SearchAnswersAsked ==
  ASSUME NEW out, out = answer.value,
         \A m \in ToSet(out.matches) :
           Sound(asked.tree, asked.call.path, asked.call.query, asked.call.case_sensitive, m),
         Uncut(out) => NoneMissed(asked.tree, asked.call.path, asked.call.query,
                                asked.call.case_sensitive, ToSet(out.matches)),
         \A p \in Searched(asked.tree, asked.call.path) : Legible(asked.tree[p].text) =>
           \A n \in DOMAIN TextLines(asked.tree[p].text) :
             DOMAIN TextLines(asked.tree[p].text)[n] = 1..Len(TextLines(asked.tree[p].text)[n])
  PROVE  SearchIsWhole
<1> DEFINE tree == asked.tree
           path == asked.call.path
           query == asked.call.query
           exactly == asked.call.case_sensitive
           found == ToSet(out.matches)
           LinesOf(p) == TextLines(tree[p].text)
           Readable(p) == Len(tree[p].text) <= MaxTextFileBytes /\ is_strict_utf8_text(tree[p].text)
           Holds(p, n) == \E at \in DOMAIN LinesOf(p)[n] : Occurs(LinesOf(p)[n], at, query, exactly)
           Right(m) ==
             LET line == LinesOf(m.path)[m.line]
             IN  /\ m.path \in Searched(tree, path) /\ Readable(m.path)
                 /\ is_strict_utf8_text(SubSeq(line, m.shown.first, m.shown.last))
                 /\ \E at \in DOMAIN line :
                      LET end == at + Len(query) - 1
                      IN  /\ Occurs(line, at, query, exactly)
                          /\ m.column = utf8_column(line, at)
                          /\ IF Len(query) <= MaxFragmentBytes
                             THEN m.shown.first <= at /\ end <= m.shown.last
                             ELSE m.shown.first <= end /\ at <= m.shown.last
           All == \A p \in Searched(tree, path) : Readable(p) =>
                    \A n \in DOMAIN LinesOf(p) :
                      Holds(p, n) => \E m \in found : m.path = p /\ m.line = n
<1>1. \A m \in found : Right(m) BY DEF Sound, RightMatch, Legible
<1>2. Uncut(out) => All
  <2> SUFFICES ASSUME Uncut(out), NEW p \in Searched(tree, path), Readable(p), NEW n \in DOMAIN LinesOf(p),
                      Holds(p, n)
               PROVE  \E m \in found : m.path = p /\ m.line = n
    OBVIOUS
  <2>1. Legible(tree[p].text) BY DEF Legible
  <2>2. PICK at \in DOMAIN LinesOf(p)[n] : Occurs(LinesOf(p)[n], at, query, exactly)
    OBVIOUS
  <2>3. at \in 1..Len(TextLines(tree[p].text)[n])
    BY <2>1, <2>2
  <2>4. Occurrences(TextLines(tree[p].text)[n], query, exactly) # {}
    BY <2>2, <2>3 DEF Occurrences
  <2> QED BY <2>1, <2>4 DEF NoneMissed
<1>3. (\A m \in found : Right(m)) /\ (answer.value.truncated = "" => All) => SearchIsWhole
  BY DEF SearchIsWhole
<1> HIDE DEF Right, All, found
<1>4. answer.value.truncated = "" => All BY <1>2 DEF Uncut
<1> QED BY <1>1, <1>3, <1>4

(* A search that does not say it was cut has a match in every line that has one, of  *)
(* every file it may read and could; each match is where it says, and what it shows  *)
(* of the line is text and holds the match, or a part of one that is longer than     *)
(* what can be shown: for every tree, whatever its files hold, every text looked     *)
(* for, in either case, and every limit (workspace_file_ops.cpp:373 and 547,         *)
(* workspace_tool_gateway.cpp:341).                                                  *)
THEOREM FilesAreSearched == Spec => []SearchIsWhole
<1>1. AnswerInv => SearchIsWhole
  <2> SUFFICES ASSUME AnswerInv, Answered("search"), answer.value.fault = "" PROVE SearchIsWhole
    BY DEF SearchIsWhole
  <2> DEFINE tree == asked.tree
             path == asked.call.path
             query == asked.call.query
             exactly == asked.call.case_sensitive
             max == asked.call.max
             s == search(tree, path, query, exactly, max)
             out == answer.value
             M == Matching(tree, Searched(tree, path), query, exactly)
  <2>1. out = bounded_search_json(s) BY AnswerOf DEF Answered
  <2>2. tree \in Trees /\ query \in Seq(Nat) /\ exactly \in BOOLEAN /\ max \in Nat
    BY SearchAsked DEF Answered
  <2>10. Faultless(out) BY DEF Faultless
  <2>11. out = answer.value OBVIOUS
  <2>12. /\ tree = asked.tree /\ path = asked.call.path /\ query = asked.call.query
         /\ exactly = asked.call.case_sensitive
    OBVIOUS
  <2> HIDE DEF s, out, tree, path, query, exactly, max
  <2>3. Faultless(s)
    <3> SUFFICES ASSUME ~Faultless(s) PROVE FALSE
      OBVIOUS
    <3>1. bounded_search_json(s) = s
      BY DEF bounded_search_json, Faultless
    <3> QED BY <2>1, <2>10, <3>1
  <2>4. IsSearchOf(tree, path, query, exactly, max, s)
    BY <2>2, <2>3, SearchFinds DEF s
  <2>5. s \in Scans(M, max) /\ query \in Strict /\ query # <<>>
        /\ Searched(tree, path) \subseteq NodesOf(tree, "file")
    BY <2>4 DEF IsSearchOf
  <2>6. ToSet(out.matches) \subseteq ToSet(s.matches) /\ (Uncut(out) => out = s)
    BY <2>1, <2>2, <2>3, <2>5, BoundedSearchIs
  <2>7. /\ \A m \in ToSet(s.matches) : Sound(tree, path, query, exactly, m)
        /\ Uncut(s) => NoneMissed(tree, path, query, exactly, ToSet(s.matches))
    BY <2>2, <2>4, SearchIsRight
  <2>8. /\ \A m \in ToSet(out.matches) : Sound(tree, path, query, exactly, m)
        /\ Uncut(out) => NoneMissed(tree, path, query, exactly, ToSet(out.matches))
    BY <2>6, <2>7
  <2>9. ASSUME NEW p \in Searched(tree, path), Legible(tree[p].text), NEW n \in DOMAIN TextLines(tree[p].text)
        PROVE  DOMAIN TextLines(tree[p].text)[n] = 1..Len(TextLines(tree[p].text)[n])
    <3>1. tree[p].text \in Strict BY <2>2, <2>5, <2>9, MatchingTyped
    <3> QED BY <3>1, LinePlaces
  <2> QED BY <2>8, <2>9, <2>11, <2>12, SearchAnswersAsked
<1> QED BY <1>1, AnswersAreTheCodes, PTL

(* What a tool shows is all there is, or it says what is cut: lists, searches, the   *)
(* pages of a file and the output of a command.                                      *)
THEOREM ToolsTellAll == Spec => []ToolAnswersAreWhole
<1>1. ListIsWhole /\ SearchIsWhole /\ PagesAreWhole /\ OutputIsShown => ToolAnswersAreWhole
  BY DEF ToolAnswersAreWhole
<1> QED
  BY <1>1, FilesAreListed, FilesAreSearched, FilesAreReadWhole, OutputIsShownAsWritten, PTL
==================================================================================
