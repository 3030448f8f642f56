---------------------------- MODULE Logger_proofs ----------------------------
(***************************************************************************)
(* For every number of threads, days, lines, failures and restarts, and     *)
(* every limit: what log() promises of the line it is given, that the       *)
(* clean-up leaves the open file alone, how large the files grow, and that  *)
(* a line stays in the file it was written to.                              *)
(***************************************************************************)
EXTENDS Logger, FiniteSetTheorems, TLAPS

(* A Logger, and a world with one. *)
IsLogger(l) ==
    /\ l = [toFile |-> l.toFile, date |-> l.date, linked |-> l.linked, bytes |-> l.bytes,
            stuck |-> l.stuck]
    /\ l.toFile \in BOOLEAN /\ l.date \in Nat /\ l.linked \in BOOLEAN
    /\ l.bytes \in Nat /\ l.stuck \in Nat
    /\ l.stuck # 0 => l.toFile
    /\ l.toFile => l.date # 0

IsWorld(w) ==
    /\ w = [dirs |-> w.dirs, files |-> w.files, lg |-> w.lg,
            overgrown |-> w.overgrown, clobbered |-> w.clobbered]
    /\ IsLogger(w.lg)

\* The files fs, of n lines at most: none is larger than the limit and m lines, but on the
\* dates g.
FilesWell(fs, n, m, g) ==
    \A k \in DOMAIN fs :
        /\ k \in Nat \X Nat
        /\ fs[k] \in Seq(1 .. n)
        /\ Len(fs[k]) <= kMaxLogFileBytes + m \/ k[1] \in g

\* Line x is at place i of file k.
At(fs, k, i, x) == k \in DOMAIN fs /\ i \in DOMAIN fs[k] /\ fs[k][i] = x

\* The lines of A are in no file, those of C are at one place at most.
Once(fs, C, A) ==
    /\ \A k, i, x : At(fs, k, i, x) => x \notin A
    /\ \A k, l, i, j, x : At(fs, k, i, x) /\ At(fs, l, j, x) /\ x \in C => k = l /\ i = j

\* There is room for one line more in file key.
Fits(fs, key, m, g) == Len(fs[key]) + 1 <= kMaxLogFileBytes + m \/ key[1] \in g

\* The name of the open file leads to it exactly when it is linked, and the byte count
\* covers the file.
Counted(w) ==
    w.lg.toFile =>
        /\ w.lg.linked <=> <<w.lg.date, 0>> \in DOMAIN w.files
        /\ w.lg.linked =>
              Len(w.files[<<w.lg.date, 0>>]) <= w.lg.bytes \/ w.lg.date \in w.overgrown

\* The line held by a failed stream met a failure, and there is room for it.
Holding(w, n, m, C, A) ==
    w.lg.stuck # 0 =>
        /\ w.lg.stuck \in 1 .. n /\ w.lg.stuck \notin C /\ w.lg.stuck \notin A
        /\ 1 <= m
        /\ w.lg.linked => Fits(w.files, <<w.lg.date, 0>>, m, w.overgrown)

\* A world in order.
Good(w, n, m, C, A) ==
    /\ IsWorld(w)
    /\ FilesWell(w.files, n, m, w.overgrown)
    /\ Once(w.files, C, A)
    /\ Counted(w)
    /\ Holding(w, n, m, C, A)

\* Line n is in a file of date d.
Has(fs, n, d) == \E k, i : At(fs, k, i, n) /\ k[1] = d

\* From w to o no line is taken away from a date, unless a rotated file was overwritten.
Keeps(w, o) ==
    /\ w.overgrown \subseteq o.overgrown /\ w.clobbered \subseteq o.clobbered
    /\ \A n, d : Has(w.files, n, d) /\ d \notin o.clobbered => Has(o.files, n, d)

-----------------------------------------------------------------------------
(* Failures are counted: none is zero, one is at least one, two at least two. *)
LEMMA CountFaults ==
    ASSUME NEW f \in Trouble
    PROVE  /\ FaultsOf(f) \in Nat
           /\ FaultsOf(f) = 0 => \A k \in DOMAIN f : f[k] = Calm[k]
           /\ \A j, k \in DOMAIN f :
                 j # k /\ f[j] # Calm[j] /\ f[k] # Calm[k] => FaultsOf(f) >= 2
<1> DEFINE Failing == {k \in DOMAIN f : f[k] # Calm[k]}
           Calls == {"open", "probe", "rename", "reopen", "write", "retry", "rewrite"}
<1>1. DOMAIN f = Calls
  BY DEF Trouble
<1>2. IsFiniteSet(Calls)
  <2>1. IsFiniteSet({"open"} \cup {"probe"})
    BY FS_Singleton, FS_AddElement, Zenon
  <2>2. IsFiniteSet(({"open"} \cup {"probe"}) \cup {"rename"})
    BY <2>1, FS_AddElement
  <2>3. IsFiniteSet((({"open"} \cup {"probe"}) \cup {"rename"}) \cup {"reopen"})
    BY <2>2, FS_AddElement
  <2>4. IsFiniteSet(((({"open"} \cup {"probe"}) \cup {"rename"}) \cup {"reopen"}) \cup {"write"})
    BY <2>3, FS_AddElement
  <2>5. IsFiniteSet((((({"open"} \cup {"probe"}) \cup {"rename"}) \cup {"reopen"}) \cup {"write"})
                    \cup {"retry"})
    BY <2>4, FS_AddElement
  <2>6. IsFiniteSet(((((({"open"} \cup {"probe"}) \cup {"rename"}) \cup {"reopen"}) \cup {"write"})
                    \cup {"retry"}) \cup {"rewrite"})
    BY <2>5, FS_AddElement
  <2>7. Calls = ((((({"open"} \cup {"probe"}) \cup {"rename"}) \cup {"reopen"}) \cup {"write"})
                  \cup {"retry"}) \cup {"rewrite"}
    OBVIOUS
  <2> QED BY <2>6, <2>7
<1>3. IsFiniteSet(Failing)
  BY <1>1, <1>2, FS_Subset
<1>4. FaultsOf(f) = Cardinality(Failing) /\ FaultsOf(f) \in Nat
  BY <1>3, FS_CardinalityType DEF FaultsOf
<1>5. FaultsOf(f) = 0 => Failing = {}
  BY <1>3, <1>4, FS_EmptySet, Zenon
<1>6. ASSUME NEW j \in DOMAIN f, NEW k \in DOMAIN f, j # k, f[j] # Calm[j], f[k] # Calm[k]
      PROVE  FaultsOf(f) >= 2
  <2>1. {j, k} \subseteq Failing
    BY <1>6
  <2>2. IsFiniteSet({j}) /\ Cardinality({j}) = 1
    BY FS_Singleton
  <2>3. IsFiniteSet({j} \cup {k}) /\ Cardinality({j} \cup {k}) = 2
    <3>1. k \notin {j}
      BY <1>6
    <3>2. Cardinality({j} \cup {k}) = Cardinality({j}) + 1 /\ IsFiniteSet({j} \cup {k})
      BY <2>2, <3>1, FS_AddElement
    <3> QED BY <2>2, <3>2
  <2>4. {j} \cup {k} \subseteq Failing
    BY <2>1
  <2>5. 2 <= Cardinality(Failing)
    BY <1>3, <2>3, <2>4, FS_Subset
  <2> QED BY <1>4, <2>5
<1> QED BY <1>4, <1>5, <1>6

(* The same, by the names of the calls. *)
LEMMA NamedFaults ==
    ASSUME NEW f \in Trouble
    PROVE  /\ FaultsOf(f) \in Nat
           /\ f.open \in Opening /\ f.reopen \in Opening /\ f.retry \in Opening
           /\ f.probe \in 0 .. kMaxRotationIndex
           /\ FaultsOf(f) = 0 => /\ f.open = "ok" /\ f.reopen = "ok" /\ f.retry = "ok"
                                 /\ f.write = "ok" /\ f.rewrite = "ok"
           /\ f.write # "ok" /\ (f.retry \notin Opened \/ f.rewrite # "ok") => FaultsOf(f) >= 2
<1>1. /\ f.open \in Opening /\ f.reopen \in Opening /\ f.retry \in Opening
      /\ f.probe \in 0 .. kMaxRotationIndex
  BY DEF Trouble
<1>2. DOMAIN f = {"open", "probe", "rename", "reopen", "write", "retry", "rewrite"}
  BY DEF Trouble
<1>3. /\ Calm["open"] = "ok" /\ Calm["reopen"] = "ok" /\ Calm["write"] = "ok"
      /\ Calm["retry"] = "ok" /\ Calm["rewrite"] = "ok"
  BY DEF Calm
<1>4. "ok" \in Opened
  BY DEF Opened
<1>5. ASSUME FaultsOf(f) = 0
      PROVE  /\ f.open = "ok" /\ f.reopen = "ok" /\ f.retry = "ok"
             /\ f.write = "ok" /\ f.rewrite = "ok"
  BY <1>2, <1>3, <1>5, CountFaults
<1>6. ASSUME f.write # "ok", f.retry \notin Opened \/ f.rewrite # "ok"
      PROVE  FaultsOf(f) >= 2
  <2>1. f["write"] # Calm["write"]
    BY <1>3, <1>6
  <2>2. f["retry"] # Calm["retry"] \/ f["rewrite"] # Calm["rewrite"]
    BY <1>3, <1>4, <1>6
  <2> QED BY <1>2, <2>1, <2>2, CountFaults
<1> QED BY <1>1, <1>5, <1>6, CountFaults

(* What FilesWell says of one file. *)
LEMMA OneFile ==
    ASSUME NEW fs, NEW n, NEW m, NEW g, FilesWell(fs, n, m, g), NEW k \in DOMAIN fs
    PROVE  /\ Len(fs[k]) \in Nat /\ DOMAIN fs[k] = 1 .. Len(fs[k])
           /\ Len(fs[k]) <= kMaxLogFileBytes + m \/ k[1] \in g
           /\ \A i \in DOMAIN fs[k] : fs[k][i] \in 1 .. n
<1>1. fs[k] \in Seq(1 .. n) /\ (Len(fs[k]) <= kMaxLogFileBytes + m \/ k[1] \in g)
  BY Zenon DEF FilesWell
<1>2. ASSUME NEW S, NEW s \in Seq(S)
      PROVE  Len(s) \in Nat /\ DOMAIN s = 1 .. Len(s) /\ \A i \in DOMAIN s : s[i] \in S
  OBVIOUS
<1> QED
  BY <1>1, <1>2, Zenon

\* Its size is a number.
LEMMA FileSize ==
    ASSUME NEW fs, NEW n, NEW m, NEW g, FilesWell(fs, n, m, g), NEW k \in DOMAIN fs
    PROVE  Len(fs[k]) \in Nat
BY OneFile, Zenon

(* A sequence with one element more. *)
LEMMA OneMore ==
    ASSUME NEW S, NEW s \in Seq(S), NEW x \in S, NEW q, q = Append(s, x)
    PROVE  /\ q \in Seq(S) /\ Len(s) \in Nat
           /\ Len(q) = Len(s) + 1 /\ DOMAIN q = DOMAIN s \cup {Len(s) + 1}
           /\ Len(s) + 1 \notin DOMAIN s
           /\ q[Len(s) + 1] = x /\ \A i \in DOMAIN s : q[i] = s[i]
OBVIOUS

(* More lines, failures and dates leave the files in order. *)
LEMMA WellWeakens ==
    ASSUME NEW fs, NEW n \in Nat, NEW m \in Nat, NEW g, FilesWell(fs, n, m, g),
           NEW nn \in Nat, NEW mm \in Nat, NEW gg, n <= nn, m <= mm, g \subseteq gg
    PROVE  FilesWell(fs, nn, mm, gg)
<1> SUFFICES ASSUME NEW k \in DOMAIN fs
             PROVE  /\ k \in Nat \X Nat
                    /\ fs[k] \in Seq(1 .. nn)
                    /\ Len(fs[k]) <= kMaxLogFileBytes + mm \/ k[1] \in gg
  BY Zenon DEF FilesWell
<1>1. k \in Nat \X Nat /\ fs[k] \in Seq(1 .. n)
  BY Zenon DEF FilesWell
<1>2. fs[k] \in Seq(1 .. nn)
  <2>1. 1 .. n \subseteq 1 .. nn
    OBVIOUS
  <2> QED
    BY <1>1, <2>1
<1>3. Len(fs[k]) \in Nat /\ (Len(fs[k]) <= kMaxLogFileBytes + m \/ k[1] \in g)
  BY OneFile
<1>4. Len(fs[k]) <= kMaxLogFileBytes + mm \/ k[1] \in gg
  <2> DEFINE len == Len(fs[k])
  <2> HIDE DEF len
  <2>1. ASSUME len \in Nat, len <= kMaxLogFileBytes + m PROVE len <= kMaxLogFileBytes + mm
    BY <2>1, LoggerAssumption
  <2> QED
    BY <1>3, <2>1, Zenon DEF len
<1> QED
  BY <1>1, <1>2, <1>4

(* A line no file holds is at one place at most. *)
LEMMA OnceWeakens == ASSUME NEW fs, NEW C, NEW A, Once(fs, C, A) PROVE Once(fs, C \cup A, {})
BY Zenon DEF Once

\* gs is fs with a file of date d, which holds old.
Continued(fs, gs, d, old, n, m, g, C, A) ==
    /\ FilesWell(gs, n, m, g) /\ Once(gs, C, A)
    /\ \A x, e : Has(fs, x, e) => Has(gs, x, e)
    /\ <<d, 0>> \in DOMAIN gs /\ gs[<<d, 0>>] = old /\ Len(old) \in Nat

(* A file that is created empty or goes on as it is. *)
LEMMA OpenedFiles ==
    ASSUME NEW fs, NEW n \in Nat, NEW m \in Nat, NEW g, FilesWell(fs, n, m, g),
           NEW C, NEW A, Once(fs, C, A), NEW d \in Nat,
           NEW old, old = (IF <<d, 0>> \in DOMAIN fs THEN fs[<<d, 0>>] ELSE <<>>),
           NEW gs, gs = WithFile(fs, <<d, 0>>, old)
    PROVE  Continued(fs, gs, d, old, n, m, g, C, A)
<1>1. /\ DOMAIN gs = DOMAIN fs \cup {<<d, 0>>} /\ gs[<<d, 0>>] = old
      /\ \A k \in DOMAIN fs : gs[k] = fs[k]
  BY DEF WithFile
<1>2. <<>> \in Seq(1 .. n) /\ Len(<<>>) = 0 /\ DOMAIN <<>> = {} /\ <<d, 0>> \in Nat \X Nat
  OBVIOUS
<1>3. Len(<<>>) <= kMaxLogFileBytes + m
  BY <1>2, LoggerAssumption
<1>4. \A k \in DOMAIN gs : k \in DOMAIN fs \/ (k = <<d, 0>> /\ gs[k] = <<>>)
  BY <1>1, Zenon
<1>5. FilesWell(gs, n, m, g)
  BY <1>1, <1>2, <1>3, <1>4, Zenon DEF FilesWell
<1>6. \A k, i, x : At(gs, k, i, x) <=> At(fs, k, i, x)
  BY <1>1, <1>2, <1>4, Zenon DEF At
<1>7. Once(gs, C, A)
  BY <1>6 DEF Once
<1>8. \A x, e : Has(fs, x, e) => Has(gs, x, e)
  BY <1>6, Zenon DEF Has
<1>9. Len(old) \in Nat
  BY <1>1, <1>5, OneFile, Zenon
<1> QED
  BY <1>1, <1>5, <1>7, <1>8, <1>9, Zenon DEF Continued

\* gs is fs with the active file of d under another name; what had that name is gone.
Moved(fs, gs, d, i, n, m, g, C, A) ==
    /\ FilesWell(gs, n, m, g) /\ Once(gs, C, A) /\ <<d, 0>> \notin DOMAIN gs
    /\ \A x, e : Has(fs, x, e) /\ (e # d \/ <<d, i>> \notin DOMAIN fs) => Has(gs, x, e)

(* A file under a new name. *)
LEMMA RenamedFiles ==
    ASSUME NEW fs, NEW n \in Nat, NEW m \in Nat, NEW g, FilesWell(fs, n, m, g),
           NEW C, NEW A, Once(fs, C, A),
           NEW d \in Nat, NEW i \in Nat \ {0}, <<d, 0>> \in DOMAIN fs,
           NEW gs, gs = renamed(fs, d, i)
    PROVE  Moved(fs, gs, d, i, n, m, g, C, A)
<1>0. <<d, 0>> # <<d, i>> /\ <<d, i>>[1] = d /\ <<d, 0>>[1] = d /\ <<d, i>> \in Nat \X Nat
  OBVIOUS
<1>1. /\ DOMAIN gs = (DOMAIN fs \ {<<d, 0>>}) \cup {<<d, i>>} /\ gs[<<d, i>>] = fs[<<d, 0>>]
      /\ \A k \in DOMAIN fs \ {<<d, 0>>} : k # <<d, i>> => gs[k] = fs[k]
  BY DEF renamed
<1> DEFINE new == <<d, i>>
           old == <<d, 0>>
           was(x) == IF x = new THEN old ELSE x
<1>2. /\ \A k \in DOMAIN gs : was(k) \in DOMAIN fs /\ gs[k] = fs[was(k)] /\ was(k)[1] = k[1]
      /\ \A j, k \in DOMAIN gs : was(j) = was(k) => j = k
  BY <1>0, <1>1, Zenon
<1>3. \A k \in DOMAIN gs : k \in Nat \X Nat
  BY <1>0, <1>1, Zenon DEF FilesWell
<1> HIDE DEF was
<1>4. FilesWell(gs, n, m, g)
  <2> SUFFICES ASSUME NEW k \in DOMAIN gs
               PROVE  /\ k \in Nat \X Nat
                      /\ gs[k] \in Seq(1 .. n)
                      /\ Len(gs[k]) <= kMaxLogFileBytes + m \/ k[1] \in g
    BY Zenon DEF FilesWell
  <2>1. /\ fs[was(k)] \in Seq(1 .. n)
        /\ Len(fs[was(k)]) <= kMaxLogFileBytes + m \/ was(k)[1] \in g
    BY <1>2, Zenon DEF FilesWell
  <2>2. gs[k] = fs[was(k)] /\ was(k)[1] = k[1]
    BY <1>2, Zenon
  <2> QED
    BY <1>3, <2>1, <2>2, Zenon
<1>5. \A k, j, x : At(gs, k, j, x) => k \in DOMAIN gs /\ At(fs, was(k), j, x)
  BY <1>2, Zenon DEF At
<1>8. Once(gs, C, A)
  <2>1. ASSUME NEW k, NEW j, NEW x, At(gs, k, j, x) PROVE x \notin A
    BY <1>5, <2>1, Zenon DEF Once
  <2>2. ASSUME NEW k, NEW l, NEW j, NEW h, NEW x, At(gs, k, j, x), At(gs, l, h, x), x \in C
        PROVE  k = l /\ j = h
    <3>1. was(k) = was(l) /\ j = h
      BY <1>5, <2>2 DEF Once
    <3>2. k \in DOMAIN gs /\ l \in DOMAIN gs
      BY <1>5, <2>2, Zenon
    <3> QED
      BY <1>2, <3>1, <3>2, Zenon
  <2> QED
    BY <2>1, <2>2, Zenon DEF Once
<1>6. ASSUME NEW x, NEW e, Has(fs, x, e), e # d \/ <<d, i>> \notin DOMAIN fs
      PROVE  Has(gs, x, e)
  <2>1. PICK k, j : At(fs, k, j, x) /\ k[1] = e
    BY <1>6, Zenon DEF Has
  <2>2. CASE k = old
    <3>1. At(gs, new, j, x) /\ new[1] = e
      BY <1>0, <1>1, <2>1, <2>2, Zenon DEF At
    <3> QED
      BY <3>1, Zenon DEF Has
  <2>3. CASE k # old
    <3>1. k # new
      BY <1>0, <1>6, <2>1, Zenon DEF At
    <3>2. At(gs, k, j, x)
      BY <1>1, <2>1, <2>3, <3>1, Zenon DEF At
    <3> QED
      BY <2>1, <3>2, Zenon DEF Has
  <2> QED
    BY <2>2, <2>3, Zenon
<1>7. <<d, 0>> \notin DOMAIN gs
  BY <1>0, <1>1, Zenon
<1> QED
  BY <1>4, <1>6, <1>7, <1>8, Zenon DEF Moved

\* gs is fs with line x at the end of a file; if x was nowhere, it is there once.
Grown(fs, gs, key, x, n, m, g, C, A) ==
    /\ FilesWell(gs, n, m, g)
    /\ x \notin A => Once(gs, C, A)
    /\ A = {x} => Once(gs, C \cup A, {})
    /\ \A y, e : Has(fs, y, e) => Has(gs, y, e)
    /\ DOMAIN gs = DOMAIN fs /\ Has(gs, x, key[1])
    /\ Len(gs[key]) = Len(fs[key]) + 1
    /\ \A k \in DOMAIN fs \ {key} : gs[k] = fs[k]

(* A line at the end of a file with room. *)
LEMMA AppendedFiles ==
    ASSUME NEW fs, NEW n \in Nat, NEW m \in Nat, NEW g, FilesWell(fs, n, m, g),
           NEW C, NEW A, Once(fs, C, A), NEW key \in DOMAIN fs, NEW x \in 1 .. n, x \notin C,
           Fits(fs, key, m, g), NEW gs, gs = WithFile(fs, key, Append(fs[key], x))
    PROVE  Grown(fs, gs, key, x, n, m, g, C, A)
<1> DEFINE s == fs[key]
           q == Append(s, x)
           last == Len(s) + 1
<1>1. DOMAIN gs = DOMAIN fs /\ gs[key] = q /\ \A k \in DOMAIN fs \ {key} : gs[k] = fs[k]
  BY Zenon DEF WithFile
<1>2. s \in Seq(1 .. n) /\ key \in Nat \X Nat
  BY Zenon DEF FilesWell
<1>3. /\ q \in Seq(1 .. n) /\ Len(s) \in Nat
      /\ Len(q) = Len(s) + 1 /\ DOMAIN q = DOMAIN s \cup {last}
      /\ last \notin DOMAIN s
      /\ q[last] = x /\ \A i \in DOMAIN s : q[i] = s[i]
  <2> DEFINE S == 1 .. n
  <2>1. s \in Seq(S) /\ x \in S /\ q = Append(s, x) /\ last = Len(s) + 1
    BY <1>2, Zenon
  <2> HIDE DEF S, s, q, last
  <2>2. /\ q \in Seq(S) /\ Len(s) \in Nat
        /\ Len(q) = Len(s) + 1 /\ DOMAIN q = DOMAIN s \cup {Len(s) + 1}
        /\ Len(s) + 1 \notin DOMAIN s
        /\ q[Len(s) + 1] = x /\ \A i \in DOMAIN s : q[i] = s[i]
    BY <2>1, OneMore
  <2> QED
    BY <2>1, <2>2, Zenon DEF S
<1>4. Len(s) + 1 <= kMaxLogFileBytes + m \/ key[1] \in g
  BY Zenon DEF Fits
<1> HIDE DEF q, last
<1>5. FilesWell(gs, n, m, g)
  <2> SUFFICES ASSUME NEW k \in DOMAIN gs
               PROVE  /\ k \in Nat \X Nat
                      /\ gs[k] \in Seq(1 .. n)
                      /\ Len(gs[k]) <= kMaxLogFileBytes + m \/ k[1] \in g
    BY Zenon DEF FilesWell
  <2>1. CASE k = key
    BY <1>1, <1>2, <1>3, <1>4, <2>1, Zenon
  <2>2. CASE k # key
    BY <1>1, <2>2, Zenon DEF FilesWell
  <2> QED
    BY <2>1, <2>2, Zenon
<1> HIDE DEF s
<1>6. /\ \A k, i, y : At(gs, k, i, y) => At(fs, k, i, y) \/ (k = key /\ i = last /\ y = x)
      /\ \A k, i, y : At(fs, k, i, y) => At(gs, k, i, y)
      /\ At(gs, key, last, x)
  <2>1. ASSUME NEW k, NEW i, NEW y, At(gs, k, i, y)
        PROVE  At(fs, k, i, y) \/ (k = key /\ i = last /\ y = x)
    BY <1>1, <1>3, <2>1, Zenon DEF s, At
  <2>2. ASSUME NEW k, NEW i, NEW y, At(fs, k, i, y) PROVE At(gs, k, i, y)
    BY <1>1, <1>3, <2>2, Zenon DEF s, At
  <2>3. At(gs, key, last, x)
    BY <1>1, <1>3, Zenon DEF At
  <2> QED
    BY <2>1, <2>2, <2>3, Zenon
<1>7. ASSUME x \notin A PROVE Once(gs, C, A)
  <2>1. ASSUME NEW k, NEW i, NEW y, At(gs, k, i, y) PROVE y \notin A
    BY <1>6, <1>7, <2>1, Zenon DEF Once
  <2>2. ASSUME NEW k, NEW l, NEW i, NEW j, NEW y, At(gs, k, i, y), At(gs, l, j, y), y \in C
        PROVE  k = l /\ i = j
    <3>1. At(fs, k, i, y) /\ At(fs, l, j, y)
      BY <1>6, <2>2, Zenon
    <3> QED
      BY <2>2, <3>1, Zenon DEF Once
  <2> QED
    BY <2>1, <2>2, Zenon DEF Once
<1>8. ASSUME A = {x} PROVE Once(gs, C \cup A, {})
  <2>1. ASSUME NEW k, NEW l, NEW i, NEW j, NEW y, At(gs, k, i, y), At(gs, l, j, y),
               y \in C \cup A
        PROVE  k = l /\ i = j
    <3>1. \A k1, i1 : ~At(fs, k1, i1, x)
      BY <1>8, Zenon DEF Once
    <3>2. CASE y = x
      BY <1>6, <2>1, <3>1, <3>2
    <3>3. CASE y # x
      <4>1. At(fs, k, i, y) /\ At(fs, l, j, y) /\ y \in C
        BY <1>6, <1>8, <2>1, <3>3
      <4> QED
        BY <4>1, Zenon DEF Once
    <3> QED
      BY <3>2, <3>3, Zenon
  <2> QED
    BY <2>1, Zenon DEF Once
<1>9. \A y, e : Has(fs, y, e) => Has(gs, y, e)
  BY <1>6, Zenon DEF Has
<1>10. Has(gs, x, key[1])
  BY <1>6, Zenon DEF Has
<1> QED
  BY <1>1, <1>3, <1>5, <1>7, <1>8, <1>9, <1>10, Zenon DEF s, Grown

-----------------------------------------------------------------------------
(* Keeping is reflexive and transitive. *)
LEMMA KeepsSelf == \A w : Keeps(w, w)
BY Zenon DEF Keeps

\* Two steps in a row.
LEMMA KeepsTrans ==
    ASSUME NEW w, NEW o, NEW z, Keeps(w, o), Keeps(o, z)
    PROVE  Keeps(w, z)
<1>1. w.overgrown \subseteq z.overgrown /\ w.clobbered \subseteq z.clobbered
  BY Zenon DEF Keeps
<1>2. ASSUME NEW n, NEW d, Has(w.files, n, d), d \notin z.clobbered PROVE Has(z.files, n, d)
  <2>1. d \notin o.clobbered
    BY <1>2, Zenon DEF Keeps
  <2> QED
    BY <1>2, <2>1, Zenon DEF Keeps
<1> QED
  BY <1>1, <1>2, Zenon DEF Keeps

\* The Logger with no file open.
Shut(l) == [toFile |-> FALSE, date |-> l.date, linked |-> l.linked, bytes |-> l.bytes,
            stuck |-> 0]

(* A Logger that closes its file. *)
LEMMA LoggerShut ==
    ASSUME NEW l, IsLogger(l)
    PROVE  /\ [[l EXCEPT !.toFile = FALSE] EXCEPT !.stuck = 0] = Shut(l)
           /\ IsLogger(Shut(l))
<1>1. PICK a, b, c, d, e :
        l = [toFile |-> a, date |-> b, linked |-> c, bytes |-> d, stuck |-> e]
  BY Zenon DEF IsLogger
<1>2. l.date = b /\ l.linked = c /\ l.bytes = d
  BY <1>1
<1>3. ASSUME NEW u, NEW v
      PROVE  [[l EXCEPT !.toFile = u] EXCEPT !.stuck = v] =
               [toFile |-> u, date |-> b, linked |-> c, bytes |-> d, stuck |-> v]
  <2> DEFINE k == [l EXCEPT !.toFile = u]
  <2>1. k = [toFile |-> u, date |-> b, linked |-> c, bytes |-> d, stuck |-> e]
    BY <1>1
  <2> HIDE DEF k
  <2>2. [k EXCEPT !.stuck = v] =
          [toFile |-> u, date |-> b, linked |-> c, bytes |-> d, stuck |-> v]
    BY <2>1
  <2> QED
    BY <2>2, Zenon DEF k
<1>4. [[l EXCEPT !.toFile = FALSE] EXCEPT !.stuck = 0] = Shut(l)
  BY <1>2, <1>3, Zenon DEF Shut
<1>5. IsLogger(Shut(l))
  BY DEF IsLogger, Shut
<1> QED
  BY <1>4, <1>5, Zenon

(* A world with another Logger. *)
LEMMA WithLogger ==
    ASSUME NEW w, IsWorld(w), NEW l, IsLogger(l), NEW o, o = [w EXCEPT !.lg = l]
    PROVE  /\ IsWorld(o) /\ o.lg = l /\ o.files = w.files
           /\ o.overgrown = w.overgrown /\ o.clobbered = w.clobbered
<1>1. o = [dirs |-> w.dirs, files |-> w.files, lg |-> l,
           overgrown |-> w.overgrown, clobbered |-> w.clobbered]
  BY Zenon DEF IsWorld
<1> QED
  BY <1>1 DEF IsWorld

\* o is w with another byte count and another line held by the stream.
Alike(w, o, bytes, stuck) ==
    /\ IsWorld(o) /\ o.files = w.files
    /\ o.overgrown = w.overgrown /\ o.clobbered = w.clobbered
    /\ o.lg.toFile = w.lg.toFile /\ o.lg.date = w.lg.date /\ o.lg.linked = w.lg.linked
    /\ o.lg.bytes = bytes /\ o.lg.stuck = stuck

(* A Logger built from the fields of another. *)
LEMMA AlikeFields ==
    ASSUME NEW w, IsWorld(w), NEW b \in Nat, NEW s \in Nat, s # 0 => w.lg.toFile,
           NEW l, l = [toFile |-> w.lg.toFile, date |-> w.lg.date, linked |-> w.lg.linked,
                       bytes |-> b, stuck |-> s],
           NEW o, o = [w EXCEPT !.lg = l]
    PROVE  Alike(w, o, b, s)
<1>1. /\ l.toFile = w.lg.toFile /\ l.date = w.lg.date /\ l.linked = w.lg.linked
      /\ l.bytes = b /\ l.stuck = s
  OBVIOUS
<1>2. IsLogger(w.lg)
  BY Zenon DEF IsWorld
<1>3. IsLogger(l)
  BY <1>1, <1>2, Zenon DEF IsLogger
<1>4. /\ IsWorld(o) /\ o.lg = l /\ o.files = w.files
      /\ o.overgrown = w.overgrown /\ o.clobbered = w.clobbered
  BY <1>3, WithLogger
<1> QED
  BY <1>1, <1>4, Zenon DEF Alike

(* The byte count changes. *)
LEMMA SetBytes ==
    ASSUME NEW w, IsWorld(w), NEW v \in Nat,
           NEW o, o = [w EXCEPT !.lg = [w.lg EXCEPT !.bytes = v]]
    PROVE  Alike(w, o, v, w.lg.stuck)
<1> DEFINE l == [w.lg EXCEPT !.bytes = v]
<1>1. PICK a, b, c, d, e :
        w.lg = [toFile |-> a, date |-> b, linked |-> c, bytes |-> d, stuck |-> e]
  BY Zenon DEF IsWorld, IsLogger
<1>2. w.lg.toFile = a /\ w.lg.date = b /\ w.lg.linked = c /\ w.lg.stuck = e
  BY <1>1
<1>3. l = [toFile |-> a, date |-> b, linked |-> c, bytes |-> v, stuck |-> e]
  BY <1>1
<1>4. o = [w EXCEPT !.lg = l]
  OBVIOUS
<1> HIDE DEF l
<1>5. l = [toFile |-> w.lg.toFile, date |-> w.lg.date, linked |-> w.lg.linked,
           bytes |-> v, stuck |-> w.lg.stuck]
  BY <1>2, <1>3, Zenon
<1>6. w.lg.stuck \in Nat /\ (w.lg.stuck # 0 => w.lg.toFile)
  BY Zenon DEF IsWorld, IsLogger
<1> QED
  BY <1>4, <1>5, <1>6, AlikeFields, Zenon

\* A Logger with another line held by its stream,
LEMMA StuckField ==
    ASSUME NEW l, IsLogger(l), NEW v
    PROVE  [l EXCEPT !.stuck = v] =
             [toFile |-> l.toFile, date |-> l.date, linked |-> l.linked, bytes |-> l.bytes,
              stuck |-> v]
<1>1. PICK a, b, c, d, e :
        l = [toFile |-> a, date |-> b, linked |-> c, bytes |-> d, stuck |-> e]
  BY Zenon DEF IsLogger
<1>2. l.toFile = a /\ l.date = b /\ l.linked = c /\ l.bytes = d
  BY <1>1
<1>3. [l EXCEPT !.stuck = v] =
        [toFile |-> a, date |-> b, linked |-> c, bytes |-> d, stuck |-> v]
  BY <1>1
<1> QED
  BY <1>2, <1>3, Zenon

\* and the world with it.
LEMMA SetStuck ==
    ASSUME NEW w, IsWorld(w), w.lg.toFile, NEW v \in Nat,
           NEW o, o = [w EXCEPT !.lg = [w.lg EXCEPT !.stuck = v]]
    PROVE  Alike(w, o, w.lg.bytes, v)
<1> DEFINE l == [w.lg EXCEPT !.stuck = v]
<1>1. IsLogger(w.lg)
  BY Zenon DEF IsWorld
<1>4. o = [w EXCEPT !.lg = l]
  OBVIOUS
<1>5. l = [toFile |-> w.lg.toFile, date |-> w.lg.date, linked |-> w.lg.linked,
           bytes |-> w.lg.bytes, stuck |-> v]
  BY <1>1, StuckField, Zenon
<1> HIDE DEF l
<1>6. w.lg.bytes \in Nat
  BY Zenon DEF IsWorld, IsLogger
<1> QED
  BY <1>4, <1>5, <1>6, AlikeFields, Zenon

\* Line x was appended to the open file of w.
Appends(w, o, n, m, C, A, x) ==
    /\ IsWorld(o) /\ o.lg = w.lg
    /\ o.overgrown = w.overgrown /\ o.clobbered = w.clobbered
    /\ FilesWell(o.files, n, m, o.overgrown)
    /\ x \notin A => Once(o.files, C, A)
    /\ A = {x} => Once(o.files, C \cup A, {})
    /\ Keeps(w, o)
    /\ DOMAIN o.files = DOMAIN w.files
    /\ w.lg.linked => /\ Has(o.files, x, w.lg.date)
                      /\ Len(o.files[<<w.lg.date, 0>>]) = Len(w.files[<<w.lg.date, 0>>]) + 1
    /\ ~w.lg.linked => o.files = w.files
    /\ \A k \in DOMAIN w.files : k # <<w.lg.date, 0>> => o.files[k] = w.files[k]

(* A line goes to the open file, which has room for it. *)
LEMMA AppendGood ==
    ASSUME NEW w, NEW n \in Nat, NEW m \in Nat, NEW C, NEW A, Good(w, n, m, C, A),
           w.lg.toFile, NEW x \in 1 .. n, x \notin C,
           w.lg.linked => Fits(w.files, <<w.lg.date, 0>>, m, w.overgrown),
           NEW o, o = appended(w, x)
    PROVE  Appends(w, o, n, m, C, A, x)
<1>w. /\ IsWorld(w) /\ FilesWell(w.files, n, m, w.overgrown) /\ Once(w.files, C, A)
      /\ Counted(w)
  BY Zenon DEF Good
<1>1. CASE ~w.lg.linked
  <2>1. o = w
    BY <1>1, Zenon DEF appended
  <2>2. A = {x} => Once(o.files, C \cup A, {})
    BY <1>w, <2>1, OnceWeakens, Zenon
  <2> QED
    BY <1>1, <1>w, <2>1, <2>2, KeepsSelf, Zenon DEF Appends
<1>2. CASE w.lg.linked
  <2> DEFINE key == <<w.lg.date, 0>>
  <2>1. key \in DOMAIN w.files /\ key[1] = w.lg.date
    BY <1>2, <1>w, Zenon DEF Counted
  <2>2. Existing(w, w.lg.date) = w.files[key]
    BY <2>1, Zenon DEF Existing
  <2> DEFINE gs == WithFile(w.files, key, Append(w.files[key], x))
  <2>3. o = [w EXCEPT !.files = gs]
    BY <1>2, <2>2, Zenon DEF appended
  <2>4. Fits(w.files, key, m, w.overgrown)
    BY <1>2
  <2> HIDE DEF key
  <2>5. gs = WithFile(w.files, key, Append(w.files[key], x))
    OBVIOUS
  <2> HIDE DEF gs
  <2>10. Grown(w.files, gs, key, x, n, m, w.overgrown, C, A)
    BY <1>w, <2>1, <2>4, <2>5, AppendedFiles, Zenon
  <2>6. o = [dirs |-> w.dirs, files |-> gs, lg |-> w.lg,
             overgrown |-> w.overgrown, clobbered |-> w.clobbered]
    BY <1>w, <2>3, Zenon DEF IsWorld
  <2>7. /\ IsWorld(o) /\ o.files = gs /\ o.lg = w.lg
        /\ o.overgrown = w.overgrown /\ o.clobbered = w.clobbered
    BY <1>w, <2>6 DEF IsWorld
  <2>8. Keeps(w, o)
    BY <2>7, <2>10, Zenon DEF Keeps, Grown
  <2>9. \A k \in DOMAIN w.files : k # <<w.lg.date, 0>> => o.files[k] = w.files[k]
    BY <2>7, <2>10, Zenon DEF key, Grown
  <2> QED
    BY <1>2, <2>1, <2>7, <2>8, <2>9, <2>10, Zenon DEF Appends, Grown, key
<1> QED
  BY <1>1, <1>2, Zenon

\* The file of w was closed.
Closes(w, o, n, m, C, A) ==
    /\ Good(o, n, m, C, A) /\ Keeps(w, o)
    /\ o.overgrown = w.overgrown /\ o.clobbered = w.clobbered
    /\ o.lg.toFile = FALSE /\ o.lg.stuck = 0
    /\ o.lg.date = w.lg.date /\ o.lg.linked = w.lg.linked
    /\ DOMAIN o.files = DOMAIN w.files
    /\ \A k \in DOMAIN w.files : k # <<w.lg.date, 0>> => o.files[k] = w.files[k]
    /\ \A k \in DOMAIN w.files : Len(o.files[k]) <= Len(w.files[k]) + 1

(* _file.close(): a line held by the stream finds room. *)
LEMMA CloseGood ==
    ASSUME NEW w, NEW n \in Nat, NEW m \in Nat, NEW C, NEW A, Good(w, n, m, C, A),
           NEW late, 0 \notin late, NEW o, o = closed(w, late)
    PROVE  Closes(w, o, n, m, C, A)
<1>w. /\ IsWorld(w) /\ FilesWell(w.files, n, m, w.overgrown) /\ Once(w.files, C, A)
      /\ Counted(w) /\ Holding(w, n, m, C, A) /\ IsLogger(w.lg)
  BY Zenon DEF Good, IsWorld
<1> DEFINE out == IF w.lg.stuck \in late THEN appended(w, w.lg.stuck) ELSE w
           l == Shut(w.lg)
<1>1. /\ IsWorld(out) /\ out.lg = w.lg
      /\ out.overgrown = w.overgrown /\ out.clobbered = w.clobbered
      /\ FilesWell(out.files, n, m, w.overgrown) /\ Once(out.files, C, A)
      /\ Keeps(w, out)
      /\ DOMAIN out.files = DOMAIN w.files
      /\ \A k \in DOMAIN w.files : k # <<w.lg.date, 0>> => out.files[k] = w.files[k]
      /\ \A k \in DOMAIN w.files : Len(out.files[k]) <= Len(w.files[k]) + 1
  <2>0. \A k \in DOMAIN w.files : Len(w.files[k]) \in Nat
    BY <1>w, OneFile, Zenon
  <2>1. CASE w.lg.stuck \in late
    <3>1. w.lg.stuck # 0
      BY <2>1
    <3>2. /\ w.lg.toFile /\ w.lg.stuck \in 1 .. n /\ w.lg.stuck \notin C /\ w.lg.stuck \notin A
          /\ w.lg.linked => Fits(w.files, <<w.lg.date, 0>>, m, w.overgrown)
      BY <1>w, <3>1, Zenon DEF Holding, IsLogger
    <3>3. out = appended(w, w.lg.stuck)
      BY <2>1
    <3> HIDE DEF out
    <3>4. Appends(w, out, n, m, C, A, w.lg.stuck)
      BY <3>2, <3>3, AppendGood, Zenon
    <3>5. ASSUME NEW k \in DOMAIN w.files PROVE Len(out.files[k]) <= Len(w.files[k]) + 1
      <4>1. out.files[k] = w.files[k] \/ Len(out.files[k]) = Len(w.files[k]) + 1
        BY <3>4, Zenon DEF Appends
      <4>2. Len(w.files[k]) \in Nat
        BY <2>0
      <4> DEFINE a == Len(out.files[k])
                 b == Len(w.files[k])
      <4>3. a = b \/ a = b + 1
        BY <4>1, Zenon
      <4>4. b \in Nat
        BY <4>2
      <4> HIDE DEF a, b
      <4>5. a <= b + 1
        BY <4>3, <4>4
      <4> QED
        BY <4>5 DEF a, b
    <3> QED
      BY <3>2, <3>4, <3>5, Zenon DEF Appends
  <2>2. CASE w.lg.stuck \notin late
    <3>1. out = w
      BY <2>2
    <3> HIDE DEF out
    <3>2. \A b \in Nat : b <= b + 1
      OBVIOUS
    <3> QED
      BY <1>w, <2>0, <3>1, <3>2, KeepsSelf, Zenon
  <2> QED
    BY <2>1, <2>2, Zenon
<1>2. o = [out EXCEPT !.lg = [[out.lg EXCEPT !.toFile = FALSE] EXCEPT !.stuck = 0]]
  BY DEF closed
<1> HIDE DEF out
<1>3. o = [out EXCEPT !.lg = l] /\ IsLogger(l)
  BY <1>1, <1>2, <1>w, LoggerShut, Zenon
<1> HIDE DEF l
<1>4. /\ IsWorld(o) /\ o.lg = l /\ o.files = out.files
      /\ o.overgrown = w.overgrown /\ o.clobbered = w.clobbered
  BY <1>1, <1>3, WithLogger
<1>5. l.toFile = FALSE /\ l.stuck = 0 /\ l.date = w.lg.date /\ l.linked = w.lg.linked
  BY DEF l, Shut
<1>6. Counted(o) /\ Holding(o, n, m, C, A)
  BY <1>4, <1>5 DEF Counted, Holding
<1>7. Good(o, n, m, C, A)
  BY <1>1, <1>4, <1>6, Zenon DEF Good
<1>8. Keeps(w, o)
  BY <1>1, <1>4, Zenon DEF Keeps
<1> QED
  BY <1>1, <1>4, <1>5, <1>7, <1>8, Zenon DEF Closes

\* The file of d was opened, or could not be; c is w with its file closed.
Opens(w, c, o, d, how, n, m, C, A) ==
    /\ Good(o, n, m, C, A) /\ Keeps(w, o) /\ o.clobbered = w.clobbered
    /\ how \in Opened =>
          /\ o.lg.toFile = TRUE /\ o.lg.date = d /\ o.lg.linked = TRUE /\ o.lg.stuck = 0
          /\ <<d, 0>> \in DOMAIN o.files /\ o.files[<<d, 0>>] = Existing(c, d)
          /\ o.lg.bytes = Len(Existing(c, d)) \/ o.lg.bytes = 0
    /\ how \notin Opened => o.lg = w.lg /\ o.files = w.files /\ o.overgrown = w.overgrown

(* openForDateLocked(): the byte count covers the file, or the size could not be read. *)
LEMMA OpenGood ==
    ASSUME NEW w, NEW n \in Nat, NEW m \in Nat, NEW C, NEW A, Good(w, n, m, C, A),
           NEW d \in Nat \ {0}, NEW how \in Opening, NEW late, 0 \notin late,
           NEW o, o = openForDate(w, d, how, late)
    PROVE  Opens(w, closed(w, late), o, d, how, n, m, C, A)
<1>w. IsWorld(w)
  BY Zenon DEF Good
<1>1. CASE how = "dir"
  <2>2. how \notin Opened /\ how # "file"
    BY <1>1 DEF Opened
  <2>1. o = w
    BY <1>1, <2>2, Zenon DEF openForDate
  <2> QED
    BY <2>1, <2>2, KeepsSelf, Zenon DEF Opens
<1>2. CASE how = "file"
  <2>1. o = [w EXCEPT !.dirs = w.dirs \cup {d}]
    <3>1. how # "dir" /\ how \notin Opened
      BY <1>2 DEF Opened
    <3> QED
      BY <1>2, <3>1, Zenon DEF openForDate
  <2>2. o = [dirs |-> w.dirs \cup {d}, files |-> w.files, lg |-> w.lg,
             overgrown |-> w.overgrown, clobbered |-> w.clobbered]
    BY <1>w, <2>1, Zenon DEF IsWorld
  <2>3. /\ IsWorld(o) /\ o.files = w.files /\ o.lg = w.lg
        /\ o.overgrown = w.overgrown /\ o.clobbered = w.clobbered
    BY <1>w, <2>2 DEF IsWorld
  <2>4. Good(o, n, m, C, A) /\ Keeps(w, o)
    BY <2>3, Zenon DEF Good, Keeps, Counted, Holding
  <2>5. how \notin Opened
    BY <1>2 DEF Opened
  <2> QED
    BY <2>3, <2>4, <2>5, Zenon DEF Opens
<1>3. CASE how \in Opened
  <2> DEFINE c == closed(w, late)
             old == Existing(c, d)
             gs == WithFile(c.files, <<d, 0>>, old)
             g == IF how = "size" /\ old # <<>> THEN w.overgrown \cup {d} ELSE w.overgrown
             l == [toFile |-> TRUE, date |-> d, linked |-> TRUE,
                   bytes |-> existingSize(c, d, how), stuck |-> 0]
  <2>1. o = [dirs |-> w.dirs \cup {d}, files |-> gs, lg |-> l,
             overgrown |-> g, clobbered |-> w.clobbered]
    <3>1. how # "dir" /\ how # "file"
      BY <1>3 DEF Opened
    <3> QED
      BY <1>3, <3>1, Zenon DEF openForDate
  <2>2. Closes(w, c, n, m, C, A)
    BY CloseGood, Zenon
  <2>3. old = IF <<d, 0>> \in DOMAIN c.files THEN c.files[<<d, 0>>] ELSE <<>>
    BY Zenon DEF Existing
  <2>4. existingSize(c, d, how) = IF how = "size" THEN 0 ELSE Len(old)
    BY Zenon DEF existingSize
  <2>5. gs = WithFile(c.files, <<d, 0>>, old)
    OBVIOUS
  <2> HIDE DEF c, old, gs
  <2>6. /\ FilesWell(c.files, n, m, w.overgrown) /\ Once(c.files, C, A)
        /\ Keeps(w, c) /\ c.clobbered = w.clobbered /\ d \in Nat
    BY <2>2, Zenon DEF Closes, Good
  <2>7. /\ FilesWell(gs, n, m, w.overgrown) /\ Once(gs, C, A)
        /\ \A x, e : Has(c.files, x, e) => Has(gs, x, e)
        /\ <<d, 0>> \in DOMAIN gs /\ gs[<<d, 0>>] = old /\ Len(old) \in Nat
    <3>1. Continued(c.files, gs, d, old, n, m, w.overgrown, C, A)
      BY <2>3, <2>5, <2>6, OpenedFiles, Zenon
    <3> QED
      BY <3>1, Zenon DEF Continued
  <2>8. /\ w.overgrown \subseteq g
        /\ how = "size" => old = <<>> \/ d \in g
    BY Zenon
  <2>9. l.bytes \in Nat /\ (l.bytes = 0 \/ l.bytes = Len(old))
        /\ (Len(old) <= l.bytes \/ d \in g)
    <3>1. l.bytes = IF how = "size" THEN 0 ELSE Len(old)
      BY <2>4
    <3>2. Len(<<>>) = 0
      OBVIOUS
    <3>3. how = "size" => Len(old) = 0 \/ d \in g
      BY <2>8, <3>2, Zenon
    <3> HIDE DEF g, l
    <3> DEFINE len == Len(old)
    <3>4. len \in Nat /\ l.bytes = (IF how = "size" THEN 0 ELSE len)
          /\ (how = "size" => len = 0 \/ d \in g)
      BY <2>7, <3>1, <3>3, Zenon
    <3> HIDE DEF len
    <3>5. l.bytes \in Nat /\ (l.bytes = 0 \/ l.bytes = len) /\ (len <= l.bytes \/ d \in g)
      BY <3>4
    <3> QED
      BY <3>5 DEF len
  <2>10. /\ l.toFile = TRUE /\ l.date = d /\ l.linked = TRUE /\ l.stuck = 0
         /\ l = [toFile |-> l.toFile, date |-> l.date, linked |-> l.linked,
                 bytes |-> l.bytes, stuck |-> l.stuck]
    OBVIOUS
  <2> HIDE DEF l, g
  <2>11. IsLogger(l)
    <3>1. d \in Nat /\ d # 0 /\ 0 \in Nat
      OBVIOUS
    <3>2. IsLogger(l) <=> /\ l.toFile \in BOOLEAN /\ l.date \in Nat /\ l.linked \in BOOLEAN
                          /\ l.bytes \in Nat /\ l.stuck \in Nat
                          /\ l.stuck # 0 => l.toFile
                          /\ l.toFile => l.date # 0
      BY <2>10, Zenon DEF IsLogger
    <3> QED
      BY <2>9, <2>10, <3>1, <3>2, Zenon
  <2>12. /\ IsWorld(o) /\ o.files = gs /\ o.lg = l /\ o.overgrown = g
         /\ o.clobbered = w.clobbered
    BY <2>1, <2>11 DEF IsWorld
  <2>13. FilesWell(gs, n, m, g)
    <3>1. n <= n /\ m <= m
      OBVIOUS
    <3> QED
      BY <2>7, <2>8, <3>1, WellWeakens, Zenon
  <2>14. Counted(o) /\ Holding(o, n, m, C, A)
    <3>1. o.lg.stuck = 0 /\ o.lg.linked /\ o.lg.date = d /\ <<d, 0>> \in DOMAIN o.files
      BY <2>7, <2>10, <2>12
    <3>2. Len(o.files[<<d, 0>>]) <= o.lg.bytes \/ d \in o.overgrown
      BY <2>7, <2>9, <2>12, Zenon
    <3>3. Counted(o)
      BY <3>1, <3>2, Zenon DEF Counted
    <3> QED
      BY <3>1, <3>3, Zenon DEF Holding
  <2>15. Good(o, n, m, C, A)
    BY <2>7, <2>12, <2>13, <2>14, Zenon DEF Good
  <2>16. Keeps(w, o)
    <3>1. Keeps(c, o)
      <4>1. c.overgrown = w.overgrown
        BY <2>2, Zenon DEF Closes
      <4> QED
        BY <2>6, <2>7, <2>8, <2>12, <4>1, Zenon DEF Keeps
    <3> QED
      BY <2>6, <3>1, KeepsTrans, Zenon
  <2> QED
    BY <1>3, <2>7, <2>9, <2>10, <2>12, <2>15, <2>16, Zenon DEF Opens, c, old
<1> QED
  BY <1>1, <1>2, <1>3, Zenon DEF Opening

\* The file of w was rotated: the one of the same date is open and counted from nothing, or
\* none is.
Rotates(w, o, f, n, m, C, A) ==
    /\ Good(o, n, m, C, A) /\ Keeps(w, o)
    /\ o.lg.date = w.lg.date /\ o.lg.stuck = 0
    /\ f.reopen \in Opened => o.lg.toFile = TRUE /\ o.lg.linked = TRUE /\ o.lg.bytes = 0
    /\ f.reopen \notin Opened => o.lg.toFile = FALSE

(* The file that is open after a rename starts empty. *)
LEMMA ReopenMoved ==
    ASSUME NEW w, NEW n \in Nat, NEW m \in Nat, NEW C, NEW A, Good(w, n, m, C, A),
           w.lg.toFile = FALSE, NEW d \in Nat \ {0}, w.lg.date = d, <<d, 0>> \notin DOMAIN w.files,
           NEW f \in Trouble, NEW o, o = openForDate(w, d, f.reopen, {})
    PROVE  Rotates(w, o, f, n, m, C, A)
<1> DEFINE c == closed(w, {})
<1>1. f.reopen \in Opening
  BY NamedFaults
<1>2. Closes(w, c, n, m, C, A)
  BY CloseGood, Zenon
<1>3. Opens(w, c, o, d, f.reopen, n, m, C, A)
  BY <1>1, OpenGood, Zenon
<1> HIDE DEF c
<1>4. Existing(c, d) = <<>>
  BY <1>2, Zenon DEF Closes, Existing
<1>5. Len(<<>>) = 0
  OBVIOUS
<1>6. f.reopen \in Opened => o.lg.bytes = 0
  BY <1>3, <1>4, <1>5, Zenon DEF Opens
<1>7. w.lg.stuck = 0
  BY Zenon DEF Good, IsWorld, IsLogger
<1> QED
  BY <1>3, <1>6, <1>7, Zenon DEF Opens, Rotates

(* The counter is set back: the file is empty, or its date is overgrown. *)
LEMMA ReopenKept ==
    ASSUME NEW w, NEW n \in Nat, NEW m \in Nat, NEW C, NEW A, Good(w, n, m, C, A),
           w.lg.toFile = FALSE, NEW d \in Nat \ {0}, w.lg.date = d,
           <<d, 0>> \in DOMAIN w.files => d \in w.overgrown,
           NEW f \in Trouble, NEW y, y = openForDate(w, d, f.reopen, {}),
           NEW o, o = [y EXCEPT !.lg = [y.lg EXCEPT !.bytes = 0]]
    PROVE  Rotates(w, o, f, n, m, C, A)
<1> DEFINE c == closed(w, {})
<1>1. f.reopen \in Opening
  BY NamedFaults
<1>2. Closes(w, c, n, m, C, A)
  BY CloseGood, Zenon
<1>3. Opens(w, c, y, d, f.reopen, n, m, C, A)
  BY <1>1, OpenGood, Zenon
<1> HIDE DEF c
<1>4. w.lg.stuck = 0
  BY Zenon DEF Good, IsWorld, IsLogger
<1>5. IsWorld(y) /\ IsLogger(y.lg) /\ y.lg.date = d /\ y.lg.stuck = 0
  BY <1>3, <1>4, Zenon DEF Opens, Good, IsWorld
<1>7. Alike(y, o, 0, y.lg.stuck)
  <2>1. 0 \in Nat
    OBVIOUS
  <2> QED
    BY <1>5, <2>1, SetBytes, Zenon
<1>8. /\ IsWorld(o) /\ o.files = y.files
      /\ o.overgrown = y.overgrown /\ o.clobbered = y.clobbered
      /\ o.lg.toFile = y.lg.toFile /\ o.lg.date = d /\ o.lg.linked = y.lg.linked
      /\ o.lg.bytes = 0 /\ o.lg.stuck = 0
  BY <1>5, <1>7, Zenon DEF Alike
<1>9. CASE f.reopen \in Opened
  <2>1. /\ y.lg.toFile = TRUE /\ y.lg.linked = TRUE /\ <<d, 0>> \in DOMAIN y.files
        /\ y.files[<<d, 0>>] = Existing(c, d)
    BY <1>3, <1>9, Zenon DEF Opens
  <2>2. Len(y.files[<<d, 0>>]) <= 0 \/ d \in y.overgrown
    <3>1. CASE <<d, 0>> \in DOMAIN w.files
      BY <1>3, <3>1, Zenon DEF Opens, Keeps
    <3>2. CASE <<d, 0>> \notin DOMAIN w.files
      <4>1. Existing(c, d) = <<>>
        BY <1>2, <3>2, Zenon DEF Closes, Existing
      <4>2. Len(<<>>) <= 0
        OBVIOUS
      <4> QED
        BY <2>1, <4>1, <4>2, Zenon
    <3> QED
      BY <3>1, <3>2, Zenon
  <2>3. Counted(o) /\ Holding(o, n, m, C, A)
    BY <1>8, <2>1, <2>2, Zenon DEF Counted, Holding
  <2>4. Good(o, n, m, C, A)
    BY <1>3, <1>8, <2>3, Zenon DEF Good, Opens
  <2>5. Keeps(w, o)
    BY <1>3, <1>8, Zenon DEF Opens, Keeps
  <2> QED
    BY <1>8, <1>9, <2>1, <2>4, <2>5, Zenon DEF Rotates
<1>10. CASE f.reopen \notin Opened
  <2>1. y.lg.toFile = FALSE
    BY <1>3, <1>10, Zenon DEF Opens
  <2>2. Counted(o) /\ Holding(o, n, m, C, A)
    BY <1>8, <2>1, Zenon DEF Counted, Holding
  <2>3. Good(o, n, m, C, A)
    BY <1>3, <1>8, <2>2, Zenon DEF Good, Opens
  <2>4. Keeps(w, o)
    BY <1>3, <1>8, Zenon DEF Opens, Keeps
  <2> QED
    BY <1>8, <1>10, <2>1, <2>3, <2>4, Zenon DEF Rotates
<1> QED
  BY <1>9, <1>10, Zenon

(* rotateLocked(): the rename takes a free name, or one whose exists() failed. *)
LEMMA RotateGood ==
    ASSUME NEW w, NEW n \in Nat, NEW m \in Nat, NEW C, NEW A, Good(w, n, m, C, A),
           w.lg.toFile, NEW f \in Trouble, NEW late, 0 \notin late,
           NEW o, o = rotate(w, f, late)
    PROVE  Rotates(w, o, f, n, m, C, A)
<1> DEFINE d == w.lg.date
           c == closed(w, late)
           pick == CHOOSE i \in Target(c, d, f.probe) : TRUE
           cl == IF pick = f.probe /\ Taken(c, d, pick) THEN c.clobbered \cup {d}
                 ELSE c.clobbered
           moved == [c EXCEPT !.files = renamed(c.files, d, pick), !.clobbered = cl]
           kept == IF w.lg.linked THEN [c EXCEPT !.overgrown = c.overgrown \cup {d}] ELSE c
           goes == Target(c, d, f.probe) # {} /\ w.lg.linked /\ f.rename = "ok"
<1>w. IsWorld(w) /\ Counted(w) /\ IsLogger(w.lg)
  BY Zenon DEF Good, IsWorld
<1>d. d \in Nat \ {0} /\ d \in Nat
  BY <1>w DEF IsLogger
<1>c. Closes(w, c, n, m, C, A)
  BY CloseGood, Zenon
<1>g. /\ Good(c, n, m, C, A) /\ IsWorld(c) /\ Keeps(w, c) /\ c.lg.toFile = FALSE
      /\ c.lg.date = d /\ c.overgrown = w.overgrown /\ c.clobbered = w.clobbered
      /\ c.lg.stuck = 0
      /\ w.lg.linked <=> <<d, 0>> \in DOMAIN c.files
  BY <1>c, <1>w, Zenon DEF Closes, Good, Counted
<1>r. o = IF goes THEN openForDate(moved, d, f.reopen, {})
          ELSE [openForDate(kept, d, f.reopen, {}) EXCEPT !.lg = [@ EXCEPT !.bytes = 0]]
  BY Zenon DEF rotate
<1> HIDE DEF c
<1>1. CASE goes
  <2>1. pick \in Target(c, d, f.probe)
    BY <1>1
  <2>t. pick = CHOOSE i \in Target(c, d, f.probe) : TRUE
    OBVIOUS
  <2> HIDE DEF pick
  <2>2. pick \in Nat \ {0} /\ (pick = f.probe \/ <<d, pick>> \notin DOMAIN c.files)
    BY <2>1, LoggerAssumption DEF Target, Taken
  <2>3. <<d, 0>> \in DOMAIN c.files
    BY <1>1, <1>g, Zenon
  <2> DEFINE gs == renamed(c.files, d, pick)
  <2>e. gs = renamed(c.files, d, pick)
    OBVIOUS
  <2> HIDE DEF gs
  <2>4. Moved(c.files, gs, d, pick, n, m, c.overgrown, C, A)
    <3>1. FilesWell(c.files, n, m, c.overgrown) /\ Once(c.files, C, A)
      BY <1>g, Zenon DEF Good
    <3> QED
      BY <1>d, <2>2, <2>3, <2>e, <3>1, RenamedFiles, Zenon
  <2>5. cl = c.clobbered \cup {d} \/ (cl = c.clobbered /\ <<d, pick>> \notin DOMAIN c.files)
    BY <2>2, Zenon DEF Taken
  <2> HIDE DEF cl
  <2>6. moved = [dirs |-> c.dirs, files |-> gs, lg |-> c.lg,
                 overgrown |-> c.overgrown, clobbered |-> cl]
    <3>1. c = [dirs |-> c.dirs, files |-> c.files, lg |-> c.lg,
               overgrown |-> c.overgrown, clobbered |-> c.clobbered]
      BY <1>g, Zenon DEF IsWorld
    <3>2. PICK p, q, r, s, t :
            c = [dirs |-> p, files |-> q, lg |-> r, overgrown |-> s, clobbered |-> t]
      BY <3>1, Zenon
    <3>3. c.dirs = p /\ c.lg = r /\ c.overgrown = s
      BY <3>2
    <3> DEFINE k == [c EXCEPT !.files = renamed(c.files, d, pick)]
    <3>5. k = [dirs |-> p, files |-> gs, lg |-> r, overgrown |-> s, clobbered |-> t]
      BY <2>e, <3>2
    <3>6. moved = [k EXCEPT !.clobbered = cl]
      OBVIOUS
    <3> HIDE DEF k
    <3>4. moved = [dirs |-> p, files |-> gs, lg |-> r, overgrown |-> s, clobbered |-> cl]
      BY <3>5, <3>6
    <3> QED
      BY <3>3, <3>4, Zenon
  <2> HIDE DEF moved
  <2>7. /\ IsWorld(moved) /\ moved.files = gs /\ moved.lg = c.lg
        /\ moved.overgrown = c.overgrown /\ moved.clobbered = cl
    BY <1>g, <2>6 DEF IsWorld
  <2>8. Good(moved, n, m, C, A)
    BY <1>g, <2>4, <2>7, Zenon DEF Good, Moved, Counted, Holding
  <2>9. Keeps(c, moved)
    <3>1. c.clobbered \subseteq cl
      BY <2>5
    <3>2. ASSUME NEW x, NEW e, Has(c.files, x, e), e \notin cl PROVE Has(gs, x, e)
      <4>1. e # d \/ <<d, pick>> \notin DOMAIN c.files
        BY <2>5, <3>2
      <4> QED
        BY <2>4, <3>2, <4>1, Zenon DEF Moved
    <3> QED
      BY <2>7, <3>1, <3>2, Zenon DEF Keeps
  <2>10. o = openForDate(moved, d, f.reopen, {})
    BY <1>1, <1>r, Zenon DEF moved
  <2>11. Rotates(moved, o, f, n, m, C, A)
    <3>1. <<d, 0>> \notin DOMAIN moved.files
      BY <2>4, <2>7, Zenon DEF Moved
    <3>2. moved.lg.toFile = FALSE /\ moved.lg.date = d
      BY <1>g, <2>7, Zenon
    <3> QED
      BY <1>d, <2>8, <2>10, <3>1, <3>2, ReopenMoved, Zenon
  <2>12. Keeps(w, o)
    BY <1>g, <2>9, <2>11, KeepsTrans, Zenon DEF Rotates
  <2> QED
    BY <1>g, <2>7, <2>11, <2>12, Zenon DEF Rotates
<1>2. CASE ~goes
  <2>k. kept = IF w.lg.linked THEN [c EXCEPT !.overgrown = c.overgrown \cup {d}] ELSE c
    OBVIOUS
  <2> DEFINE y == openForDate(kept, d, f.reopen, {})
  <2>1. o = [y EXCEPT !.lg = [y.lg EXCEPT !.bytes = 0]]
    BY <1>2, <1>r, Zenon
  <2> HIDE DEF kept
  <2>2. /\ Good(kept, n, m, C, A) /\ Keeps(c, kept) /\ kept.lg = c.lg
        /\ <<d, 0>> \in DOMAIN kept.files => d \in kept.overgrown
    <3>1. CASE w.lg.linked
      <4>1. kept = [c EXCEPT !.overgrown = c.overgrown \cup {d}]
        BY <2>k, <3>1
      <4>2. kept = [dirs |-> c.dirs, files |-> c.files, lg |-> c.lg,
                    overgrown |-> c.overgrown \cup {d}, clobbered |-> c.clobbered]
        BY <1>g, <4>1, Zenon DEF IsWorld
      <4>3. /\ IsWorld(kept) /\ kept.files = c.files /\ kept.lg = c.lg
            /\ kept.overgrown = c.overgrown \cup {d} /\ kept.clobbered = c.clobbered
        BY <1>g, <4>2 DEF IsWorld
      <4>4. FilesWell(kept.files, n, m, kept.overgrown)
        <5>1. /\ n <= n /\ m <= m /\ c.overgrown \subseteq kept.overgrown
              /\ FilesWell(c.files, n, m, c.overgrown)
          BY <1>g, <4>3 DEF Good
        <5> QED
          BY <4>3, <5>1, WellWeakens, Zenon
      <4>5. Counted(kept) /\ Holding(kept, n, m, C, A)
        BY <1>g, <4>3, Zenon DEF Counted, Holding
      <4>6. Good(kept, n, m, C, A)
        BY <1>g, <4>3, <4>4, <4>5, Zenon DEF Good
      <4>7. Keeps(c, kept) /\ d \in kept.overgrown
        BY <4>3, Zenon DEF Keeps
      <4> QED
        BY <4>3, <4>6, <4>7, Zenon
    <3>2. CASE ~w.lg.linked
      <4>1. kept = c
        BY <2>k, <3>2
      <4> QED
        BY <1>g, <3>2, <4>1, KeepsSelf, Zenon
    <3> QED
      BY <3>1, <3>2, Zenon
  <2>3. y = openForDate(kept, d, f.reopen, {})
    OBVIOUS
  <2> HIDE DEF y
  <2>4. Rotates(kept, o, f, n, m, C, A)
    <3>1. kept.lg.toFile = FALSE /\ kept.lg.date = d
      BY <1>g, <2>2, Zenon
    <3> QED
      BY <1>d, <2>1, <2>2, <2>3, <3>1, ReopenKept, Zenon
  <2>5. Keeps(w, o)
    BY <1>g, <2>2, <2>4, KeepsTrans, Zenon DEF Rotates
  <2> QED
    BY <1>g, <2>2, <2>4, <2>5, Zenon DEF Rotates
<1> QED
  BY <1>1, <1>2, Zenon

(* More failures, and the line of the call among those that are nowhere twice. *)
LEMMA GoodWeakens ==
    ASSUME NEW w, NEW n \in Nat, NEW m \in Nat, NEW C, NEW A, Good(w, n, m, C, A),
           NEW mm \in Nat, m <= mm
    PROVE  Good(w, n, mm, C, A) /\ Good(w, n, mm, C \cup A, {})
<1>w. /\ IsWorld(w) /\ FilesWell(w.files, n, m, w.overgrown) /\ Once(w.files, C, A)
      /\ Counted(w) /\ Holding(w, n, m, C, A)
  BY Zenon DEF Good
<1>1. FilesWell(w.files, n, mm, w.overgrown)
  <2>1. n <= n /\ w.overgrown \subseteq w.overgrown
    OBVIOUS
  <2> QED
    BY <1>w, <2>1, WellWeakens, Zenon
<1>2. Once(w.files, C \cup A, {})
  BY <1>w, OnceWeakens, Zenon
<1>3. ASSUME w.lg.stuck # 0
      PROVE  /\ w.lg.stuck \in 1 .. n /\ w.lg.stuck \notin C /\ w.lg.stuck \notin A
             /\ 1 <= mm
             /\ w.lg.linked => Fits(w.files, <<w.lg.date, 0>>, mm, w.overgrown)
  <2>1. /\ w.lg.stuck \in 1 .. n /\ w.lg.stuck \notin C /\ w.lg.stuck \notin A
        /\ 1 <= m /\ w.lg.toFile
        /\ w.lg.linked => Fits(w.files, <<w.lg.date, 0>>, m, w.overgrown)
    BY <1>3, <1>w, Zenon DEF Holding, IsWorld, IsLogger
  <2>2. 1 <= mm
    BY <2>1
  <2>3. ASSUME w.lg.linked PROVE Fits(w.files, <<w.lg.date, 0>>, mm, w.overgrown)
    <3> DEFINE key == <<w.lg.date, 0>>
               len == Len(w.files[key])
    <3>1. len \in Nat
      <4>1. key \in DOMAIN w.files
        BY <1>w, <2>1, <2>3, Zenon DEF Counted
      <4> QED
        BY <1>w, <4>1, FileSize, Zenon
    <3>2. len + 1 <= kMaxLogFileBytes + m \/ key[1] \in w.overgrown
      BY <2>1, <2>3, Zenon DEF Fits
    <3> HIDE DEF len, key
    <3>3. len + 1 <= kMaxLogFileBytes + mm \/ key[1] \in w.overgrown
      BY <3>1, <3>2, LoggerAssumption
    <3> QED
      BY <3>3, Zenon DEF Fits, len, key
  <2> QED
    BY <2>1, <2>2, <2>3, Zenon
<1>4. Holding(w, n, mm, C, A) /\ Holding(w, n, mm, C \cup A, {})
  BY <1>3, Zenon DEF Holding
<1> QED
  BY <1>1, <1>2, <1>4, <1>w, Zenon DEF Good

\* Line x was written to the open file of w.
Writes(w, o, n, m, C, A, x) ==
    /\ Good(o, n, m, C \cup A, {}) /\ Keeps(w, o)
    /\ o.lg.toFile = w.lg.toFile /\ o.lg.date = w.lg.date /\ o.lg.linked = w.lg.linked
    /\ w.lg.linked => Has(o.files, x, w.lg.date)

(* A line is written and counted. *)
LEMMA WriteGood ==
    ASSUME NEW w, NEW n \in Nat, NEW m \in Nat, NEW C, NEW A, Good(w, n, m, C, A),
           w.lg.toFile, w.lg.stuck = 0, NEW x \in 1 .. n, x \notin C, A = {} \/ A = {x},
           w.lg.linked => Fits(w.files, <<w.lg.date, 0>>, m, w.overgrown),
           NEW o, o = written(w, x)
    PROVE  Writes(w, o, n, m, C, A, x)
<1> DEFINE p == appended(w, x)
           key == <<w.lg.date, 0>>
<1>1. Appends(w, p, n, m, C, A, x)
  BY AppendGood, Zenon
<1>2. o = [p EXCEPT !.lg = [p.lg EXCEPT !.bytes = p.lg.bytes + 1]]
  BY Zenon DEF written
<1> HIDE DEF p, key
<1>w. IsWorld(w) /\ Counted(w) /\ FilesWell(w.files, n, m, w.overgrown) /\ IsLogger(w.lg)
  BY Zenon DEF Good, IsWorld
<1>3. /\ IsWorld(p) /\ p.lg = w.lg
      /\ p.overgrown = w.overgrown /\ p.clobbered = w.clobbered
      /\ FilesWell(p.files, n, m, p.overgrown) /\ Keeps(w, p)
      /\ DOMAIN p.files = DOMAIN w.files
      /\ w.lg.linked => Has(p.files, x, w.lg.date) /\ Len(p.files[key]) = Len(w.files[key]) + 1
  BY <1>1, Zenon DEF Appends, key
<1>4. Once(p.files, C \cup A, {})
  <2>1. CASE A = {}
    <3>1. C \cup A = C /\ x \notin A
      BY <2>1
    <3> QED
      BY <1>1, <2>1, <3>1, Zenon DEF Appends
  <2>2. CASE A = {x}
    BY <1>1, <2>2, Zenon DEF Appends
  <2> QED
    BY <2>1, <2>2, Zenon
<1>5. w.lg.bytes \in Nat /\ w.lg.bytes + 1 \in Nat
  BY <1>w DEF IsLogger
<1>6. Alike(p, o, w.lg.bytes + 1, 0)
  BY <1>2, <1>3, <1>5, SetBytes, Zenon
<1>7. /\ IsWorld(o) /\ o.files = p.files
      /\ o.overgrown = w.overgrown /\ o.clobbered = w.clobbered
      /\ o.lg.toFile = w.lg.toFile /\ o.lg.date = w.lg.date /\ o.lg.linked = w.lg.linked
      /\ o.lg.bytes = w.lg.bytes + 1 /\ o.lg.stuck = 0
  BY <1>3, <1>6, Zenon DEF Alike
<1>8. Counted(o)
  <2>1. w.lg.linked <=> key \in DOMAIN o.files
    BY <1>3, <1>7, <1>w, Zenon DEF Counted, key
  <2>2. ASSUME w.lg.linked
        PROVE  Len(o.files[key]) <= o.lg.bytes \/ w.lg.date \in o.overgrown
    <3> DEFINE new == Len(o.files[key])
               old == Len(w.files[key])
               b == w.lg.bytes
    <3>1. new = old + 1 /\ o.lg.bytes = b + 1
      BY <1>3, <1>7, <2>2, Zenon
    <3>2. old <= b \/ w.lg.date \in o.overgrown
      BY <1>7, <1>w, <2>2, Zenon DEF Counted, key
    <3>3. old \in Nat /\ b \in Nat
      <4>1. key \in DOMAIN w.files
        BY <1>w, <2>2, Zenon DEF Counted, key
      <4> QED
        BY <1>5, <1>w, <4>1, FileSize, Zenon
    <3> HIDE DEF new, old, b
    <3>4. new <= o.lg.bytes \/ w.lg.date \in o.overgrown
      BY <3>1, <3>2, <3>3
    <3> QED
      BY <3>4, Zenon DEF new
  <2> QED
    BY <1>7, <2>1, <2>2, Zenon DEF Counted, key
<1>9. Holding(o, n, m, C \cup A, {})
  BY <1>7, Zenon DEF Holding
<1>10. Good(o, n, m, C \cup A, {})
  BY <1>3, <1>4, <1>7, <1>8, <1>9, Zenon DEF Good
<1>11. Keeps(w, o)
  BY <1>3, <1>7, Zenon DEF Keeps
<1> QED
  BY <1>3, <1>7, <1>10, <1>11, Zenon DEF Writes

(* Nothing comes out of a stream that holds nothing. *)
LEMMA ClosedFiles ==
    ASSUME NEW w, IsWorld(w), NEW late, w.lg.stuck \notin late
    PROVE  closed(w, late).files = w.files
<1>1. closed(w, late) = [w EXCEPT !.lg = [[w.lg EXCEPT !.toFile = FALSE] EXCEPT !.stuck = 0]]
  BY Zenon DEF closed
<1>2. IsLogger(w.lg)
  BY Zenon DEF IsWorld
<1>3. closed(w, late) = [w EXCEPT !.lg = Shut(w.lg)] /\ IsLogger(Shut(w.lg))
  BY <1>1, <1>2, LoggerShut, Zenon
<1> DEFINE o == closed(w, late)
           l == Shut(w.lg)
<1>4. o = [w EXCEPT !.lg = l] /\ IsLogger(l)
  BY <1>3, Zenon
<1> HIDE DEF o, l
<1>5. o.files = w.files
  BY <1>4, WithLogger
<1> QED
  BY <1>5, Zenon DEF o

\* Line x, which could not be written, is held by the stream.
Sticks(w, o, n, m, C, A, x) ==
    /\ Good(o, n, m, C, A) /\ Keeps(w, o)
    /\ o.files = w.files /\ o.overgrown = w.overgrown
    /\ o.lg.toFile = w.lg.toFile /\ o.lg.date = w.lg.date /\ o.lg.linked = w.lg.linked
    /\ o.lg.stuck = x

(* A write that fails. *)
LEMMA StickGood ==
    ASSUME NEW w, NEW n \in Nat, NEW m \in Nat, NEW C, NEW A, Good(w, n, m, C, A),
           w.lg.toFile, NEW x \in 1 .. n, x \notin C, x \notin A, 1 <= m,
           w.lg.linked => Fits(w.files, <<w.lg.date, 0>>, m, w.overgrown),
           NEW o, o = [w EXCEPT !.lg = [w.lg EXCEPT !.stuck = x]]
    PROVE  Sticks(w, o, n, m, C, A, x)
<1>1. IsWorld(w)
  BY Zenon DEF Good
<1>2. x \in Nat
  OBVIOUS
<1>3. Alike(w, o, w.lg.bytes, x)
  BY <1>1, <1>2, SetStuck, Zenon
<1>4. /\ IsWorld(o) /\ o.files = w.files
      /\ o.overgrown = w.overgrown /\ o.clobbered = w.clobbered
      /\ o.lg.toFile = w.lg.toFile /\ o.lg.date = w.lg.date /\ o.lg.linked = w.lg.linked
      /\ o.lg.bytes = w.lg.bytes /\ o.lg.stuck = x
  BY <1>3, Zenon DEF Alike
<1>5. FilesWell(o.files, n, m, o.overgrown) /\ Once(o.files, C, A)
  BY <1>4, Zenon DEF Good
<1>6. Counted(o)
  <2>1. Counted(w)
    BY Zenon DEF Good
  <2> QED
    BY <1>4, <2>1, Zenon DEF Counted
<1>7. Holding(o, n, m, C, A)
  BY <1>4, Zenon DEF Holding
<1>8. Keeps(w, o)
  BY <1>4, Zenon DEF Keeps
<1> QED
  BY <1>4, <1>5, <1>6, <1>7, <1>8, Zenon DEF Sticks, Good

\* What the second try of log() leaves.
Retries(w, r, f, today, n, m, C, A) ==
    /\ Good(r.w, n, m, C \cup A, {}) /\ Keeps(w, r.w)
    /\ r.w.lg.date \in {w.lg.date, today}
    /\ r.w.lg.toFile => r.w.lg.linked
    /\ r.where = "file" => Has(r.w.files, n, r.w.lg.date)
    /\ r.where \in {"file", "lost"}
    /\ r.where = "file" => r.w.lg.date = today
    /\ r.where = "lost" => f.retry \notin Opened \/ f.rewrite # "ok"

\* There is room for the line held by the stream, and for the line written again.
RetryFits(w, today, m) ==
    /\ today # w.lg.date /\ <<today, 0>> \in DOMAIN w.files =>
          Fits(w.files, <<today, 0>>, m, w.overgrown)
    /\ today = w.lg.date /\ w.lg.linked =>
          Len(w.files[<<today, 0>>]) + 2 <= kMaxLogFileBytes + m \/ today \in w.overgrown

(* The file that is opened again has room for the line. *)
LEMMA RetryRoom ==
    ASSUME NEW w, NEW n \in Nat, NEW m \in Nat, NEW C, NEW A, Good(w, n, m, C, A),
           w.lg.toFile, NEW today \in Nat \ {0}, RetryFits(w, today, m), 1 <= m,
           NEW c, Closes(w, c, n, m, C, A),
           NEW again, again.files[<<today, 0>>] = Existing(c, today),
           c.overgrown \subseteq again.overgrown
    PROVE  Fits(again.files, <<today, 0>>, m, again.overgrown)
<1> DEFINE key == <<today, 0>>
           new == Len(again.files[key])
           old == Len(w.files[key])
<1>0. key[1] = today
  OBVIOUS
<1>1. /\ FilesWell(w.files, n, m, w.overgrown) /\ Counted(w)
      /\ DOMAIN c.files = DOMAIN w.files /\ c.overgrown = w.overgrown
      /\ FilesWell(c.files, n, m, c.overgrown)
  BY Zenon DEF Good, Closes
<1> HIDE DEF key
<1>2. CASE key \notin DOMAIN w.files
  <2>1. again.files[key] = << >>
    BY <1>1, <1>2, Zenon DEF Existing, key
  <2>2. new = 0
    BY <2>1
  <2> HIDE DEF new
  <2>3. new + 1 <= kMaxLogFileBytes + m
    BY <2>2, LoggerAssumption
  <2> QED
    BY <2>3, Zenon DEF new, key, Fits
<1>3. CASE key \in DOMAIN w.files
  <2>1. again.files[key] = c.files[key] /\ key \in DOMAIN c.files
    BY <1>1, <1>3, Zenon DEF Existing, key
  <2>2. new \in Nat /\ old \in Nat
    BY <1>1, <1>3, <2>1, FileSize, Zenon
  <2>3. CASE today # w.lg.date
    <3>1. key # <<w.lg.date, 0>>
      BY <2>3 DEF key
    <3>2. again.files[key] = w.files[key]
      BY <1>3, <2>1, <3>1, Zenon DEF Closes
    <3>3. Fits(w.files, key, m, w.overgrown)
      BY <1>3, <2>3, Zenon DEF RetryFits, key
    <3> QED
      BY <1>1, <3>2, <3>3, Zenon DEF Fits, key
  <2>4. CASE today = w.lg.date
    <3>1. w.lg.linked
      BY <1>1, <1>3, <2>4, Zenon DEF Counted, key
    <3>2. old + 2 <= kMaxLogFileBytes + m \/ today \in w.overgrown
      BY <2>4, <3>1, Zenon DEF RetryFits, key
    <3>3. new <= old + 1
      BY <1>3, <2>1, Zenon DEF Closes
    <3> HIDE DEF new, old
    <3>4. new + 1 <= kMaxLogFileBytes + m \/ today \in w.overgrown
      BY <2>2, <3>2, <3>3, LoggerAssumption
    <3> QED
      BY <1>0, <1>1, <3>4, Zenon DEF Fits, key, new
  <2> QED
    BY <2>3, <2>4, Zenon
<1> QED
  BY <1>2, <1>3, Zenon

(* log()'s second try. *)
LEMMA RetryGood ==
    ASSUME NEW w, NEW n \in Nat, NEW m \in Nat, NEW C, NEW A, Good(w, n, m, C, A),
           n # 0, n \notin C, A = {} \/ A = {n}, w.lg.toFile, 1 <= m,
           NEW today \in Nat \ {0}, RetryFits(w, today, m),
           NEW f \in Trouble, f.rewrite # "ok" => A = {},
           NEW late, 0 \notin late, NEW r, r = retry(w, today, f, n, late)
    PROVE  Retries(w, r, f, today, n, m, C, A)
<1> DEFINE c == closed(w, late)
           cc == closed(c, {})
           again == openForDate(c, today, f.retry, {})
<1>0. f.retry \in Opening /\ 0 \notin {} /\ n \in 1 .. n /\ m <= m
  BY NamedFaults
<1>1. Closes(w, c, n, m, C, A)
  BY CloseGood, Zenon
<1>2. Good(c, n, m, C, A) /\ Keeps(w, c) /\ c.lg.toFile = FALSE /\ c.lg.stuck = 0
      /\ c.lg.date = w.lg.date /\ c.overgrown = w.overgrown
  BY <1>1, Zenon DEF Closes
<1>r. r = CASE f.retry \notin Opened -> [w |-> again, where |-> "lost"]
            [] f.retry \in Opened /\ f.rewrite = "ok" -> [w |-> written(again, n), where |-> "file"]
            [] OTHER -> [w |-> [again EXCEPT !.lg = [again.lg EXCEPT !.stuck = n]], where |-> "lost"]
  BY Zenon DEF retry
<1> HIDE DEF c
<1>3. Opens(c, cc, again, today, f.retry, n, m, C, A)
  BY <1>0, <1>2, OpenGood, Zenon
<1>4. cc.files = c.files
  BY <1>2, ClosedFiles, Zenon DEF Good
<1> HIDE DEF cc, again
<1>5. Good(again, n, m, C, A) /\ Keeps(c, again)
  BY <1>3, Zenon DEF Opens
<1>6. Keeps(w, again)
  BY <1>2, <1>5, KeepsTrans, Zenon
<1>7. CASE f.retry \notin Opened
  <2>1. r = [w |-> again, where |-> "lost"]
    BY <1>r, <1>7, Zenon
  <2>2. r.w = again /\ r.where = "lost"
    BY <2>1
  <2>3. again.lg = c.lg
    BY <1>3, <1>7, Zenon DEF Opens
  <2>4. Good(again, n, m, C \cup A, {})
    BY <1>0, <1>5, GoodWeakens, Zenon
  <2>5. r.where # "file" /\ r.where \in {"file", "lost"} /\ ~r.w.lg.toFile
    BY <1>2, <2>2, <2>3, Zenon
  <2> QED
    BY <1>2, <1>6, <1>7, <2>2, <2>3, <2>4, <2>5, Zenon DEF Retries
<1>8. CASE f.retry \in Opened
  <2>1. /\ again.lg.toFile /\ again.lg.date = today /\ again.lg.linked /\ again.lg.stuck = 0
        /\ again.files[<<today, 0>>] = Existing(cc, today)
        /\ c.overgrown \subseteq again.overgrown
    BY <1>3, <1>8, Zenon DEF Opens, Keeps
  <2>2. Existing(cc, today) = Existing(c, today)
    BY <1>4, Zenon DEF Existing
  <2>3. Fits(again.files, <<today, 0>>, m, again.overgrown)
    BY <1>1, <2>1, <2>2, RetryRoom, Zenon
  <2>4. again.lg.linked => Fits(again.files, <<again.lg.date, 0>>, m, again.overgrown)
    BY <2>1, <2>3, Zenon
  <2>5. CASE f.rewrite = "ok"
    <3> DEFINE o == written(again, n)
    <3>1. r = [w |-> o, where |-> "file"]
      BY <1>r, <1>8, <2>5, Zenon
    <3>2. r.w = o /\ r.where = "file"
      BY <3>1
    <3>3. Writes(again, o, n, m, C, A, n)
      BY <1>0, <1>5, <2>1, <2>4, WriteGood, Zenon
    <3> HIDE DEF o
    <3>4. /\ Good(o, n, m, C \cup A, {}) /\ Keeps(again, o)
          /\ o.lg.date = today /\ o.lg.linked /\ Has(o.files, n, today)
      BY <2>1, <3>3, Zenon DEF Writes
    <3>5. Keeps(w, o)
      BY <1>6, <3>4, KeepsTrans, Zenon
    <3>6. r.where # "lost" /\ r.where \in {"file", "lost"}
      BY <3>2
    <3> QED
      BY <3>2, <3>4, <3>5, <3>6, Zenon DEF Retries
  <2>6. CASE f.rewrite # "ok"
    <3> DEFINE o == [again EXCEPT !.lg = [again.lg EXCEPT !.stuck = n]]
    <3>1. r = [w |-> o, where |-> "lost"]
      BY <1>r, <1>8, <2>6, Zenon
    <3> HIDE DEF o
    <3>2. r.w = o /\ r.where = "lost"
      BY <3>1
    <3>3. A = {} /\ n \notin A /\ C \cup A = C
      BY <2>6
    <3>4. Sticks(again, o, n, m, C, A, n)
      BY <1>0, <1>5, <2>1, <2>4, <3>3, StickGood, Zenon DEF o
    <3>5. /\ Good(o, n, m, C, A) /\ Keeps(again, o) /\ o.lg.date = today /\ o.lg.linked
      BY <2>1, <3>4, Zenon DEF Sticks
    <3>6. Keeps(w, o)
      BY <1>6, <3>5, KeepsTrans, Zenon
    <3>7. Good(o, n, m, C \cup A, {})
      BY <3>3, <3>5, Zenon
    <3>8. r.where # "file" /\ r.where \in {"file", "lost"}
      BY <3>2
    <3> QED
      BY <2>6, <3>2, <3>5, <3>6, <3>7, <3>8, Zenon DEF Retries
  <2> QED
    BY <2>5, <2>6, Zenon
<1> QED
  BY <1>7, <1>8, Zenon

\* The open file has a name only if it had one before, and the date of the call or the
\* one it had before.
CutBefore(w, o) ==
    o.lg.toFile /\ ~o.lg.linked => w.lg.toFile /\ ~w.lg.linked /\ o.lg.date = w.lg.date

\* The file log() is about to write to.
Prepared(w, o, f, today, n, m, C, A) ==
    /\ Good(o, n, m, C, A) /\ Keeps(w, o) /\ CutBefore(w, o)
    /\ o.lg.date \in {w.lg.date, today}
    /\ o.lg.date # today => f.open \notin Opened
    /\ (f.open \in Opened \/ w.lg.toFile) /\ f.reopen \in Opened => o.lg.toFile
    /\ w.lg.stuck = 0 => o.lg.stuck = 0
    /\ o.lg.toFile /\ o.lg.linked =>
          Len(o.files[<<o.lg.date, 0>>]) + 1 <= kMaxLogFileBytes \/ o.lg.date \in o.overgrown

\* The file of today, or the one there was.
Readied(w, o, f, today, n, m, C, A) ==
    /\ Good(o, n, m, C, A) /\ Keeps(w, o) /\ CutBefore(w, o)
    /\ o.lg.date \in {w.lg.date, today}
    /\ o.lg.date # today => f.open \notin Opened
    /\ f.open \in Opened \/ w.lg.toFile => o.lg.toFile
    /\ w.lg.stuck = 0 => o.lg.stuck = 0

(* Rollover and recovery. *)
LEMMA ReadyGood ==
    ASSUME NEW w, NEW n \in Nat, NEW m \in Nat, NEW C, NEW A, Good(w, n, m, C, A),
           NEW today \in Nat \ {0}, NEW f \in Trouble, NEW late, 0 \notin late,
           NEW o, o = Ready(w, today, f, late)
    PROVE  Readied(w, o, f, today, n, m, C, A)
<1>1. CASE ~w.lg.toFile \/ today # w.lg.date
  <2>1. o = openForDate(w, today, f.open, late)
    BY <1>1, Zenon DEF Ready
  <2>2. f.open \in Opening
    BY NamedFaults
  <2>3. Opens(w, closed(w, late), o, today, f.open, n, m, C, A)
    BY <2>1, <2>2, OpenGood, Zenon
  <2>4. Good(o, n, m, C, A) /\ Keeps(w, o)
    BY <2>3, Zenon DEF Opens
  <2>5. CASE f.open \in Opened
    <3>1. o.lg.toFile /\ o.lg.date = today /\ o.lg.linked /\ o.lg.stuck = 0
      BY <2>3, <2>5, Zenon DEF Opens
    <3> QED
      BY <2>4, <3>1, Zenon DEF Readied, CutBefore
  <2>6. CASE f.open \notin Opened
    <3>1. o.lg = w.lg
      BY <2>3, <2>6, Zenon DEF Opens
    <3> QED
      BY <2>4, <2>6, <3>1, Zenon DEF Readied, CutBefore
  <2> QED
    BY <2>5, <2>6, Zenon
<1>2. CASE w.lg.toFile /\ today = w.lg.date
  <2>1. o = w
    BY <1>2, Zenon DEF Ready
  <2> QED
    BY <1>2, <2>1, KeepsSelf, Zenon DEF Readied, CutBefore
<1> QED
  BY <1>1, <1>2, Zenon

(* After rollover, recovery and rotation there is room for the line. *)
LEMMA PrepareGood ==
    ASSUME NEW w, NEW n \in Nat, NEW m \in Nat, NEW C, NEW A, Good(w, n, m, C, A),
           NEW today \in Nat \ {0}, NEW f \in Trouble, NEW late, 0 \notin late,
           NEW ready, ready = Ready(w, today, f, late),
           NEW o, o = IF NeedsRotation(ready) THEN rotate(ready, f, late) ELSE ready
    PROVE  Prepared(w, o, f, today, n, m, C, A)
<1>1. Readied(w, ready, f, today, n, m, C, A)
  BY ReadyGood, Zenon
<1>2. Good(ready, n, m, C, A) /\ Keeps(w, ready)
  BY <1>1, Zenon DEF Readied
<1>3. CASE NeedsRotation(ready)
  <2>1. o = rotate(ready, f, late) /\ ready.lg.toFile
    BY <1>3, Zenon DEF NeedsRotation
  <2>2. Rotates(ready, o, f, n, m, C, A)
    BY <1>2, <2>1, RotateGood, Zenon
  <2>3. /\ Good(o, n, m, C, A) /\ Keeps(ready, o)
        /\ o.lg.date = ready.lg.date /\ o.lg.stuck = 0
        /\ f.reopen \in Opened => o.lg.toFile /\ o.lg.linked /\ o.lg.bytes = 0
        /\ f.reopen \notin Opened => ~o.lg.toFile
    BY <2>2, Zenon DEF Rotates
  <2>4. Keeps(w, o)
    BY <1>2, <2>3, KeepsTrans, Zenon
  <2>5. ASSUME o.lg.toFile, o.lg.linked
        PROVE  Len(o.files[<<o.lg.date, 0>>]) + 1 <= kMaxLogFileBytes \/ o.lg.date \in o.overgrown
    <3> DEFINE len == Len(o.files[<<o.lg.date, 0>>])
    <3>1. o.lg.bytes = 0 /\ Counted(o) /\ FilesWell(o.files, n, m, o.overgrown)
      BY <2>3, <2>5, Zenon DEF Good
    <3>2. len <= 0 \/ o.lg.date \in o.overgrown
      BY <2>5, <3>1, Zenon DEF Counted
    <3>3. len \in Nat
      <4>1. <<o.lg.date, 0>> \in DOMAIN o.files
        BY <2>5, <3>1, Zenon DEF Counted
      <4> QED
        BY <3>1, <4>1, FileSize, Zenon
    <3> HIDE DEF len
    <3>4. len + 1 <= kMaxLogFileBytes \/ o.lg.date \in o.overgrown
      BY <3>2, <3>3, LoggerAssumption
    <3> QED
      BY <3>4, Zenon DEF len
  <2>6. CutBefore(w, o)
    BY <2>3, Zenon DEF CutBefore
  <2> QED
    BY <1>1, <2>3, <2>4, <2>5, <2>6, Zenon DEF Readied, Prepared
<1>4. CASE ~NeedsRotation(ready)
  <2>1. o = ready
    BY <1>4, Zenon
  <2>2. ASSUME o.lg.toFile, o.lg.linked
        PROVE  Len(o.files[<<o.lg.date, 0>>]) + 1 <= kMaxLogFileBytes \/ o.lg.date \in o.overgrown
    <3> DEFINE len == Len(o.files[<<o.lg.date, 0>>])
               b == o.lg.bytes
    <3>1. Counted(o) /\ FilesWell(o.files, n, m, o.overgrown) /\ IsLogger(o.lg)
      BY <1>2, <2>1, Zenon DEF Good, IsWorld
    <3>2. len <= b \/ o.lg.date \in o.overgrown
      BY <2>2, <3>1, Zenon DEF Counted
    <3>3. len \in Nat /\ b \in Nat
      <4>1. <<o.lg.date, 0>> \in DOMAIN o.files
        BY <2>2, <3>1, Zenon DEF Counted
      <4> QED
        <5>1. len \in Nat
          BY <3>1, <4>1, FileSize, Zenon
        <5> QED
          BY <3>1, <5>1, Zenon DEF IsLogger
    <3>4. ~(b + 1 > kMaxLogFileBytes)
      BY <1>4, <2>1, <2>2, Zenon DEF NeedsRotation
    <3> HIDE DEF len, b
    <3>5. len + 1 <= kMaxLogFileBytes \/ o.lg.date \in o.overgrown
      BY <3>2, <3>3, <3>4, LoggerAssumption
    <3> QED
      BY <3>5, Zenon DEF len
  <2> QED
    BY <1>1, <2>1, <2>2, Zenon DEF Readied, Prepared
<1> QED
  BY <1>3, <1>4, Zenon

\* What a call of log() leaves: a line that met no failure is in a file of its own date,
\* unless that file was removed while it was open; a line is lost to one failure only
\* when the stream was not in order or the file could not be opened after rotating.
Logged(w, r, f, today, n, m, C, A) ==
    /\ Good(r.w, n, m, C \cup A, {}) /\ Keeps(w, r.w) /\ CutBefore(w, r.w)
    /\ r.w.lg.date \in {w.lg.date, today}
    /\ r.where \in {"file", "nowhere", "lost"}
    /\ r.where = "file" => Has(r.w.files, n, r.w.lg.date)
    /\ FaultsOf(f) = 0 =>
          /\ r.w.lg.date = today
          /\ r.where = "file" \/ (r.where = "nowhere" /\ w.lg.toFile /\ ~w.lg.linked)
    /\ r.where = "lost" /\ w.lg.toFile /\ w.lg.stuck = 0 /\ f.reopen \in Opened =>
          FaultsOf(f) >= 2

(* Some call failed when one is named that did. *)
LEMMA SomeFault ==
    ASSUME NEW f \in Trouble, f.write # "ok" \/ f.rewrite # "ok" \/ f.open \notin Opened
    PROVE  FaultsOf(f) \in Nat /\ FaultsOf(f) >= 1
<1>1. FaultsOf(f) # 0
  <2>1. "ok" \in Opened
    BY DEF Opened
  <2> QED
    BY <2>1, NamedFaults, Zenon
<1>2. FaultsOf(f) \in Nat
  BY NamedFaults, Zenon
<1> QED
  BY <1>1, <1>2

\* The world in which log() tries again.
Failed(open, u, today, n, m, C, A) ==
    /\ Good(u, n, m, C, A) /\ 1 <= m /\ RetryFits(u, today, m)
    /\ Keeps(open, u) /\ u.lg.toFile /\ u.lg.date = open.lg.date

(* The first try failed, or the stream had failed before. *)
LEMMA RetryReady ==
    ASSUME NEW w, NEW n \in Nat, NEW m \in Nat, NEW C, NEW A,
           n # 0, n \notin C, A = {} \/ A = {n},
           NEW today \in Nat \ {0}, NEW f \in Trouble, FaultsOf(f) # 0 => A = {},
           NEW open, Prepared(w, open, f, today, n, m, C, A),
           open.lg.toFile, ~(open.lg.stuck = 0 /\ f.write = "ok"),
           NEW mm, mm = m + FaultsOf(f),
           NEW u, u = IF open.lg.stuck = 0
                      THEN [open EXCEPT !.lg = [open.lg EXCEPT !.stuck = n]] ELSE open
    PROVE  Failed(open, u, today, n, mm, C, A)
<1>0. FaultsOf(f) \in Nat /\ mm \in Nat /\ m <= mm /\ n \in 1 .. n
  BY NamedFaults
<1>1. Good(open, n, m, C, A)
  BY Zenon DEF Prepared
<1>2. Good(open, n, mm, C, A)
  BY <1>0, <1>1, GoodWeakens, Zenon
<1>3. 1 <= mm
  <2>1. CASE open.lg.stuck = 0
    <3>1. f.write # "ok"
      BY <2>1, Zenon
    <3>2. FaultsOf(f) >= 1
      BY <3>1, SomeFault, Zenon
    <3> QED
      BY <1>0, <3>2
  <2>2. CASE open.lg.stuck # 0
    BY <1>2, <2>2, Zenon DEF Good, Holding
  <2> QED
    BY <2>1, <2>2, Zenon
<1> DEFINE key == <<open.lg.date, 0>>
           len == Len(open.files[key])
<1>4. /\ IsWorld(open) /\ FilesWell(open.files, n, m, open.overgrown) /\ Counted(open)
  BY <1>1, Zenon DEF Good
<1>5. ASSUME open.lg.linked
      PROVE  /\ len \in Nat
             /\ len + 1 <= kMaxLogFileBytes \/ open.lg.date \in open.overgrown
  <2>1. key \in DOMAIN open.files
    BY <1>4, <1>5, Zenon DEF Counted
  <2>2. len \in Nat
    BY <1>4, <2>1, FileSize, Zenon
  <2> QED
    BY <1>5, <2>2, Zenon DEF Prepared
<1>6. ASSUME open.lg.linked
      PROVE  /\ len + 1 <= kMaxLogFileBytes + mm \/ open.lg.date \in open.overgrown
             /\ len + 2 <= kMaxLogFileBytes + mm \/ open.lg.date \in open.overgrown
  <2>1. len \in Nat /\ (len + 1 <= kMaxLogFileBytes \/ open.lg.date \in open.overgrown)
    BY <1>5, <1>6, Zenon
  <2> HIDE DEF len
  <2> QED
    BY <1>0, <1>3, <2>1, LoggerAssumption
<1>7. ASSUME today # open.lg.date, <<today, 0>> \in DOMAIN open.files
      PROVE  Fits(open.files, <<today, 0>>, mm, open.overgrown)
  <2> DEFINE k == <<today, 0>>
             size == Len(open.files[k])
  <2>1. f.open \notin Opened
    BY <1>7, Zenon DEF Prepared
  <2>2. FaultsOf(f) >= 1
    BY <2>1, SomeFault, Zenon
  <2>3. size \in Nat
    BY <1>4, <1>7, FileSize, Zenon
  <2>4. size <= kMaxLogFileBytes + m \/ k[1] \in open.overgrown
    BY <1>4, <1>7, Zenon DEF FilesWell
  <2> HIDE DEF size, k
  <2>5. size + 1 <= kMaxLogFileBytes + mm \/ k[1] \in open.overgrown
    BY <1>0, <2>2, <2>3, <2>4, LoggerAssumption
  <2> QED
    BY <2>5, Zenon DEF size, k, Fits
<1>8. RetryFits(open, today, mm)
  BY <1>6, <1>7, Zenon DEF RetryFits
<1>9. CASE open.lg.stuck # 0
  <2>1. u = open
    BY <1>9, Zenon
  <2> QED
    BY <1>2, <1>3, <1>8, <2>1, KeepsSelf, Zenon DEF Failed
<1>10. CASE open.lg.stuck = 0
  <2>1. u = [open EXCEPT !.lg = [open.lg EXCEPT !.stuck = n]]
    BY <1>10, Zenon
  <2>2. n \notin A
    <3>1. f.write # "ok"
      BY <1>10, Zenon
    <3>2. FaultsOf(f) # 0
      BY <3>1, NamedFaults, Zenon
    <3> QED
      BY <3>2
  <2>3. open.lg.linked => Fits(open.files, key, mm, open.overgrown)
    <3>1. key[1] = open.lg.date
      OBVIOUS
    <3> QED
      BY <1>6, <3>1, Zenon DEF Fits
  <2>4. Sticks(open, u, n, mm, C, A, n)
    BY <1>0, <1>2, <1>3, <2>1, <2>2, <2>3, StickGood, Zenon
  <2>5. /\ Good(u, n, mm, C, A) /\ Keeps(open, u)
        /\ u.files = open.files /\ u.overgrown = open.overgrown
        /\ u.lg.toFile = open.lg.toFile /\ u.lg.date = open.lg.date
        /\ u.lg.linked = open.lg.linked
    BY <2>4, Zenon DEF Sticks
  <2>6. RetryFits(u, today, mm)
    BY <1>8, <2>5, Zenon DEF RetryFits
  <2> QED
    BY <1>3, <2>5, <2>6, Zenon DEF Failed
<1> QED
  BY <1>9, <1>10, Zenon

(* log(). *)
LEMMA LogGood ==
    ASSUME NEW w, NEW n \in Nat, NEW m \in Nat, NEW C, NEW A, Good(w, n, m, C, A),
           n # 0, n \notin C, A = {} \/ A = {n},
           NEW today \in Nat \ {0}, NEW f \in Trouble, FaultsOf(f) # 0 => A = {},
           NEW late, 0 \notin late, NEW mm, mm = m + FaultsOf(f),
           NEW r, r = log(w, today, f, n, late)
    PROVE  Logged(w, r, f, today, n, mm, C, A)
<1> DEFINE ready == Ready(w, today, f, late)
           open == IF NeedsRotation(ready) THEN rotate(ready, f, late) ELSE ready
           u == IF open.lg.stuck = 0
                THEN [open EXCEPT !.lg = [open.lg EXCEPT !.stuck = n]] ELSE open
           again == retry(u, today, f, n, late)
<1>0. FaultsOf(f) \in Nat /\ mm \in Nat /\ m <= mm /\ n \in 1 .. n
  BY NamedFaults
<1>o. "ok" \in Opened
  BY DEF Opened
<1>1. Prepared(w, open, f, today, n, m, C, A)
  BY PrepareGood, Zenon
<1>r. r = CASE ~open.lg.toFile -> [w |-> open, where |-> "lost"]
            [] open.lg.toFile /\ open.lg.stuck = 0 /\ f.write = "ok" ->
                  [w |-> written(open, n), where |-> IF open.lg.linked THEN "file" ELSE "nowhere"]
            [] OTHER -> again
  BY Zenon DEF log
<1> HIDE DEF open, ready
<1>2. /\ Good(open, n, m, C, A) /\ Keeps(w, open) /\ CutBefore(w, open)
      /\ open.lg.date \in {w.lg.date, today}
      /\ FaultsOf(f) = 0 => open.lg.date = today /\ open.lg.toFile
      /\ w.lg.toFile /\ f.reopen \in Opened => open.lg.toFile
      /\ w.lg.stuck = 0 => open.lg.stuck = 0
  BY <1>o, <1>1, NamedFaults, Zenon DEF Prepared
<1>3. CASE ~open.lg.toFile
  <2>1. r = [w |-> open, where |-> "lost"]
    BY <1>r, <1>3, Zenon
  <2>2. r.w = open /\ r.where = "lost"
    BY <2>1
  <2>3. Good(open, n, mm, C \cup A, {})
    BY <1>0, <1>2, GoodWeakens, Zenon
  <2>4. r.where # "file" /\ r.where \in {"file", "nowhere", "lost"}
    BY <2>2
  <2> QED
    BY <1>2, <1>3, <2>2, <2>3, <2>4, Zenon DEF Logged
<1>4. CASE open.lg.toFile /\ open.lg.stuck = 0 /\ f.write = "ok"
  <2> DEFINE o == written(open, n)
             place == IF open.lg.linked THEN "file" ELSE "nowhere"
  <2>1. r = [w |-> o, where |-> place]
    BY <1>r, <1>4, Zenon
  <2>2. open.lg.linked => Fits(open.files, <<open.lg.date, 0>>, m, open.overgrown)
    <3> DEFINE key == <<open.lg.date, 0>>
               len == Len(open.files[key])
    <3>1. ASSUME open.lg.linked PROVE Fits(open.files, key, m, open.overgrown)
      <4>1. key[1] = open.lg.date
        OBVIOUS
      <4>2. len + 1 <= kMaxLogFileBytes \/ open.lg.date \in open.overgrown
        BY <1>1, <1>4, <3>1, Zenon DEF Prepared
      <4>3. len \in Nat
        <5>1. key \in DOMAIN open.files /\ FilesWell(open.files, n, m, open.overgrown)
          BY <1>2, <1>4, <3>1, Zenon DEF Good, Counted
        <5> QED
          BY <5>1, FileSize, Zenon
      <4> HIDE DEF len
      <4>4. len + 1 <= kMaxLogFileBytes + m \/ open.lg.date \in open.overgrown
        BY <4>2, <4>3, LoggerAssumption
      <4> QED
        BY <4>1, <4>4, Zenon DEF Fits, len
    <3> QED
      BY <3>1, Zenon
  <2>3. Writes(open, o, n, m, C, A, n)
    BY <1>0, <1>2, <1>4, <2>2, WriteGood, Zenon
  <2> HIDE DEF o
  <2>4. /\ Good(o, n, m, C \cup A, {}) /\ Keeps(open, o)
        /\ o.lg.toFile = open.lg.toFile /\ o.lg.date = open.lg.date
        /\ o.lg.linked = open.lg.linked
        /\ open.lg.linked => Has(o.files, n, open.lg.date)
    BY <2>3, Zenon DEF Writes
  <2>5. Good(o, n, mm, C \cup A, {})
    BY <1>0, <2>4, GoodWeakens, Zenon
  <2>6. Keeps(w, o)
    BY <1>2, <2>4, KeepsTrans, Zenon
  <2>7. CutBefore(w, o)
    BY <1>2, <2>4, Zenon DEF CutBefore
  <2>8. place \in {"file", "nowhere", "lost"} /\ place # "lost"
        /\ (place = "file" => open.lg.linked) /\ (place # "file" => place = "nowhere" /\ ~open.lg.linked)
    OBVIOUS
  <2> HIDE DEF place
  <2>9. r.w = o /\ r.where = place
    BY <2>1
  <2>10. place # "file" => w.lg.toFile /\ ~w.lg.linked
    BY <1>2, <1>4, <2>8, Zenon DEF CutBefore
  <2> QED
    BY <1>2, <2>4, <2>5, <2>6, <2>7, <2>8, <2>9, <2>10, Zenon DEF Logged
<1>5. CASE open.lg.toFile /\ ~(open.lg.stuck = 0 /\ f.write = "ok")
  <2>1. r = again
    BY <1>r, <1>5, Zenon
  <2>2. /\ Good(u, n, mm, C, A) /\ 1 <= mm /\ RetryFits(u, today, mm)
        /\ Keeps(open, u) /\ u.lg.toFile /\ u.lg.date = open.lg.date
    <3>1. Failed(open, u, today, n, mm, C, A)
      BY <1>1, <1>5, RetryReady, Zenon
    <3> QED
      BY <3>1, Zenon DEF Failed
  <2>3. f.rewrite # "ok" => A = {}
    BY NamedFaults, Zenon
  <2> HIDE DEF u
  <2>4. Retries(u, r, f, today, n, mm, C, A)
    BY <1>0, <2>1, <2>2, <2>3, RetryGood, Zenon
  <2>5. /\ Good(r.w, n, mm, C \cup A, {}) /\ Keeps(u, r.w)
        /\ r.w.lg.date \in {u.lg.date, today}
        /\ r.w.lg.toFile => r.w.lg.linked
        /\ r.where = "file" => Has(r.w.files, n, r.w.lg.date)
        /\ r.where \in {"file", "lost"}
        /\ r.where = "file" => r.w.lg.date = today
        /\ r.where = "lost" => f.retry \notin Opened \/ f.rewrite # "ok"
    BY <2>4, Zenon DEF Retries
  <2>6. Keeps(w, r.w)
    <3>1. Keeps(w, u)
      BY <1>2, <2>2, KeepsTrans, Zenon
    <3> QED
      BY <2>5, <3>1, KeepsTrans, Zenon
  <2>7. CutBefore(w, r.w)
    BY <2>5, Zenon DEF CutBefore
  <2>8. r.w.lg.date \in {w.lg.date, today} /\ r.where \in {"file", "nowhere", "lost"}
    BY <1>2, <2>2, <2>5, Zenon
  <2>9. FaultsOf(f) = 0 => r.where = "file" /\ r.w.lg.date = today
    BY <1>o, <2>5, NamedFaults, Zenon
  <2>10. r.where = "lost" /\ w.lg.stuck = 0 => FaultsOf(f) >= 2
    <3>1. r.where = "lost" /\ w.lg.stuck = 0 =>
            f.write # "ok" /\ (f.retry \notin Opened \/ f.rewrite # "ok")
      BY <1>2, <1>5, <2>5, Zenon
    <3>2. f.write # "ok" /\ (f.retry \notin Opened \/ f.rewrite # "ok") => FaultsOf(f) >= 2
      BY NamedFaults
    <3> QED
      BY <3>1, <3>2, Zenon
  <2> QED
    BY <2>5, <2>6, <2>7, <2>8, <2>9, <2>10, Zenon DEF Logged
<1> QED
  BY <1>3, <1>4, <1>5, Zenon

-----------------------------------------------------------------------------
\* The dates gone were taken away.
Removes(w, o, gone, n, m, C, A) ==
    /\ Good(o, n, m, C, A)
    /\ o.overgrown = w.overgrown /\ o.clobbered = w.clobbered
    /\ o.lg.toFile = w.lg.toFile /\ o.lg.date = w.lg.date
    /\ o.lg.linked <=> w.lg.linked /\ w.lg.date \notin gone
    /\ \A x, d : Has(w.files, x, d) /\ d \notin gone => Has(o.files, x, d)

\* Another disk, and another Logger.
LEMMA WithDisk ==
    ASSUME NEW w, IsWorld(w), NEW ds, NEW gs, NEW l
    PROVE  [w EXCEPT !.dirs = ds, !.files = gs, !.lg = l] =
             [dirs |-> ds, files |-> gs, lg |-> l,
              overgrown |-> w.overgrown, clobbered |-> w.clobbered]
<1>1. PICK a, b, c, d, e :
        w = [dirs |-> a, files |-> b, lg |-> c, overgrown |-> d, clobbered |-> e]
  BY Zenon DEF IsWorld
<1>2. w.overgrown = d /\ w.clobbered = e
  BY <1>1
<1> DEFINE w1 == [w EXCEPT !.dirs = ds]
           w2 == [w1 EXCEPT !.files = gs]
<1>3. w1 = [dirs |-> ds, files |-> b, lg |-> c, overgrown |-> d, clobbered |-> e]
  BY <1>1
<1> HIDE DEF w1
<1>4. w2 = [dirs |-> ds, files |-> gs, lg |-> c, overgrown |-> d, clobbered |-> e]
  BY <1>3
<1> HIDE DEF w2
<1>5. [w2 EXCEPT !.lg = l] =
        [dirs |-> ds, files |-> gs, lg |-> l, overgrown |-> d, clobbered |-> e]
  BY <1>4
<1>6. [w EXCEPT !.dirs = ds, !.files = gs, !.lg = l] = [w2 EXCEPT !.lg = l]
  BY Zenon DEF w1, w2
<1> QED
  BY <1>2, <1>5, <1>6, Zenon

\* The file of the Logger may have lost its name.
Relinked(l, k, v) ==
    /\ IsLogger(k) /\ k.toFile = l.toFile /\ k.date = l.date /\ k.linked = v
    /\ k.bytes = l.bytes /\ k.stuck = l.stuck

(* The name alone changes. *)
LEMMA LinkedField ==
    ASSUME NEW l, IsLogger(l), NEW v \in BOOLEAN, NEW k, k = [l EXCEPT !.linked = v]
    PROVE  Relinked(l, k, v)
<1>1. PICK a, b, c, d, e :
        l = [toFile |-> a, date |-> b, linked |-> c, bytes |-> d, stuck |-> e]
  BY Zenon DEF IsLogger
<1>2. l.toFile = a /\ l.date = b /\ l.bytes = d /\ l.stuck = e
  BY <1>1
<1>3. k = [toFile |-> a, date |-> b, linked |-> v, bytes |-> d, stuck |-> e]
  BY <1>1
<1>4. k.toFile = a /\ k.date = b /\ k.linked = v /\ k.bytes = d /\ k.stuck = e
  BY <1>3
<1>5. IsLogger(k)
  BY <1>2, <1>3, <1>4, Zenon DEF IsLogger
<1> QED
  BY <1>2, <1>4, <1>5, Zenon DEF Relinked

(* Directories are removed, by the clean-up or by others. *)
LEMMA RemoveGood ==
    ASSUME NEW w, NEW n \in Nat, NEW m \in Nat, NEW C, NEW A, Good(w, n, m, C, A),
           NEW gone, NEW o, o = Remove(w, gone)
    PROVE  Removes(w, o, gone, n, m, C, A)
<1>w. /\ IsWorld(w) /\ FilesWell(w.files, n, m, w.overgrown) /\ Once(w.files, C, A)
      /\ Counted(w) /\ Holding(w, n, m, C, A) /\ IsLogger(w.lg)
  BY Zenon DEF Good, IsWorld
<1> DEFINE v == w.lg.linked /\ w.lg.date \notin gone
           l == [w.lg EXCEPT !.linked = v]
           gs == [k \in {x \in DOMAIN w.files : x[1] \notin gone} |-> w.files[k]]
           key == <<w.lg.date, 0>>
<1>v. v \in BOOLEAN /\ l = [w.lg EXCEPT !.linked = v]
  BY Zenon
<1>1. o = [dirs |-> w.dirs \ gone, files |-> gs, lg |-> l,
           overgrown |-> w.overgrown, clobbered |-> w.clobbered]
  <2> DEFINE ds == w.dirs \ gone
  <2>1. o = [w EXCEPT !.dirs = ds, !.files = gs, !.lg = l]
    BY Zenon DEF Remove
  <2> HIDE DEF ds, gs, l
  <2>2. o = [dirs |-> ds, files |-> gs, lg |-> l,
             overgrown |-> w.overgrown, clobbered |-> w.clobbered]
    BY <1>w, <2>1, WithDisk, Zenon
  <2> QED
    BY <2>2, Zenon DEF ds
<1>2. /\ DOMAIN gs = {x \in DOMAIN w.files : x[1] \notin gone}
      /\ \A k \in DOMAIN gs : gs[k] = w.files[k]
  OBVIOUS
<1>k. key[1] = w.lg.date
  OBVIOUS
<1> HIDE DEF gs, l, key
<1>3. o.files = gs /\ o.lg = l /\ o.overgrown = w.overgrown /\ o.clobbered = w.clobbered
  BY <1>1
<1> HIDE DEF v
<1>4. /\ IsLogger(l) /\ l.toFile = w.lg.toFile /\ l.date = w.lg.date /\ l.linked = v
      /\ l.bytes = w.lg.bytes /\ l.stuck = w.lg.stuck
  <2>1. Relinked(w.lg, l, v)
    BY <1>v, <1>w, LinkedField, Zenon
  <2> QED
    BY <2>1, Zenon DEF Relinked
<1>5. IsWorld(o)
  BY <1>1, <1>3, <1>4 DEF IsWorld
<1>6. \A k, i, x : At(gs, k, i, x) <=> At(w.files, k, i, x) /\ k[1] \notin gone
  BY <1>2, Zenon DEF At
<1>7. FilesWell(o.files, n, m, o.overgrown)
  <2>1. \A k \in DOMAIN gs : k \in DOMAIN w.files /\ gs[k] = w.files[k]
    BY <1>2, Zenon
  <2> QED
    BY <1>3, <1>w, <2>1, Zenon DEF FilesWell
<1>8. Once(o.files, C, A)
  BY <1>3, <1>6, <1>w DEF Once
<1>9. ASSUME l.toFile PROVE l.linked <=> key \in DOMAIN gs
  BY <1>2, <1>4, <1>9, <1>k, <1>w, Zenon DEF Counted, key, v
<1>10. ASSUME l.linked, l.toFile PROVE gs[key] = w.files[key] /\ w.lg.linked
  BY <1>2, <1>4, <1>9, <1>10, Zenon DEF v
<1>11. Counted(o)
  BY <1>3, <1>4, <1>9, <1>10, <1>w, Zenon DEF Counted, key
<1>12. Holding(o, n, m, C, A)
  <2>1. ASSUME l.stuck # 0
        PROVE  /\ l.stuck \in 1 .. n /\ l.stuck \notin C /\ l.stuck \notin A
               /\ 1 <= m
               /\ l.linked => Fits(gs, key, m, w.overgrown)
    <3>1. l.toFile
      BY <1>4, <2>1, Zenon DEF IsLogger
    <3>2. l.linked => gs[key] = w.files[key] /\ Fits(w.files, key, m, w.overgrown)
      BY <1>4, <1>10, <1>w, <2>1, <3>1, Zenon DEF Holding, key
    <3> QED
      BY <1>4, <1>w, <2>1, <3>2, Zenon DEF Holding, Fits
  <2> QED
    BY <1>3, <1>4, <2>1, Zenon DEF Holding, key
<1>13. ASSUME NEW x, NEW d, Has(w.files, x, d), d \notin gone PROVE Has(o.files, x, d)
  BY <1>3, <1>6, <1>13, Zenon DEF Has
<1>14. Good(o, n, m, C, A)
  BY <1>5, <1>7, <1>8, <1>11, <1>12, Zenon DEF Good
<1> QED
  BY <1>3, <1>4, <1>13, <1>14, Zenon DEF Removes, v

-----------------------------------------------------------------------------
\* Dates the clean-up spares: within the retention days, or last opened.
Spared(d, today, open) == d >= today - (kLogRetentionDays - 1) \/ (d = open /\ open # 0)

\* A clock that was read is of today or of the day before.
Fresh == \A t \in Threads : now[t] \in {0, day - 1, day}

\* The lines with fates ft that reached a file are in one, but for dates gone.
Still(fs, ft, gone, today, open) ==
    \A n \in DOMAIN ft :
        ft[n].where = "file" /\ ft[n].dir \notin gone /\ Spared(ft[n].dir, today, open)
            => Has(fs, n, ft[n].dir)

\* What log() promises of the line it is given.
Promised(x) ==
    /\ x.faults = 0 => x.dir = x.stamp /\ (x.where = "file" \/ (x.where = "nowhere" /\ x.cut))
    /\ x.where = "lost" /\ x.sound => x.faults >= 2

Fates == {x \in [where : {"file", "nowhere", "lost"}, stamp : Nat, dir : Nat, faults : Nat,
                 sound : BOOLEAN, cut : BOOLEAN] : Promised(x)}

\* The lines whose call met no failure.
Clean(ft) == {i \in DOMAIN ft : ft[i].faults = 0}

IndInv ==
    /\ day \in Nat \ {0} /\ now \in [Threads -> Nat] /\ Fresh
    /\ faults \in Nat /\ fate \in Seq(Fates)
    /\ Good(World, Len(fate), faults, Clean(fate), {})
    /\ Still(files, fate, swept \cup clobbered, day, lg.date)
    /\ ActiveNeverPruned

(* The fate of a line is one of those log() promises. *)
LEMMA OneFate == ASSUME NEW ft \in Seq(Fates) PROVE \A i \in DOMAIN ft : ft[i] \in Fates
<1>1. ASSUME NEW S, NEW s \in Seq(S) PROVE \A i \in DOMAIN s : s[i] \in S
  OBVIOUS
<1> QED
  BY <1>1, Zenon

\* The directory a line went to is a date.
LEMMA FateDates == ASSUME NEW ft \in Seq(Fates) PROVE \A i \in DOMAIN ft : ft[i].dir \in Nat
<1>1. \A x \in Fates : x.dir \in Nat
  BY DEF Fates
<1> QED
  BY <1>1, OneFate, Zenon

(* A spared date was spared the day before, and before another one was opened; *)
(* the clean-up leaves it.                                                    *)
LEMMA SparedBefore ==
    ASSUME NEW d \in Nat, NEW today \in Nat \ {0}, NEW open, Spared(d, today + 1, open)
    PROVE  Spared(d, today, open)
BY LoggerAssumption DEF Spared

\* Opening a file of today or of the day before spares no further date.
LEMMA SparedAgain ==
    ASSUME NEW d \in Nat, NEW today \in Nat, NEW open, NEW open2,
           open2 \in {open, today - 1, today}, Spared(d, today, open2)
    PROVE  Spared(d, today, open)
BY LoggerAssumption DEF Spared

\* The clean-up takes no date that is spared.
LEMMA SparedStays ==
    ASSUME NEW w, NEW d \in Nat, day \in Nat \ {0}, Spared(d, day, w.lg.date)
    PROVE  d \notin Expired(w)
BY LoggerAssumption DEF Spared, Expired

\* The next world keeps the lines of the dates it spares.
Spares(o, gone) ==
    \A i \in DOMAIN fate :
        fate[i].dir \notin gone /\ Spared(fate[i].dir, day, o.lg.date) =>
            /\ Spared(fate[i].dir, day, lg.date)
            /\ Has(files, i, fate[i].dir) => Has(o.files, i, fate[i].dir)

(* A step from world to world in which nothing is logged. *)
LEMMA Settled ==
    ASSUME IndInv, NEW o, Becomes(o), faults' \in Nat,
           Good(o, Len(fate), faults', Clean(fate), {}),
           UNCHANGED <<day, fate>>, now' \in [Threads -> Nat], Fresh',
           swept \subseteq swept', clobbered \subseteq o.clobbered,
           Spares(o, swept' \cup o.clobbered),
           o.lg.toFile /\ ~o.lg.linked => o.lg.date \in swept'
    PROVE  IndInv'
<1>1. World' = o /\ files' = o.files /\ lg' = o.lg /\ clobbered' = o.clobbered
  BY Zenon DEF Becomes, World, Good, IsWorld
<1>2. Still(o.files, fate, swept' \cup o.clobbered, day, o.lg.date)
  <2> DEFINE gone == swept \cup clobbered
             gone2 == swept' \cup o.clobbered
  <2>1. Still(files, fate, gone, day, lg.date)
    BY Zenon DEF IndInv
  <2>2. gone \subseteq gone2
    OBVIOUS
  <2>3. Spares(o, gone2)
    OBVIOUS
  <2> HIDE DEF gone, gone2
  <2>4. Still(o.files, fate, gone2, day, o.lg.date)
    BY <2>1, <2>2, <2>3, Zenon DEF Still, Spares
  <2> QED
    BY <2>4, Zenon DEF gone2
<1>3. day' \in Nat \ {0} /\ fate' \in Seq(Fates) /\ fate' = fate /\ day' = day
  BY Zenon DEF IndInv
<1>4. ActiveNeverPruned'
  BY <1>1, Zenon DEF ActiveNeverPruned
<1>5. Good(World', Len(fate'), faults', Clean(fate'), {})
  BY <1>1, <1>3, Zenon
<1>6. Still(files', fate', swept' \cup clobbered', day', lg'.date)
  BY <1>1, <1>2, <1>3, Zenon
<1> QED
  BY <1>3, <1>4, <1>5, <1>6, Zenon DEF IndInv

(* The clean-up, from a world that keeps the lines. *)
LEMMA PruneStep ==
    ASSUME IndInv, NEW w, faults' \in Nat, Good(w, Len(fate), faults', Clean(fate), {}),
           NEW gone \in SUBSET Expired(w), prune(w, gone),
           UNCHANGED <<day, fate, swept>>, clobbered \subseteq w.clobbered,
           Spares(w, swept \cup w.clobbered),
           w.lg.toFile /\ ~w.lg.linked => w.lg.date \in swept
    PROVE  IndInv'
<1> DEFINE o == Remove(w, gone)
           n == Len(fate)
<1>1. Becomes(o) /\ now' = [now EXCEPT ![Loop] = IF gone # {} THEN day ELSE 0]
  BY Zenon DEF prune
<1>2. /\ day \in Nat \ {0} /\ n \in Nat /\ now \in [Threads -> Nat] /\ Fresh
      /\ fate \in Seq(Fates) /\ day' = day /\ Loop \in Threads
  BY LoggerAssumption DEF IndInv
<1>3. Removes(w, o, gone, n, faults', Clean(fate), {})
  BY <1>2, RemoveGood, Zenon
<1> HIDE DEF o
<1>4. /\ Good(o, n, faults', Clean(fate), {}) /\ o.clobbered = w.clobbered
      /\ o.lg.toFile = w.lg.toFile /\ o.lg.date = w.lg.date
      /\ o.lg.linked <=> w.lg.linked /\ w.lg.date \notin gone
      /\ \A x, d : Has(w.files, x, d) /\ d \notin gone => Has(o.files, x, d)
  BY <1>3, Zenon DEF Removes
<1>5. now' \in [Threads -> Nat] /\ \A t \in Threads : now'[t] \in {now[t], 0, day}
  BY <1>1, <1>2
<1>6. Fresh'
  BY <1>2, <1>5, Zenon DEF Fresh
<1>7. Spares(o, swept' \cup o.clobbered)
  <2>1. ASSUME NEW i \in DOMAIN fate, fate[i].dir \notin swept' \cup o.clobbered,
               Spared(fate[i].dir, day, o.lg.date)
        PROVE  /\ Spared(fate[i].dir, day, lg.date)
               /\ Has(files, i, fate[i].dir) => Has(o.files, i, fate[i].dir)
    <3>1. fate[i].dir \in Nat
      BY <1>2, FateDates, Zenon
    <3>2. fate[i].dir \notin Expired(w)
      BY <1>2, <1>4, <2>1, <3>1, SparedStays, Zenon
    <3>3. fate[i].dir \notin gone
      BY <3>2
    <3>4. fate[i].dir \notin swept \cup w.clobbered /\ Spared(fate[i].dir, day, w.lg.date)
      BY <1>4, <2>1, Zenon
    <3>5. /\ Spared(fate[i].dir, day, lg.date)
          /\ Has(files, i, fate[i].dir) => Has(w.files, i, fate[i].dir)
      BY <3>4, Zenon DEF Spares
    <3> QED
      BY <1>4, <3>3, <3>5, Zenon
  <2> QED
    BY <2>1, Zenon DEF Spares
<1>8. w.lg.date \notin gone
  BY DEF Expired
<1>9. o.lg.toFile /\ ~o.lg.linked => o.lg.date \in swept'
  BY <1>4, <1>8, Zenon
<1>10. swept \subseteq swept' /\ clobbered \subseteq o.clobbered /\ UNCHANGED <<day, fate>>
  BY <1>4
<1> QED
  BY <1>1, <1>4, <1>5, <1>6, <1>7, <1>9, <1>10, Settled, Zenon

(* main(): openFile() and the first clean-up. *)
LEMMA StartInv == ASSUME IndInv, NEW how \in Opening, start(how) PROVE IndInv'
<1> DEFINE w == World
           opened == openForDate(w, day, how, {})
           n == Len(fate)
<1>1. /\ day \in Nat \ {0} /\ n \in Nat /\ faults \in Nat /\ fate \in Seq(Fates)
      /\ now \in [Threads -> Nat] /\ Fresh /\ 0 \notin {}
      /\ Good(w, n, faults, Clean(fate), {}) /\ ActiveNeverPruned
  BY DEF IndInv
<1>2. UNCHANGED <<day, fate, swept>> /\ faults' = IF how = "ok" THEN faults ELSE faults + 1
  BY Zenon DEF start
<1>3. \/ how \in Opened /\ \E gone \in SUBSET Expired(opened) : prune(opened, gone)
      \/ how \notin Opened /\ Becomes(opened) /\ UNCHANGED now
  BY Zenon DEF start
<1>w. w.files = files /\ w.lg = lg /\ w.clobbered = clobbered
  BY DEF World
<1> HIDE DEF w
<1>4. Opens(w, closed(w, {}), opened, day, how, n, faults, Clean(fate), {})
  BY <1>1, OpenGood, Zenon
<1> HIDE DEF opened
<1>5. /\ Good(opened, n, faults, Clean(fate), {}) /\ Keeps(w, opened)
      /\ opened.clobbered = clobbered
      /\ how \in Opened => opened.lg.linked /\ opened.lg.date = day
      /\ how \notin Opened => opened.lg = lg
  BY <1>4, <1>w, Zenon DEF Opens
<1>6. faults' \in Nat /\ faults <= faults'
  BY <1>1, <1>2
<1>7. Good(opened, n, faults', Clean(fate), {})
  BY <1>1, <1>5, <1>6, GoodWeakens, Zenon
<1>8. opened.lg.toFile /\ ~opened.lg.linked => opened.lg.date \in swept
  BY <1>1, <1>5, Zenon DEF ActiveNeverPruned
<1>9. Spares(opened, swept \cup opened.clobbered)
  <2>1. ASSUME NEW i \in DOMAIN fate, fate[i].dir \notin swept \cup opened.clobbered,
               Spared(fate[i].dir, day, opened.lg.date)
        PROVE  /\ Spared(fate[i].dir, day, lg.date)
               /\ Has(files, i, fate[i].dir) => Has(opened.files, i, fate[i].dir)
    <3>1. fate[i].dir \in Nat /\ day \in Nat /\ fate[i].dir \notin opened.clobbered
      BY <1>1, <2>1, FateDates
    <3>2. opened.lg.date \in {lg.date, day - 1, day}
      BY <1>5, Zenon
    <3>3. Spared(fate[i].dir, day, lg.date)
      BY <2>1, <3>1, <3>2, SparedAgain, Zenon
    <3> QED
      BY <1>5, <1>w, <3>1, <3>3, Zenon DEF Keeps
  <2> QED
    BY <2>1, Zenon DEF Spares
<1>10. clobbered \subseteq opened.clobbered /\ swept \subseteq swept'
  BY <1>2, <1>5
<1>11. CASE how \in Opened
  <2>1. PICK gone \in SUBSET Expired(opened) : prune(opened, gone)
    BY <1>3, <1>11, Zenon
  <2> QED
    BY <1>2, <1>6, <1>7, <1>8, <1>9, <1>10, <2>1, PruneStep, Zenon
<1>12. CASE how \notin Opened
  <2>1. Becomes(opened) /\ now' = now
    BY <1>3, <1>12, Zenon
  <2>2. now' \in [Threads -> Nat] /\ Fresh'
    BY <1>1, <1>2, <2>1, Zenon DEF Fresh
  <2>3. UNCHANGED <<day, fate>> /\ swept' = swept
    BY <1>2
  <2> QED
    BY <1>6, <1>7, <1>8, <1>9, <1>10, <2>1, <2>2, <2>3, Settled, Zenon
<1> QED
  BY <1>11, <1>12, Zenon

(* close() at the end of main(), or a crash. *)
LEMMA ExitInv == ASSUME IndInv, NEW late \in SUBSET Held, exit(late) PROVE IndInv'
<1> DEFINE w == World
           c == closed(w, late)
           o == [c EXCEPT !.lg = Closed]
           n == Len(fate)
<1>1. /\ day \in Nat \ {0} /\ n \in Nat /\ faults \in Nat /\ fate \in Seq(Fates)
      /\ Good(w, n, faults, Clean(fate), {})
  BY DEF IndInv
<1>2. Becomes(o) /\ now' = Idle /\ UNCHANGED <<day, fate>> /\ swept' = swept /\ faults' = faults
  BY Zenon DEF exit
<1>w. w.files = files /\ w.lg = lg /\ w.clobbered = clobbered
  BY DEF World
<1>3. 0 \notin late
  BY DEF Held
<1> HIDE DEF w
<1>4. Closes(w, c, n, faults, Clean(fate), {})
  BY <1>1, <1>3, CloseGood, Zenon
<1> HIDE DEF c
<1>5. /\ Good(c, n, faults, Clean(fate), {}) /\ Keeps(w, c) /\ c.clobbered = clobbered
  BY <1>4, <1>w, Zenon DEF Closes
<1>6. /\ IsLogger(Closed) /\ Closed.toFile = FALSE /\ Closed.stuck = 0 /\ Closed.date = 0
  BY DEF Closed, IsLogger
<1>7. /\ IsWorld(o) /\ o.lg = Closed /\ o.files = c.files
      /\ o.overgrown = c.overgrown /\ o.clobbered = c.clobbered
  <2>1. IsWorld(c) /\ o = [c EXCEPT !.lg = Closed]
    BY <1>5, Zenon DEF Good
  <2> HIDE DEF o
  <2> QED
    BY <1>6, <2>1, WithLogger
<1> HIDE DEF o
<1>8. Good(o, n, faults, Clean(fate), {})
  <2>1. FilesWell(o.files, n, faults, o.overgrown) /\ Once(o.files, Clean(fate), {})
    BY <1>5, <1>7, Zenon DEF Good
  <2>2. Counted(o) /\ Holding(o, n, faults, Clean(fate), {})
    BY <1>6, <1>7, Zenon DEF Counted, Holding
  <2> QED
    BY <1>7, <2>1, <2>2, Zenon DEF Good
<1>9. now' \in [Threads -> Nat] /\ Fresh'
  BY <1>2 DEF Fresh, Idle
<1>10. Spares(o, swept' \cup o.clobbered)
  <2>1. ASSUME NEW i \in DOMAIN fate, fate[i].dir \notin swept' \cup o.clobbered,
               Spared(fate[i].dir, day, o.lg.date)
        PROVE  /\ Spared(fate[i].dir, day, lg.date)
               /\ Has(files, i, fate[i].dir) => Has(o.files, i, fate[i].dir)
    <3>1. fate[i].dir \notin o.clobbered
      BY <2>1
    <3>2. Spared(fate[i].dir, day, lg.date)
      BY <1>6, <1>7, <2>1, Zenon DEF Spared
    <3> QED
      BY <1>5, <1>7, <1>w, <3>1, <3>2, Zenon DEF Keeps
  <2> QED
    BY <2>1, Zenon DEF Spares
<1>11. swept \subseteq swept' /\ clobbered \subseteq o.clobbered
  BY <1>2, <1>5, <1>7
<1>12. o.lg.toFile /\ ~o.lg.linked => o.lg.date \in swept'
  BY <1>6, <1>7, Zenon
<1>13. faults' \in Nat /\ Good(o, n, faults', Clean(fate), {})
  BY <1>1, <1>2, <1>8, Zenon
<1> QED
  BY <1>2, <1>9, <1>10, <1>11, <1>12, <1>13, Settled, Zenon

(* A line that is about to be logged is nowhere yet. *)
LEMMA GoodNext ==
    ASSUME NEW w, NEW n \in Nat, NEW m \in Nat, NEW C, Good(w, n, m, C, {}),
           NEW A, A \subseteq {n + 1}
    PROVE  Good(w, n + 1, m, C, A)
<1>1. /\ IsWorld(w) /\ FilesWell(w.files, n, m, w.overgrown) /\ Once(w.files, C, {})
      /\ Counted(w) /\ Holding(w, n, m, C, {})
  BY Zenon DEF Good
<1>2. FilesWell(w.files, n + 1, m, w.overgrown)
  <2>1. n <= n + 1 /\ n + 1 \in Nat /\ m <= m /\ w.overgrown \subseteq w.overgrown
    OBVIOUS
  <2> QED
    BY <1>1, <2>1, WellWeakens, Zenon
<1>3. ASSUME NEW k, NEW i, NEW x, At(w.files, k, i, x) PROVE x \notin A
  <2> DEFINE s == w.files[k]
             S == 1 .. n
  <2>1. s \in Seq(S) /\ i \in DOMAIN s /\ s[i] = x
    BY <1>1, <1>3, Zenon DEF At, FilesWell
  <2> HIDE DEF s, S
  <2>2. x \in S
    BY <2>1
  <2> QED
    BY <2>2 DEF S
<1>4. Once(w.files, C, A)
  BY <1>1, <1>3, Zenon DEF Once
<1>5. ASSUME w.lg.stuck \in 1 .. n PROVE w.lg.stuck \in 1 .. n + 1 /\ w.lg.stuck \notin A
  BY <1>5
<1>6. Holding(w, n + 1, m, C, A)
  BY <1>1, <1>5, Zenon DEF Holding
<1> QED
  BY <1>1, <1>2, <1>4, <1>6, Zenon DEF Good

(* log(): the line gets its fate, and the lines before it stay. *)
LEMMA LogInv ==
    ASSUME IndInv, NEW t \in Threads, NEW f \in Troubles, NEW late \in SUBSET HeldIn(f),
           logLocked(t, f, late)
    PROVE  IndInv'
<1> DEFINE w == World
           today == now[t]
           n == Len(fate) + 1
           C == Clean(fate)
           A == IF FaultsOf(f) = 0 THEN {n} ELSE {}
           mm == faults + FaultsOf(f)
<1>1. PICK r \in {log(World, now[t], f, Len(fate) + 1, late)} :
        /\ Becomes(r.w)
        /\ fate' = Append(fate, [where |-> r.where, stamp |-> now[t], dir |-> r.w.lg.date,
                                 faults |-> FaultsOf(f),
                                 sound |-> lg.toFile /\ lg.stuck = 0 /\ f.reopen \in Opened,
                                 cut |-> lg.toFile /\ ~lg.linked])
  BY Zenon DEF logLocked
<1>2. /\ now[t] # 0 /\ now' = [now EXCEPT ![t] = 0] /\ UNCHANGED <<day, swept>>
      /\ faults' = faults + FaultsOf(f)
  BY Zenon DEF logLocked
<1>3. /\ day \in Nat \ {0} /\ Len(fate) \in Nat /\ n \in Nat /\ n # 0 /\ faults \in Nat
      /\ fate \in Seq(Fates)
      /\ today \in Nat \ {0} /\ today \in {day - 1, day} /\ f \in Trouble
      /\ now \in [Threads -> Nat] /\ Fresh
  BY <1>2 DEF IndInv, Fresh, Troubles
<1>4. 0 \notin late
  BY <1>3 DEF HeldIn, Held
<1>5. FaultsOf(f) \in Nat /\ mm \in Nat
  BY <1>3, NamedFaults
<1>6. /\ A \subseteq {n} /\ (A = {} \/ A = {n}) /\ (FaultsOf(f) # 0 => A = {})
      /\ (FaultsOf(f) = 0 => A = {n})
  OBVIOUS
<1>7. n \notin C /\ C = {i \in DOMAIN fate : fate[i].faults = 0}
  BY <1>3 DEF Clean
<1>8. Good(w, n, faults, C, A) /\ w.lg = lg /\ w.files = files /\ w.clobbered = clobbered
  <2>1. Good(w, Len(fate), faults, C, {})
    BY Zenon DEF IndInv
  <2>2. Good(w, Len(fate) + 1, faults, C, A)
    BY <1>3, <1>6, <2>1, GoodNext, Zenon
  <2>3. w.lg = lg /\ w.files = files /\ w.clobbered = clobbered
    BY DEF World
  <2> QED
    BY <2>2, <2>3, Zenon
<1>9. r = log(w, today, f, n, late) /\ mm = faults + FaultsOf(f)
  BY <1>1, Zenon
<1>x. fate' = Append(fate, [where |-> r.where, stamp |-> today, dir |-> r.w.lg.date,
                            faults |-> FaultsOf(f),
                            sound |-> lg.toFile /\ lg.stuck = 0 /\ f.reopen \in Opened,
                            cut |-> lg.toFile /\ ~lg.linked])
  BY <1>1, Zenon
<1>n. n = Len(fate) + 1
  OBVIOUS
<1> HIDE DEF w, today, n, C, A, mm
<1>10. Logged(w, r, f, today, n, mm, C, A)
  BY <1>3, <1>4, <1>6, <1>7, <1>8, <1>9, LogGood, Zenon
<1>11. /\ Good(r.w, n, mm, C \cup A, {}) /\ Keeps(w, r.w) /\ CutBefore(w, r.w)
       /\ r.w.lg.date \in {lg.date, today}
       /\ r.where \in {"file", "nowhere", "lost"}
       /\ r.where = "file" => Has(r.w.files, n, r.w.lg.date)
       /\ FaultsOf(f) = 0 =>
             /\ r.w.lg.date = today
             /\ r.where = "file" \/ (r.where = "nowhere" /\ lg.toFile /\ ~lg.linked)
       /\ r.where = "lost" /\ lg.toFile /\ lg.stuck = 0 /\ f.reopen \in Opened => FaultsOf(f) >= 2
  BY <1>8, <1>10, Zenon DEF Logged
<1>12. /\ World' = r.w /\ files' = r.w.files /\ lg' = r.w.lg /\ clobbered' = r.w.clobbered
       /\ r.w.lg.date \in Nat
  BY <1>1, <1>11, Zenon DEF Becomes, World, Good, IsWorld, IsLogger
<1> DEFINE sd == lg.toFile /\ lg.stuck = 0 /\ f.reopen \in Opened
           ct == lg.toFile /\ ~lg.linked
           x == [where |-> r.where, stamp |-> today, dir |-> r.w.lg.date,
                 faults |-> FaultsOf(f), sound |-> sd, cut |-> ct]
<1>13. x \in Fates /\ x.where = r.where /\ x.dir = r.w.lg.date /\ x.faults = FaultsOf(f)
  <2>1. sd \in BOOLEAN /\ ct \in BOOLEAN
    OBVIOUS
  <2>2. FaultsOf(f) = 0 => r.w.lg.date = today /\ (r.where = "file" \/ (r.where = "nowhere" /\ ct))
    BY <1>11, Zenon
  <2>3. r.where = "lost" /\ sd => FaultsOf(f) >= 2
    BY <1>11, Zenon
  <2> HIDE DEF sd, ct
  <2>4. /\ x.where = r.where /\ x.stamp = today /\ x.dir = r.w.lg.date
        /\ x.faults = FaultsOf(f) /\ x.sound = sd /\ x.cut = ct
    OBVIOUS
  <2>5. x \in [where : {"file", "nowhere", "lost"}, stamp : Nat, dir : Nat, faults : Nat,
               sound : BOOLEAN, cut : BOOLEAN]
    <3>1. today \in Nat
      BY <1>3
    <3> QED
      BY <1>5, <1>11, <1>12, <2>1, <3>1, Zenon
  <2> HIDE DEF x
  <2>6. Promised(x)
    BY <2>2, <2>3, <2>4, Zenon DEF Promised
  <2> QED
    BY <2>4, <2>5, <2>6, Zenon DEF Fates
<1>14. fate' = Append(fate, x)
  BY <1>x, Zenon
<1> HIDE DEF x
<1>15. /\ fate' \in Seq(Fates) /\ Len(fate') = n /\ DOMAIN fate' = DOMAIN fate \cup {n}
       /\ n \notin DOMAIN fate
       /\ fate'[n] = x /\ \A i \in DOMAIN fate : fate'[i] = fate[i]
  <2> DEFINE S == Fates
             q == fate'
             s == fate
  <2>1. s \in Seq(S) /\ x \in S /\ q = Append(s, x)
    BY <1>3, <1>13, <1>14, Zenon
  <2> HIDE DEF S, q, s
  <2>2. /\ q \in Seq(S) /\ Len(q) = Len(s) + 1 /\ DOMAIN q = DOMAIN s \cup {Len(s) + 1}
        /\ Len(s) + 1 \notin DOMAIN s
        /\ q[Len(s) + 1] = x /\ \A i \in DOMAIN s : q[i] = s[i]
    BY <2>1, OneMore
  <2> QED
    BY <1>n, <2>2, Zenon DEF q, s, S
<1>16. Clean(fate') = C \cup A
  <2>1. ASSUME NEW i PROVE i \in Clean(fate') <=> i \in C \cup A
    <3>1. i \in Clean(fate') <=> i \in DOMAIN fate' /\ fate'[i].faults = 0
      BY Zenon DEF Clean
    <3>2. i \in A <=> i = n /\ FaultsOf(f) = 0
      BY <1>6
    <3>3. i \in C <=> i \in DOMAIN fate /\ fate[i].faults = 0
      BY <1>7, Zenon
    <3>4. CASE i = n
      BY <1>13, <1>15, <3>1, <3>2, <3>3, <3>4, Zenon
    <3>5. CASE i # n
      BY <1>15, <3>1, <3>2, <3>3, <3>5, Zenon
    <3> QED
      BY <3>4, <3>5, Zenon
  <2> QED
    BY <2>1
<1>17. now' \in [Threads -> Nat] /\ \A u \in Threads : now'[u] \in {now[u], 0}
  BY <1>2, <1>3
<1>18. Fresh' /\ day' = day /\ swept' = swept
  BY <1>2, <1>3, <1>17, Zenon DEF Fresh
<1>19. ActiveNeverPruned'
  <2>1. ActiveNeverPruned
    BY Zenon DEF IndInv
  <2> QED
    BY <1>8, <1>11, <1>12, <1>18, <2>1, Zenon DEF ActiveNeverPruned, CutBefore
<1>20. ASSUME NEW i \in DOMAIN fate', fate'[i].where = "file",
              fate'[i].dir \notin swept' \cup clobbered', Spared(fate'[i].dir, day, lg'.date)
       PROVE  Has(files', i, fate'[i].dir)
  <2>1. CASE i = n
    BY <1>11, <1>12, <1>13, <1>15, <1>20, <2>1, Zenon
  <2>2. CASE i # n
    <3> DEFINE d == fate[i].dir
    <3>1. i \in DOMAIN fate /\ fate'[i] = fate[i] /\ fate[i].where = "file"
      BY <1>15, <1>20, <2>2, Zenon
    <3>2. /\ d \in Nat /\ day \in Nat /\ Spared(d, day, lg'.date)
          /\ lg'.date \in {lg.date, day - 1, day}
      <4>1. d \in Nat
        BY <1>3, <3>1, FateDates, Zenon
      <4>2. day \in Nat
        BY <1>3
      <4>3. lg'.date \in {lg.date, day - 1, day}
        BY <1>3, <1>11, <1>12, Zenon
      <4> QED
        BY <1>20, <3>1, <4>1, <4>2, <4>3, Zenon
    <3>3. d \notin swept \cup clobbered /\ d \notin r.w.clobbered
      <4>1. d \notin swept /\ d \notin clobbered'
        BY <1>18, <1>20, <3>1
      <4>2. clobbered \subseteq clobbered'
        BY <1>8, <1>11, <1>12, Zenon DEF Keeps
      <4> QED
        BY <1>12, <4>1, <4>2
    <3> HIDE DEF d
    <3>4. Spared(d, day, lg.date)
      BY <3>2, SparedAgain, Zenon
    <3>5. Has(files, i, d)
      <4>1. Still(files, fate, swept \cup clobbered, day, lg.date)
        BY Zenon DEF IndInv
      <4> QED
        BY <3>1, <3>3, <3>4, <4>1, Zenon DEF Still, d
    <3>6. Has(files', i, d)
      BY <1>8, <1>11, <1>12, <3>3, <3>5, Zenon DEF Keeps
    <3> QED
      BY <3>1, <3>6, Zenon DEF d
  <2> QED
    BY <2>1, <2>2, Zenon
<1>21. Still(files', fate', swept' \cup clobbered', day', lg'.date)
  BY <1>18, <1>20, Zenon DEF Still
<1>22. Good(World', Len(fate'), faults', Clean(fate'), {}) /\ faults' \in Nat
  BY <1>2, <1>5, <1>9, <1>11, <1>12, <1>15, <1>16, Zenon
<1>23. day' \in Nat \ {0}
  BY <1>3, <1>18, Zenon
<1> QED
  BY <1>15, <1>17, <1>18, <1>19, <1>21, <1>22, <1>23, Zenon DEF IndInv

(* The invariant holds initially: no file is open and no line logged. *)
LEMMA InitInv == Init => IndInv
<1> SUFFICES ASSUME Init PROVE IndInv
  OBVIOUS
<1>1. /\ day \in Nat \ {0} /\ now \in [Threads -> Nat] /\ Fresh
      /\ faults \in Nat /\ fate = << >> /\ files = << >> /\ lg = Closed /\ Len(fate) = 0
  BY DEF Init, Idle, Fresh
<1>2. /\ IsLogger(Closed) /\ Closed.toFile = FALSE /\ Closed.stuck = 0
  BY DEF Closed, IsLogger
<1>3. IsWorld(World) /\ World.files = files /\ World.lg = lg
  BY <1>1, <1>2 DEF World, IsWorld
<1>4. DOMAIN files = {} /\ DOMAIN fate = {} /\ fate \in Seq(Fates)
  BY <1>1
<1>5. Counted(World) /\ Holding(World, Len(fate), faults, Clean(fate), {})
  BY <1>1, <1>2, <1>3, Zenon DEF Counted, Holding
<1>6. FilesWell(World.files, Len(fate), faults, World.overgrown)
  BY <1>3, <1>4, Zenon DEF FilesWell
<1>7. Once(World.files, Clean(fate), {})
  BY <1>3, <1>4, Zenon DEF Once, At
<1>8. Still(files, fate, swept \cup clobbered, day, lg.date)
  BY <1>4, Zenon DEF Still
<1>9. ActiveNeverPruned
  BY <1>1, <1>2, Zenon DEF ActiveNeverPruned
<1> QED
  BY <1>1, <1>3, <1>4, <1>5, <1>6, <1>7, <1>8, <1>9, Zenon DEF IndInv, Good

(* The removal of logs/ by others. *)
LEMMA SweepInv == ASSUME IndInv, sweep PROVE IndInv'
<1> DEFINE w == World
           o == Remove(w, dirs)
           n == Len(fate)
<1>1. /\ n \in Nat /\ faults \in Nat /\ now \in [Threads -> Nat] /\ Fresh
      /\ Good(w, n, faults, Clean(fate), {}) /\ ActiveNeverPruned
  BY DEF IndInv
<1>2. /\ Becomes(o) /\ UNCHANGED <<day, fate>> /\ now' = now /\ faults' = faults
      /\ swept' = swept \cup dirs
  BY Zenon DEF sweep
<1>w. w.files = files /\ w.lg = lg /\ w.clobbered = clobbered
  BY DEF World
<1> HIDE DEF w
<1>3. Removes(w, o, dirs, n, faults, Clean(fate), {})
  BY <1>1, RemoveGood, Zenon
<1> HIDE DEF o
<1>4. /\ Good(o, n, faults, Clean(fate), {}) /\ o.clobbered = clobbered
      /\ o.lg.toFile = lg.toFile /\ o.lg.date = lg.date
      /\ o.lg.linked <=> lg.linked /\ lg.date \notin dirs
      /\ \A x, d : Has(files, x, d) /\ d \notin dirs => Has(o.files, x, d)
  BY <1>3, <1>w, Zenon DEF Removes
<1>5. Spares(o, swept' \cup o.clobbered)
  <2>1. ASSUME NEW i \in DOMAIN fate, fate[i].dir \notin swept' \cup o.clobbered
        PROVE  fate[i].dir \notin dirs
    BY <1>2, <2>1
  <2> QED
    BY <1>4, <2>1, Zenon DEF Spares
<1>6. o.lg.toFile /\ ~o.lg.linked => o.lg.date \in swept'
  <2>1. lg.toFile /\ ~lg.linked => lg.date \in swept
    BY <1>1, Zenon DEF ActiveNeverPruned
  <2> QED
    BY <1>2, <1>4, <2>1
<1>7. /\ now' \in [Threads -> Nat] /\ Fresh' /\ faults' \in Nat
      /\ Good(o, n, faults', Clean(fate), {})
  BY <1>1, <1>2, <1>4, Zenon DEF Fresh
<1>8. swept \subseteq swept' /\ clobbered \subseteq o.clobbered
  BY <1>2, <1>4
<1> QED
  BY <1>2, <1>5, <1>6, <1>7, <1>8, Settled, Zenon

(* onPruneTick(). *)
LEMMA PruneTickInv == ASSUME IndInv, onPruneTick PROVE IndInv'
<1> DEFINE w == World
<1>1. PICK gone \in SUBSET Expired(w) : prune(w, gone)
  BY Zenon DEF onPruneTick
<1>2. UNCHANGED <<day, fate, swept>> /\ faults' = faults
  BY Zenon DEF onPruneTick
<1>3. faults \in Nat /\ Good(w, Len(fate), faults, Clean(fate), {}) /\ ActiveNeverPruned
  BY Zenon DEF IndInv
<1>4. w.files = files /\ w.lg = lg /\ clobbered \subseteq w.clobbered
  BY DEF World
<1> HIDE DEF w
<1>5. Spares(w, swept \cup w.clobbered)
  BY <1>4, Zenon DEF Spares
<1>6. w.lg.toFile /\ ~w.lg.linked => w.lg.date \in swept
  BY <1>3, <1>4, Zenon DEF ActiveNeverPruned
<1>7. faults' \in Nat /\ Good(w, Len(fate), faults', Clean(fate), {})
  BY <1>2, <1>3, Zenon
<1> QED
  BY <1>1, <1>2, <1>4, <1>5, <1>6, <1>7, PruneStep, Zenon

\* What a step that writes nothing leaves as it is.
Untouched == UNCHANGED <<dirs, files, lg, fate, swept, overgrown, clobbered, faults>>

(* The clock moves, or is read. *)
LEMMA ClockInv ==
    ASSUME IndInv, Untouched, day' \in {day, day + 1}, now' \in [Threads -> Nat], Fresh'
    PROVE  IndInv'
<1>1. /\ day \in Nat \ {0} /\ fate \in Seq(Fates) /\ ActiveNeverPruned
      /\ Still(files, fate, swept \cup clobbered, day, lg.date)
      /\ Good(World, Len(fate), faults, Clean(fate), {}) /\ faults \in Nat
  BY Zenon DEF IndInv
<1>2. /\ dirs' = dirs /\ files' = files /\ lg' = lg /\ fate' = fate /\ swept' = swept
      /\ overgrown' = overgrown /\ clobbered' = clobbered /\ faults' = faults
  BY DEF Untouched
<1>3. World' = World
  BY <1>2, Zenon DEF World
<1>4. \A i \in DOMAIN fate : Spared(fate[i].dir, day', lg.date) => Spared(fate[i].dir, day, lg.date)
  <2>1. CASE day' = day
    BY <2>1, Zenon
  <2>2. CASE day' = day + 1
    BY <1>1, <2>2, FateDates, SparedBefore, Zenon
  <2> QED
    BY <2>1, <2>2
<1>5. Still(files, fate, swept \cup clobbered, day', lg.date)
  BY <1>1, <1>4, Zenon DEF Still
<1>6. day' \in Nat \ {0}
  BY <1>1
<1>7. ActiveNeverPruned'
  BY <1>1, <1>2, Zenon DEF ActiveNeverPruned
<1> QED
  BY <1>1, <1>2, <1>3, <1>5, <1>6, <1>7, Zenon DEF IndInv

(* Every step keeps the invariant. *)
LEMMA NextInv == IndInv /\ [Next]_vars => IndInv'
<1> SUFFICES ASSUME IndInv, [Next]_vars PROVE IndInv'
  OBVIOUS
<1>t. day \in Nat \ {0} /\ now \in [Threads -> Nat] /\ Fresh
  BY Zenon DEF IndInv
<1>1. ASSUME NEW how \in Opening, start(how) PROVE IndInv'
  BY <1>1, StartInv
<1>2. ASSUME NEW late \in SUBSET Held, exit(late) PROVE IndInv'
  BY <1>2, ExitInv
<1>3. CASE onPruneTick
  BY <1>3, PruneTickInv
<1>4. CASE tick
  <2>1. /\ Untouched /\ day' = day + 1 /\ now' = now
        /\ \A t \in Threads : now[t] \in {0, day}
    BY <1>4, Zenon DEF tick, disk, history, Untouched
  <2>2. Fresh'
    BY <1>t, <2>1 DEF Fresh
  <2> QED
    BY <1>t, <2>1, <2>2, ClockInv, Zenon
<1>5. CASE sweep
  BY <1>5, SweepInv
<1>6. ASSUME NEW t \in Threads, readClock(t) PROVE IndInv'
  <2>1. Untouched /\ day' = day /\ now' = [now EXCEPT ![t] = day]
    BY <1>6, Zenon DEF readClock, disk, history, Untouched
  <2>2. now' \in [Threads -> Nat] /\ \A u \in Threads : now'[u] \in {now[u], day}
    BY <1>t, <2>1
  <2>3. Fresh'
    BY <1>t, <2>1, <2>2, Zenon DEF Fresh
  <2> QED
    BY <2>1, <2>2, <2>3, ClockInv, Zenon
<1>7. ASSUME NEW t \in Threads, NEW f \in Troubles, NEW late \in SUBSET HeldIn(f),
             logLocked(t, f, late)
      PROVE  IndInv'
  BY <1>7, LogInv
<1>8. CASE UNCHANGED vars
  <2>1. Untouched /\ day' = day /\ now' = now
    BY <1>8 DEF vars, disk, history, Untouched
  <2>2. Fresh'
    BY <1>t, <2>1, Zenon DEF Fresh
  <2> QED
    BY <1>t, <2>1, <2>2, ClockInv, Zenon
<1> QED
  BY <1>1, <1>2, <1>3, <1>4, <1>5, <1>6, <1>7, <1>8, Zenon DEF Next

-----------------------------------------------------------------------------
(* The world is in order in every behaviour, and every line has a fate log()  *)
(* promises.                                                                  *)
THEOREM Invariance == Spec => []IndInv
<1> QED
  BY InitInv, NextInv, PTL DEF Spec

(* For every number of threads, days and failures: a call of log() in which    *)
(* nothing fails puts its line into a file of the date it was stamped with,    *)
(* unless others removed that file while it was open.                          *)
THEOREM CleanCalls == Spec => []CleanCallReachesFile
<1>1. IndInv => CleanCallReachesFile
  <2> SUFFICES ASSUME IndInv, NEW n \in DOMAIN fate
               PROVE  fate[n].faults = 0 =>
                         /\ fate[n].dir = fate[n].stamp
                         /\ fate[n].where = "file" \/ (fate[n].where = "nowhere" /\ fate[n].cut)
    BY Zenon DEF CleanCallReachesFile
  <2>1. fate[n] \in Fates
    BY OneFate, Zenon DEF IndInv
  <2> QED
    BY <2>1, Zenon DEF Fates, Promised
<1> QED
  BY <1>1, Invariance, PTL

(* A line is lost with an open file and a stream in order only when two calls  *)
(* into the file system fail, or the one that opens the file after rotating.   *)
THEOREM SoundSinks == Spec => []SoundSinkKeepsLine
<1>1. IndInv => SoundSinkKeepsLine
  <2> SUFFICES ASSUME IndInv, NEW n \in DOMAIN fate
               PROVE  fate[n].where = "lost" /\ fate[n].sound => fate[n].faults >= 2
    BY Zenon DEF SoundSinkKeepsLine
  <2>1. fate[n] \in Fates
    BY OneFate, Zenon DEF IndInv
  <2> QED
    BY <2>1, Zenon DEF Fates, Promised
<1> QED
  BY <1>1, Invariance, PTL

(* The clean-up never removes the directory of the open file, however long ago *)
(* the last line was.                                                          *)
THEOREM ActiveKept == Spec => []ActiveNeverPruned
<1>1. IndInv => ActiveNeverPruned
  BY Zenon DEF IndInv
<1> QED
  BY <1>1, Invariance, PTL

(* A file outgrows kMaxLogFileBytes, and a line for each failure, only on a    *)
(* date whose rotation failed or where a size could not be read: otherwise     *)
(* _bytesWritten never undercounts the open file, restarts, returns to an      *)
(* earlier date and late flushes included.                                     *)
THEOREM SizesBounded == Spec => []FilesBounded
<1>1. IndInv => FilesBounded
  <2> SUFFICES ASSUME IndInv, NEW k \in DOMAIN files, Len(files[k]) > kMaxLogFileBytes + faults
               PROVE  k[1] \in overgrown
    BY DEF FilesBounded
  <2>1. World.files = files /\ World.overgrown = overgrown
    BY DEF World
  <2>2. faults \in Nat /\ FilesWell(files, Len(fate), faults, overgrown)
    BY <2>1, Zenon DEF IndInv, Good
  <2> DEFINE len == Len(files[k])
  <2>3. len \in Nat /\ (len <= kMaxLogFileBytes + faults \/ k[1] \in overgrown)
    <3>1. Len(fate) \in Nat
      BY DEF IndInv
    <3>2. len \in Nat
      BY <2>2, <3>1, FileSize, Zenon
    <3> QED
      BY <2>2, <3>2, Zenon DEF FilesWell
  <2>4. len > kMaxLogFileBytes + faults
    OBVIOUS
  <2> HIDE DEF len
  <2> QED
    BY <2>2, <2>3, <2>4, LoggerAssumption
<1> QED
  BY <1>1, Invariance, PTL

(* A line that reached a file stays in one while its date is within the        *)
(* retention days or the open one: rotation, rollover, restart and the         *)
(* clean-up never take it away.  A line whose call met no failure is at one    *)
(* place only.                                                                 *)
THEOREM LinesKept == Spec => []WrittenStays
<1>1. IndInv => WrittenStays
  <2> SUFFICES ASSUME IndInv, NEW n \in DOMAIN fate
               PROVE  /\ (/\ fate[n].where = "file" /\ fate[n].dir \notin swept \cup clobbered
                          /\ \/ fate[n].dir >= day - (kLogRetentionDays - 1)
                             \/ lg.toFile /\ fate[n].dir = lg.date)
                            => \E k \in DOMAIN files : \E i \in DOMAIN files[k] :
                                  k[1] = fate[n].dir /\ files[k][i] = n
                      /\ fate[n].faults = 0 =>
                            \A k, l \in DOMAIN files : \A i \in DOMAIN files[k], j \in DOMAIN files[l] :
                               files[k][i] = n /\ files[l][j] = n => k = l /\ i = j
    BY Zenon DEF WrittenStays
  <2>1. World.files = files /\ World.lg = lg
    BY DEF World
  <2>2. /\ Once(files, Clean(fate), {}) /\ (lg.toFile => lg.date # 0)
        /\ Still(files, fate, swept \cup clobbered, day, lg.date)
    BY <2>1, Zenon DEF IndInv, Good, IsWorld, IsLogger
  <2>3. ASSUME fate[n].where = "file", fate[n].dir \notin swept \cup clobbered,
               \/ fate[n].dir >= day - (kLogRetentionDays - 1)
               \/ lg.toFile /\ fate[n].dir = lg.date
        PROVE  \E k \in DOMAIN files : \E i \in DOMAIN files[k] :
                  k[1] = fate[n].dir /\ files[k][i] = n
    <3>1. Spared(fate[n].dir, day, lg.date)
      BY <2>2, <2>3, Zenon DEF Spared
    <3>2. Has(files, n, fate[n].dir)
      BY <2>2, <2>3, <3>1, Zenon DEF Still
    <3> QED
      BY <3>2, Zenon DEF Has, At
  <2>4. ASSUME fate[n].faults = 0, NEW k \in DOMAIN files, NEW l \in DOMAIN files,
               NEW i \in DOMAIN files[k], NEW j \in DOMAIN files[l],
               files[k][i] = n, files[l][j] = n
        PROVE  k = l /\ i = j
    <3>1. n \in Clean(fate) /\ At(files, k, i, n) /\ At(files, l, j, n)
      BY <2>4, Zenon DEF Clean, At
    <3> QED
      BY <2>2, <3>1, Zenon DEF Once
  <2>5. fate[n].faults = 0 =>
          \A k, l \in DOMAIN files : \A i \in DOMAIN files[k], j \in DOMAIN files[l] :
             files[k][i] = n /\ files[l][j] = n => k = l /\ i = j
    BY <2>4
  <2> QED
    BY <2>3, <2>5, Zenon
<1> QED
  BY <1>1, Invariance, PTL
=============================================================================
