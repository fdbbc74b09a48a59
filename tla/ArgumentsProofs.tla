-------------------------- MODULE ArgumentsProofs ---------------------------
(***************************************************************************)
(* Theorems about the two passes over the command line, for any words, any *)
(* options DrShadowStack does not know and any number of arguments.        *)
(***************************************************************************)
EXTENDS Arguments, SequenceTheorems, FiniteSetTheorems, WellFoundedInduction,
        TLAPS

-----------------------------------------------------------------------------
(* Induction over the places of the command line. *)

\* A set of numbers that is not empty has a least element.
LEMMA LeastOf ==
    ASSUME NEW T \in SUBSET Nat, T # {}
    PROVE  \E x \in T : \A y \in T : x <= y
<1>1. \E x \in T : \A y \in T : ~(<<y, x>> \in OpToRel(<, Nat))
  BY NatLessThanWellFounded, WFMin, Zenon
<1>2. PICK x \in T : \A y \in T : ~(<<y, x>> \in OpToRel(<, Nat))
  BY <1>1
<1>3. \A y \in T : ~(y < x)
  BY <1>2 DEF OpToRel
<1>4. \A y \in T : x <= y
  BY <1>3
<1> QED
  BY <1>4

\* A set that holds 0, and every number after one of its own, holds them all.
LEMMA UpTo ==
    ASSUME NEW N \in Nat, NEW T, 0 \in T,
           \A i \in 1 .. N : i - 1 \in T => i \in T
    PROVE  \A i \in 0 .. N : i \in T
<1> DEFINE F == {i \in 0 .. N : i \notin T}
<1> SUFFICES ASSUME F # {} PROVE FALSE
  OBVIOUS
<1>1. F \in SUBSET Nat
  OBVIOUS
<1>2. PICK x \in F : \A y \in F : x <= y
  BY <1>1, LeastOf, Zenon
<1>3. x # 0 /\ x \in 0 .. N /\ x \notin T
  BY <1>2
<1>4. x \in 1 .. N /\ x - 1 \in 0 .. N /\ ~(x <= x - 1)
  BY <1>3
<1>5. x - 1 \in T
  BY <1>2, <1>4
<1> QED
  BY <1>3, <1>4, <1>5

-----------------------------------------------------------------------------
(* The second pass, token by token. *)

Parse == [mode : Seq(Token), target : Seq(Token), positional : Seq(Token),
          rest : Seq(Token), wants : ConfigOptions \union {""},
          ended : BOOLEAN]

\* r[i] is what is found in the first i arguments.
IsScan(r) ==
    r = [i \in 0 .. Len(argv) |->
            IF i = 0 THEN NothingFound ELSE Scan(r[i - 1], argv[i])]

Pass(r) ==
    /\ r \in [0 .. Len(argv) -> Parse]
    /\ r[0] = NothingFound
    /\ \A i \in 1 .. Len(argv) : r[i] = Scan(r[i - 1], argv[i])

LEMMA NothingFoundType == NothingFound \in Parse
<1>1. <<>> \in Seq(Token)
  BY EmptySeq
<1> QED
  BY <1>1 DEF NothingFound, Parse

\* What one token changes, in each of the five ways the parser reads it: the
\* value of the option before it, a positional token, the terminator, an
\* option of the second pass, anything else.
LEMMA ScanCases ==
    ASSUME NEW r \in Parse, NEW tok \in Token
    PROVE  LET s == Scan(r, tok)
           IN  /\ r.wants # "" =>
                    s = [r EXCEPT
                           !.wants = "",
                           !.mode = IF r.wants = "--ss_mode"
                                    THEN Append(@, tok) ELSE @,
                           !.target = IF r.wants = "--target"
                                      THEN Append(@, tok) ELSE @]
               /\ r.wants = "" /\ (r.ended \/ tok \in Words) =>
                    s = [r EXCEPT !.positional = Append(@, tok),
                                  !.rest = Append(@, tok)]
               /\ r.wants = "" /\ ~r.ended /\ tok = Terminator =>
                    s = [r EXCEPT !.ended = TRUE]
               /\ r.wants = "" /\ ~r.ended /\ tok \in ConfigOptions =>
                    s = [r EXCEPT !.wants = tok]
               /\ r.wants = "" /\ ~r.ended
                    /\ tok \notin Words \union ConfigOptions \union {Terminator} =>
                    s = [r EXCEPT !.rest = Append(@, tok)]
<1>1. Terminator \notin Words \union ConfigOptions
      /\ Words \intersect ConfigOptions = {}
  BY TokenAssumption DEF Terminator, ConfigOptions
<1> QED
  BY <1>1, Zenon DEF Scan, TakeValue, Positional

LEMMA ScanType ==
    ASSUME NEW r \in Parse, NEW tok \in Token
    PROVE  Scan(r, tok) \in Parse
<1>1. /\ Append(r.mode, tok) \in Seq(Token)
      /\ Append(r.target, tok) \in Seq(Token)
      /\ Append(r.positional, tok) \in Seq(Token)
      /\ Append(r.rest, tok) \in Seq(Token)
  BY AppendProperties DEF Parse
<1> QED
  BY <1>1 DEF Scan, TakeValue, Positional, Parse

\* Whatever the arguments are, the second pass reaches their end.
LEMMA PassExists ==
    ASSUME argv \in Seq(Token)
    PROVE  \E r : Pass(r) /\ Scanned = r[Len(argv)]
<1> DEFINE N == Len(argv)
           Start(n, f) ==
              /\ f \in [0 .. n -> Parse]
              /\ f[0] = NothingFound
              /\ \A i \in 1 .. n : f[i] = Scan(f[i - 1], argv[i])
           T == {n \in 0 .. N : \E f : Start(n, f)}
<1>0. N \in Nat /\ \A i \in 1 .. N : argv[i] \in Token
  BY ElementOfSeq, LenProperties
<1>1. 0 \in T
  <2> DEFINE f == [i \in 0 .. 0 |-> NothingFound]
  <2>1. Start(0, f)
    BY NothingFoundType
  <2>2. \E h : Start(0, h)
    <3> HIDE DEF f, Start
    <3> QED
      BY <2>1
  <2> QED
    BY <1>0, <2>2
<1>2. ASSUME NEW n \in 1 .. N, n - 1 \in T PROVE n \in T
  <2>1. PICK f : Start(n - 1, f)
    BY <1>2
  <2> DEFINE t == Scan(f[n - 1], argv[n])
             g == [i \in 0 .. n |-> IF i = n THEN t ELSE f[i]]
  <2>2. f[n - 1] \in Parse /\ n \in Nat \ {0}
    BY <1>0, <2>1
  <2>3. t \in Parse
    BY <1>0, <2>2, ScanType
  <2>4. g \in [0 .. n -> Parse]
    BY <2>1, <2>2, <2>3
  <2>5. g[0] = NothingFound
    BY <2>1, <2>2
  <2>6. \A i \in 1 .. n : g[i] = Scan(g[i - 1], argv[i])
    BY <2>1, <2>2
  <2>7. Start(n, g)
    BY <2>4, <2>5, <2>6
  <2> QED
    BY <2>7
<1>3. N \in T
  <2> HIDE DEF T
  <2>1. \A i \in 0 .. N : i \in T
    BY <1>0, <1>1, <1>2, UpTo
  <2> QED
    BY <1>0, <2>1
<1>4. PICK f : Start(N, f)
  BY <1>3
<1>5. IsScan(f)
  BY <1>0, <1>4 DEF IsScan
<1> DEFINE r == CHOOSE st : IsScan(st)
<1>6. IsScan(r)
  BY <1>5, Zenon
<1>7. Scanned = r[N]
  BY DEF Scanned, IsScan
<1> HIDE DEF r
<1>8. \A i \in 0 .. N :
          r[i] = IF i = 0 THEN NothingFound ELSE Scan(r[i - 1], argv[i])
  BY <1>6, Zenon DEF IsScan
<1>9. r = [i \in 0 .. N |-> r[i]]
  BY <1>6 DEF IsScan
<1>10. \A i \in 0 .. N : r[i] = f[i]
  <2> DEFINE E == {i \in 0 .. N : r[i] = f[i]}
  <2>1. 0 \in E
    BY <1>0, <1>4, <1>8
  <2>2. \A i \in 1 .. N : i - 1 \in E => i \in E
    BY <1>0, <1>4, <1>8
  <2>3. \A i \in 0 .. N : i \in E
    <3> HIDE DEF E
    <3> QED
      BY <1>0, <2>1, <2>2, UpTo
  <2> QED
    BY <2>3
<1>11. Pass(r)
  BY <1>0, <1>4, <1>8, <1>9, <1>10 DEF Pass
<1> QED
  BY <1>7, <1>11

-----------------------------------------------------------------------------
(* A token after the other: what holds of the arguments read so far. *)

\* One step of a pass, with the types of what it works on.
LEMMA PassStep ==
    ASSUME argv \in Seq(Token), NEW r, Pass(r), NEW i \in 1 .. Len(argv)
    PROVE  /\ i - 1 \in 0 .. Len(argv) /\ i \in 0 .. Len(argv)
           /\ r[i - 1] \in Parse /\ r[i] \in Parse
           /\ argv[i] \in Token
           /\ r[i] = Scan(r[i - 1], argv[i])
<1>1. /\ i - 1 \in 0 .. Len(argv) /\ i \in 0 .. Len(argv)
      /\ argv[i] \in Token
  BY ElementOfSeq, LenProperties
<1>2. r \in [0 .. Len(argv) -> Parse] /\ r[i] = Scan(r[i - 1], argv[i])
  BY DEF Pass
<1> QED
  BY <1>1, <1>2

\* What a parser that lists every positional token knows of the option
\* --target: a positional token is one of the rest, a rest without any has no
\* word in it, and a value for the target comes after "--target".
ByName(r, i) ==
    /\ r.positional # <<>> => r.rest # <<>>
    /\ r.positional = <<>> =>
          \A k \in 1 .. Len(r.rest) : r.rest[k] \notin Words
    /\ r.target # <<>> \/ r.wants = "--target" =>
          \E j \in 1 .. i : argv[j] = "--target"

LEMMA ByNameStep ==
    ASSUME NEW r \in Parse, NEW i \in Nat \ {0}, argv[i] \in Token,
           ByName(r, i - 1)
    PROVE  ByName(Scan(r, argv[i]), i)
<1> DEFINE tok == argv[i]
           s == Scan(r, tok)
<1>0. tok \in Token /\ s \in Parse
  BY ScanType
<1>1. \A j \in 1 .. i - 1 : j \in 1 .. i
  OBVIOUS
<1>2. i \in 1 .. i
  OBVIOUS
<1>3. /\ r.positional \in Seq(Token) /\ r.rest \in Seq(Token)
      /\ r.wants \in ConfigOptions \union {""} /\ r.ended \in BOOLEAN
  BY DEF Parse
<1>4. \A q \in Seq(Token) :
          /\ Append(q, tok) # <<>>
          /\ Len(Append(q, tok)) = Len(q) + 1
          /\ \A k \in 1 .. Len(q) : Append(q, tok)[k] = q[k]
          /\ Append(q, tok)[Len(q) + 1] = tok
  BY <1>0, AppendProperties
<1>5. CASE r.wants # ""
  <2>1. s = [r EXCEPT !.wants = "",
               !.mode = IF r.wants = "--ss_mode" THEN Append(@, tok) ELSE @,
               !.target = IF r.wants = "--target" THEN Append(@, tok) ELSE @]
    BY <1>0, <1>5, ScanCases, Zenon
  <2>2. s.positional = r.positional /\ s.rest = r.rest /\ s.wants = ""
    BY <2>1 DEF Parse
  <2>3. s.target # r.target => r.wants = "--target"
    BY <2>1 DEF Parse
  <2> QED
    BY <1>1, <2>2, <2>3 DEF ByName
<1>6. CASE r.wants = "" /\ (r.ended \/ tok \in Words)
  <2>1. s = [r EXCEPT !.positional = Append(@, tok), !.rest = Append(@, tok)]
    BY <1>0, <1>6, ScanCases, Zenon
  <2>2. /\ s.positional = Append(r.positional, tok)
        /\ s.rest = Append(r.rest, tok)
        /\ s.target = r.target /\ s.wants = r.wants
    BY <2>1 DEF Parse
  <2> QED
    BY <1>1, <1>3, <1>4, <2>2 DEF ByName
<1>7. CASE r.wants = "" /\ ~r.ended /\ tok = Terminator
  <2>1. s = [r EXCEPT !.ended = TRUE]
    BY <1>0, <1>7, ScanCases, Zenon
  <2>2. /\ s.positional = r.positional /\ s.rest = r.rest
        /\ s.target = r.target /\ s.wants = r.wants
    BY <2>1 DEF Parse
  <2> QED
    BY <1>1, <2>2 DEF ByName
<1>8. CASE r.wants = "" /\ ~r.ended /\ tok \in ConfigOptions
  <2>1. s = [r EXCEPT !.wants = tok]
    BY <1>0, <1>8, ScanCases, Zenon
  <2>2. /\ s.positional = r.positional /\ s.rest = r.rest
        /\ s.target = r.target /\ s.wants = tok
    BY <2>1 DEF Parse
  <2> QED
    BY <1>1, <1>2, <2>2 DEF ByName
<1>9. CASE r.wants = "" /\ ~r.ended
           /\ tok \notin Words \union ConfigOptions \union {Terminator}
  <2>1. s = [r EXCEPT !.rest = Append(@, tok)]
    BY <1>0, <1>9, ScanCases, Zenon
  <2>2. /\ s.positional = r.positional /\ s.rest = Append(r.rest, tok)
        /\ s.target = r.target /\ s.wants = r.wants
    BY <2>1 DEF Parse
  <2>3. \A k \in 1 .. Len(s.rest) : k \in 1 .. Len(r.rest) \/ k = Len(r.rest) + 1
    <3>1. Len(r.rest) \in Nat
      BY <1>3, LenProperties
    <3>2. Len(s.rest) = Len(r.rest) + 1
      BY <1>3, <1>4, <2>2
    <3> HIDE DEF s
    <3> QED
      BY <3>1, <3>2
  <2>4. r.positional = <<>> =>
            \A k \in 1 .. Len(s.rest) : s.rest[k] \notin Words
    BY <1>3, <1>4, <1>9, <2>2, <2>3 DEF ByName
  <2>5. s.rest # <<>>
    BY <1>3, <1>4, <2>2
  <2> QED
    BY <1>1, <2>2, <2>4, <2>5 DEF ByName
<1> QED
  BY <1>3, <1>5, <1>6, <1>7, <1>8, <1>9

LEMMA ScannedByName ==
    ASSUME argv \in Seq(Token)
    PROVE  Scanned \in Parse /\ ByName(Scanned, Len(argv))
<1>1. PICK r : Pass(r) /\ Scanned = r[Len(argv)]
  BY PassExists
<1> DEFINE T == {i \in 0 .. Len(argv) : ByName(r[i], i)}
<1>2. Len(argv) \in Nat /\ r \in [0 .. Len(argv) -> Parse]
      /\ r[0] = NothingFound
  BY <1>1, LenProperties DEF Pass
<1>3. 0 \in T
  <2>1. ByName(NothingFound, 0)
    <3>1. NothingFound.positional = <<>> /\ NothingFound.target = <<>>
          /\ NothingFound.wants # "--target"
      BY DEF NothingFound
    <3>2. \A k \in 1 .. Len(NothingFound.rest) : FALSE
      BY DEF NothingFound
    <3> QED
      BY <3>1, <3>2, Zenon DEF ByName
  <2> QED
    BY <1>2, <2>1
<1>4. \A i \in 1 .. Len(argv) : i - 1 \in T => i \in T
  <2> SUFFICES ASSUME NEW i \in 1 .. Len(argv), ByName(r[i - 1], i - 1)
               PROVE  ByName(r[i], i) /\ i \in 0 .. Len(argv)
    OBVIOUS
  <2>1. i \in Nat \ {0}
    BY <1>2
  <2> QED
    BY <1>1, <2>1, PassStep, ByNameStep
<1>5. \A i \in 0 .. Len(argv) : i \in T
  <2> HIDE DEF T
  <2> QED
    BY <1>2, <1>3, <1>4, UpTo
<1> QED
  BY <1>1, <1>2, <1>5

-----------------------------------------------------------------------------
(* A command line of the documented form. *)

\* The pass over it: the mode that stands before the target, and the target
\* and everything after it in the rest.
DocForm(r, i, n) ==
    /\ r.wants = "" /\ r.ended = FALSE /\ r.target = <<>>
    /\ r.mode = IF n = 2 THEN <<argv[2]>> ELSE <<>>
    /\ r.rest = SubSeq(argv, n + 1, i)
    /\ i = n => r.positional = <<>>
    /\ i > n => r.positional # <<>> /\ r.positional[1] = argv[n + 1]

LEMMA DocumentedStep ==
    ASSUME argv \in Seq(Token), NEW n \in {0, 2}, Documented(n),
           NEW r \in Parse, NEW i \in n + 1 .. Len(argv),
           DocForm(r, i - 1, n)
    PROVE  DocForm(Scan(r, argv[i]), i, n)
<1> DEFINE tok == argv[i]
           s == Scan(r, tok)
<1>0. Len(argv) \in Nat /\ i \in 1 .. Len(argv) /\ n + 1 \in 1 .. Len(argv)
      /\ i \in n + 1 .. Len(argv) /\ i > n
  BY LenProperties
<1>1. tok \in Token
  BY <1>0, ElementOfSeq
<1>2. i # n + 1 => i \in n + 2 .. Len(argv)
  BY <1>0
<1>3. /\ i = n + 1 => tok \in Words
      /\ i # n + 1 => tok \notin ConfigOptions \union {Terminator}
  BY <1>2 DEF Documented
<1>4. tok \notin ConfigOptions \union {Terminator}
  BY <1>3, TokenAssumption
<1>5. /\ r.positional \in Seq(Token) /\ r.rest \in Seq(Token)
      /\ r.wants = "" /\ r.ended = FALSE
  BY DEF Parse, DocForm
<1>a. /\ i - 1 = n => r.positional = <<>>
      /\ i - 1 > n => r.positional # <<>> /\ r.positional[1] = argv[n + 1]
  BY Zenon DEF DocForm
<1>b. /\ i = n + 1 => i - 1 = n
      /\ i # n + 1 => i - 1 > n
      /\ i # n
  BY <1>0
<1>6. Append(r.rest, tok) = SubSeq(argv, n + 1, i)
  <2>1. SubSeq(argv, n + 1, i) = SubSeq(argv, n + 1, i - 1) \o <<tok>>
    BY <1>0, SubSeqRecursiveSecond
  <2>2. Append(r.rest, tok) = r.rest \o <<tok>>
    BY <1>1, <1>5, AppendIsConcat
  <2> QED
    BY <2>1, <2>2 DEF DocForm
<1>7. CASE tok \in Words
  <2>1. s = [r EXCEPT !.positional = Append(@, tok), !.rest = Append(@, tok)]
    BY <1>1, <1>5, <1>7, ScanCases, Zenon
  <2>2. /\ s.positional = Append(r.positional, tok)
        /\ s.rest = Append(r.rest, tok) /\ s.mode = r.mode
        /\ s.target = r.target /\ s.wants = r.wants /\ s.ended = r.ended
    BY <2>1 DEF Parse
  <2>3. s.positional # <<>> /\ s.positional[1] = argv[n + 1]
    <3>1. CASE i = n + 1
      <4>1. s.positional = Append(<<>>, tok)
        BY <1>a, <1>b, <2>2, <3>1
      <4>2. Append(<<>>, tok) = <<tok>>
        OBVIOUS
      <4> QED
        BY <3>1, <4>1, <4>2
    <3>2. CASE i # n + 1
      <4>1. r.positional # <<>> /\ r.positional[1] = argv[n + 1]
        BY <1>a, <1>b, <3>2
      <4> DEFINE q == r.positional
      <4>2. q \in Seq(Token) /\ q # <<>>
        BY <1>5, <4>1
      <4> HIDE DEF q
      <4>3. 1 \in 1 .. Len(q)
        BY <4>2
      <4>4. Append(q, tok) # <<>> /\ Append(q, tok)[1] = q[1]
        BY <1>1, <4>2, <4>3, AppendProperties
      <4> QED
        BY <2>2, <4>1, <4>4 DEF q
    <3> QED
      BY <3>1, <3>2
  <2> QED
    BY <1>5, <1>6, <1>b, <2>2, <2>3, Zenon DEF DocForm
<1>8. CASE tok \notin Words
  <2>1. s = [r EXCEPT !.rest = Append(@, tok)]
    BY <1>1, <1>4, <1>5, <1>8, ScanCases, Zenon
  <2>2. /\ s.positional = r.positional
        /\ s.rest = Append(r.rest, tok) /\ s.mode = r.mode
        /\ s.target = r.target /\ s.wants = r.wants /\ s.ended = r.ended
    BY <2>1 DEF Parse
  <2>3. i # n /\ r.positional # <<>> /\ r.positional[1] = argv[n + 1]
    BY <1>3, <1>8, <1>a, <1>b
  <2> QED
    BY <1>5, <1>6, <2>2, <2>3, Zenon DEF DocForm
<1> QED
  BY <1>7, <1>8

LEMMA ScannedDocumented ==
    ASSUME argv \in Seq(Token), NEW n \in {0, 2}, Documented(n)
    PROVE  Scanned \in Parse /\ DocForm(Scanned, Len(argv), n)
<1>1. PICK r : Pass(r) /\ Scanned = r[Len(argv)]
  BY PassExists
<1> DEFINE N == Len(argv)
           T == {i \in 0 .. N : i >= n => DocForm(r[i], i, n)}
<1>2. N \in Nat /\ r \in [0 .. N -> Parse] /\ r[0] = NothingFound /\ n < N
  BY <1>1, LenProperties DEF Pass, Documented
<1>3. DocForm(r[n], n, n)
  <2>0. SubSeq(argv, n + 1, n) = <<>>
    BY <1>2
  <2>1. CASE n = 0
    <3>1. /\ r[n].wants = "" /\ r[n].ended = FALSE /\ r[n].target = <<>>
          /\ r[n].mode = <<>> /\ r[n].rest = <<>> /\ r[n].positional = <<>>
      <4>1. r[n] = NothingFound
        BY <1>2, <2>1
      <4> DEFINE q == r[n]
      <4>2. q = NothingFound
        BY <4>1
      <4> HIDE DEF q
      <4>3. /\ q.wants = "" /\ q.ended = FALSE /\ q.target = <<>>
            /\ q.mode = <<>> /\ q.rest = <<>> /\ q.positional = <<>>
        BY <4>2 DEF NothingFound
      <4> QED
        BY <4>3 DEF q
    <3>2. n # 2 /\ ~(n > n)
      BY <2>1
    <3> QED
      BY <2>0, <3>1, <3>2, Zenon DEF DocForm
  <2>2. CASE n = 2
    <3>0. 1 \in 1 .. N /\ 2 \in 1 .. N
      BY <1>2, <2>2
    <3>1. argv[1] = "--ss_mode" /\ argv[2] \in Token
      BY <2>2, <3>0, ElementOfSeq DEF Documented
    <3>2. r[1] = Scan(r[0], argv[1]) /\ r[2] = Scan(r[1], argv[2])
      <4>1. r[1] = Scan(r[1 - 1], argv[1]) /\ r[2] = Scan(r[2 - 1], argv[2])
        BY <1>1, <3>0 DEF Pass
      <4> QED
        BY <4>1
    <3>3. "--ss_mode" \in ConfigOptions /\ "--ss_mode" \in Token
      BY DEF ConfigOptions, Token
    <3>4. r[1] = [NothingFound EXCEPT !.wants = "--ss_mode"]
      <4>1. NothingFound.wants = "" /\ NothingFound.ended = FALSE
        BY DEF NothingFound
      <4>2. "--ss_mode" \notin Words
        BY <3>3, TokenAssumption
      <4>3. Scan(NothingFound, "--ss_mode")
                = [NothingFound EXCEPT !.wants = "--ss_mode"]
        BY <4>1, <4>2, <3>3 DEF Scan, Terminator, ConfigOptions
      <4> QED
        BY <1>2, <3>1, <3>2, <4>3
    <3>5. r[1] \in Parse /\ r[1].wants = "--ss_mode"
      <4>1. r[1] \in Parse
        BY <1>2, <3>0
      <4> QED
        BY <3>4, <4>1 DEF NothingFound
    <3>6. r[2] = [r[1] EXCEPT !.wants = "",
                    !.mode = IF r[1].wants = "--ss_mode"
                             THEN Append(@, argv[2]) ELSE @,
                    !.target = IF r[1].wants = "--target"
                               THEN Append(@, argv[2]) ELSE @]
      <4>1. r[1].wants # ""
        BY <3>5
      <4> QED
        BY <3>1, <3>2, <3>5, <4>1, ScanCases, Zenon
    <3>7. /\ r[1].mode = <<>> /\ r[1].target = <<>> /\ r[1].rest = <<>>
          /\ r[1].positional = <<>> /\ r[1].ended = FALSE
      BY <3>4 DEF NothingFound
    <3>8. /\ r[2].wants = "" /\ r[2].ended = FALSE /\ r[2].target = <<>>
          /\ r[2].mode = Append(<<>>, argv[2])
          /\ r[2].rest = <<>> /\ r[2].positional = <<>>
      <4> DEFINE q == r[1]
      <4>1. q \in Parse /\ q.wants = "--ss_mode" /\ q.wants # "--target"
        BY <3>5
      <4> HIDE DEF q
      <4>2. r[2] = [q EXCEPT !.wants = "", !.mode = Append(@, argv[2]),
                             !.target = @]
        BY <3>6, <4>1 DEF q
      <4>3. /\ r[2].wants = "" /\ r[2].ended = q.ended
            /\ r[2].target = q.target /\ r[2].mode = Append(q.mode, argv[2])
            /\ r[2].rest = q.rest /\ r[2].positional = q.positional
        BY <4>1, <4>2 DEF Parse
      <4> QED
        BY <3>7, <4>3 DEF q
    <3>9. Append(<<>>, argv[2]) = <<argv[2]>> /\ ~(n > n)
      BY <2>2
    <3> QED
      BY <2>0, <2>2, <3>8, <3>9 DEF DocForm
  <2> QED
    BY <2>1, <2>2
<1>4. 0 \in T
  BY <1>2, <1>3
<1>5. \A i \in 1 .. N : i - 1 \in T => i \in T
  <2> SUFFICES ASSUME NEW i \in 1 .. N, i - 1 \in T PROVE i \in T
    OBVIOUS
  <2>1. CASE i < n
    BY <2>1, <1>2
  <2>2. CASE i = n
    BY <1>3, <2>2, <1>2
  <2>3. CASE i > n
    <3>1. i \in n + 1 .. N /\ i - 1 >= n
      BY <1>2, <2>3
    <3>2. DocForm(r[i - 1], i - 1, n)
      BY <3>1
    <3>3. DocForm(r[i], i, n)
      BY <1>1, <3>1, <3>2, PassStep, DocumentedStep
    <3> QED
      BY <1>2, <3>3
  <2> QED
    BY <1>2, <2>1, <2>2, <2>3
<1>6. \A i \in 0 .. N : i \in T
  <2> HIDE DEF T
  <2> QED
    BY <1>2, <1>4, <1>5, UpTo
<1> QED
  BY <1>1, <1>2, <1>6

-----------------------------------------------------------------------------
(* What of the command line DrShadowStack takes for its own. *)

\* The places the parser reads as tokens of their own, before the terminator.
ReadAt(r) ==
    {i \in 1 .. Len(argv) : r[i - 1].wants = "" /\ r[i - 1].ended = FALSE}

ModesIn(r) == {i \in ReadAt(r) : argv[i] = "--ss_mode"}
LostIn(r) == {i \in ReadAt(r) : argv[i] \in {"--target", "--target-args"}}
EndsIn(r) == {i \in ReadAt(r) : argv[i] = Terminator}
TakenIn(r) == Pairs(ModesIn(r) \union LostIn(r)) \union EndsIn(r)

\* An option that is read lacks its value, and nothing else does.
LEMMA WantsStep ==
    ASSUME argv \in Seq(Token), NEW r, Pass(r), NEW i \in 1 .. Len(argv)
    PROVE  /\ r[i].wants = "--ss_mode" <=> i \in ModesIn(r)
           /\ r[i].wants \in {"--target", "--target-args"} <=> i \in LostIn(r)
<1> DEFINE p == r[i - 1]
           s == r[i]
           tok == argv[i]
<1>1. p \in Parse /\ s \in Parse /\ tok \in Token /\ s = Scan(p, tok)
  BY PassStep
<1>2. /\ i \in ModesIn(r) <=>
            p.wants = "" /\ p.ended = FALSE /\ tok = "--ss_mode"
      /\ i \in LostIn(r) <=>
            p.wants = "" /\ p.ended = FALSE
            /\ tok \in {"--target", "--target-args"}
  BY DEF ModesIn, LostIn, ReadAt
<1> HIDE DEF p, s, tok
<1>3. p.ended \in BOOLEAN
  BY <1>1 DEF Parse
<1>4. \A opt \in ConfigOptions : opt \notin Words /\ opt # Terminator
  BY TokenAssumption DEF ConfigOptions, Terminator
<1>5. CASE p.wants # ""
  <2>1. s = [p EXCEPT !.wants = "",
               !.mode = IF p.wants = "--ss_mode" THEN Append(@, tok) ELSE @,
               !.target = IF p.wants = "--target" THEN Append(@, tok) ELSE @]
    BY <1>1, <1>5, ScanCases, Zenon
  <2>2. s.wants = ""
    BY <1>1, <2>1 DEF Parse
  <2> QED
    BY <1>2, <1>5, <2>2 DEF s
<1>6. CASE p.wants = "" /\ ~p.ended /\ tok \in ConfigOptions
  <2>1. s = [p EXCEPT !.wants = tok]
    BY <1>1, <1>6, ScanCases, Zenon
  <2>2. s.wants = tok
    BY <1>1, <2>1 DEF Parse
  <2> QED
    BY <1>2, <1>3, <1>6, <2>2 DEF s
<1>7. CASE p.wants = "" /\ (p.ended \/ tok \notin ConfigOptions)
  <2>1. s.wants = ""
    BY <1>1, <1>7 DEF Scan, Positional, Parse
  <2> QED
    BY <1>2, <1>7, <2>1 DEF ConfigOptions, s
<1> QED
  BY <1>3, <1>5, <1>6, <1>7

LEMMA WantsAt ==
    ASSUME argv \in Seq(Token), NEW r, Pass(r), NEW i \in 0 .. Len(argv)
    PROVE  /\ r[i].wants = "--ss_mode" <=> i \in ModesIn(r)
           /\ r[i].wants \in {"--target", "--target-args"} <=> i \in LostIn(r)
<1>1. CASE i = 0
  <2>1. r[i] = NothingFound
    BY <1>1 DEF Pass
  <2>2. NothingFound.wants = ""
    BY DEF NothingFound
  <2>3. r[i].wants = ""
    BY <2>1, <2>2, Zenon
  <2>4. i \notin 1 .. Len(argv)
    BY <1>1
  <2> QED
    BY <2>3, <2>4 DEF ModesIn, LostIn, ReadAt
<1>2. CASE i # 0
  <2>1. i \in 1 .. Len(argv)
    BY <1>2, LenProperties
  <2> QED
    BY <2>1, WantsStep
<1> QED
  BY <1>1, <1>2

\* What is taken adds nothing to the rest, and everything else adds itself.
LEMMA RestStep ==
    ASSUME argv \in Seq(Token), NEW r, Pass(r), NEW i \in 1 .. Len(argv)
    PROVE  /\ i \in TakenIn(r) => r[i].rest = r[i - 1].rest
           /\ i \notin TakenIn(r) => r[i].rest = Append(r[i - 1].rest, argv[i])
<1> DEFINE p == r[i - 1]
           s == r[i]
           tok == argv[i]
<1>1. p \in Parse /\ s \in Parse /\ tok \in Token /\ s = Scan(p, tok)
  BY PassStep
<1>2. p.ended \in BOOLEAN /\ p.wants \in ConfigOptions \union {""}
  BY <1>1 DEF Parse
<1>3. p.wants # "" <=> i - 1 \in ModesIn(r) \union LostIn(r)
  <2>1. /\ p.wants = "--ss_mode" <=> i - 1 \in ModesIn(r)
        /\ p.wants \in {"--target", "--target-args"} <=> i - 1 \in LostIn(r)
    BY PassStep, WantsAt
  <2> QED
    BY <1>2, <2>1 DEF ConfigOptions
<1>4. i \in Pairs(ModesIn(r) \union LostIn(r)) <=>
          i \in ModesIn(r) \union LostIn(r) \/ i - 1 \in ModesIn(r) \union LostIn(r)
  <2> DEFINE D == ModesIn(r) \union LostIn(r)
  <2>1. D \in SUBSET Int /\ i \in Int
    <3>1. D \subseteq 1 .. Len(argv)
      BY DEF ModesIn, LostIn, ReadAt
    <3> HIDE DEF D
    <3> QED
      BY <3>1
  <2> HIDE DEF D
  <2>2. i \in {j + 1 : j \in D} <=> i - 1 \in D
    <3>1. \A j \in D : i = j + 1 <=> j = i - 1
      BY <2>1
    <3>2. i \in {j + 1 : j \in D} <=> \E j \in D : i = j + 1
      OBVIOUS
    <3> QED
      BY <3>1, <3>2, Zenon
  <2>3. i \in Pairs(D) <=> i \in D \/ i - 1 \in D
    BY <2>2 DEF Pairs
  <2> QED
    BY <2>3 DEF D
<1>5. i \in TakenIn(r) <=>
          \/ p.wants # ""
          \/ p.ended = FALSE /\ tok \in ConfigOptions \union {Terminator}
  BY <1>3, <1>4 DEF TakenIn, EndsIn, ModesIn, LostIn, ReadAt, ConfigOptions
<1> HIDE DEF p, s, tok
<1>6. CASE p.wants # ""
  <2>1. s.rest = p.rest
    BY <1>1, <1>6 DEF Scan, TakeValue, Parse
  <2> QED
    BY <1>5, <1>6, <2>1 DEF p, s, tok
<1>7. CASE p.wants = "" /\ p.ended
  <2>1. s.rest = Append(p.rest, tok)
    BY <1>1, <1>7 DEF Scan, Positional, Parse
  <2> QED
    BY <1>5, <1>7, <2>1 DEF p, s, tok
<1>8. CASE p.wants = "" /\ ~p.ended /\ tok \in ConfigOptions \union {Terminator}
  <2>1. tok \notin Words
    BY <1>8, TokenAssumption
  <2>2. s.rest = p.rest
    BY <1>1, <1>8, <2>1 DEF Scan, Parse
  <2> QED
    BY <1>2, <1>5, <1>8, <2>2 DEF p, s, tok
<1>9. CASE p.wants = "" /\ ~p.ended
           /\ tok \notin ConfigOptions \union {Terminator}
  <2>1. s.rest = Append(p.rest, tok)
    BY <1>1, <1>9 DEF Scan, Positional, Parse
  <2> QED
    BY <1>5, <1>9, <2>1 DEF p, s, tok
<1> QED
  BY <1>2, <1>6, <1>7, <1>8, <1>9

\* The values of --ss_mode: none so far, one, or too many.
ModeKept(r, i) ==
    \/ r[i].mode = <<>> /\ \A o \in ModesIn(r) : o >= i
    \/ \E m \in ModesIn(r) :
          /\ m < i /\ r[i].mode = <<argv[m + 1]>>
          /\ \A o \in ModesIn(r) : o < i => o = m
    \/ Len(r[i].mode) >= 2

LEMMA ModeStep ==
    ASSUME argv \in Seq(Token), NEW r, Pass(r), NEW i \in 1 .. Len(argv),
           ModeKept(r, i - 1)
    PROVE  ModeKept(r, i)
<1> DEFINE p == r[i - 1]
           s == r[i]
           tok == argv[i]
           M == ModesIn(r)
<1>1. p \in Parse /\ s \in Parse /\ tok \in Token /\ s = Scan(p, tok)
  BY PassStep
<1>2. p.wants = "--ss_mode" <=> i - 1 \in M
  BY PassStep, WantsAt
<1>3. /\ p.wants = "--ss_mode" => s.mode = Append(p.mode, tok)
      /\ p.wants # "--ss_mode" => s.mode = p.mode
  <2> HIDE DEF p, s, tok
  <2> QED
    BY <1>1 DEF Scan, TakeValue, Positional, Parse
<1>4. p.mode \in Seq(Token)
  BY <1>1 DEF Parse
<1>5. M \subseteq Nat /\ i \in Nat
  <2>1. M \subseteq 1 .. Len(argv)
    BY DEF ModesIn, ReadAt
  <2> HIDE DEF M
  <2> QED
    BY <2>1
<1>6. \/ p.mode = <<>> /\ \A o \in M : o >= i - 1
      \/ \E m \in M : /\ m < i - 1 /\ p.mode = <<argv[m + 1]>>
                      /\ \A o \in M : o < i - 1 => o = m
      \/ Len(p.mode) >= 2
  BY Zenon DEF ModeKept
<1>7. SUFFICES \/ s.mode = <<>> /\ \A o \in M : o >= i
               \/ \E m \in M : /\ m < i /\ s.mode = <<argv[m + 1]>>
                               /\ \A o \in M : o < i => o = m
               \/ Len(s.mode) >= 2
  BY Zenon DEF ModeKept
<1>8. tok = argv[(i - 1) + 1]
  BY <1>5
<1> DEFINE q == p.mode
           v == s.mode
<1>9. /\ i - 1 \in M => v = Append(q, tok)
      /\ i - 1 \notin M => v = q
  BY <1>2, <1>3
<1> HIDE DEF p, s, tok, M, q, v
<1>10. CASE i - 1 \in M
  <2>1. CASE q = <<>> /\ \A o \in M : o >= i - 1
    <3>1. v = <<tok>>
      BY <1>9, <1>10, <2>1
    <3>2. i - 1 < i /\ \A o \in M : o < i => o = i - 1
      BY <1>5, <2>1
    <3>3. v = <<argv[(i - 1) + 1]>>
      BY <1>8, <3>1
    <3> QED
      BY <1>10, <3>2, <3>3 DEF v
  <2>2. CASE q # <<>>
    <3>1. Len(q) \in Nat \ {0}
      BY <1>4, <2>2, EmptySeq DEF q
    <3>2. Len(v) = Len(q) + 1
      BY <1>1, <1>4, <1>9, <1>10, AppendProperties DEF q
    <3> QED
      BY <3>1, <3>2 DEF v
  <2> QED
    <3>1. \A m : <<argv[m + 1]>> # <<>>
      OBVIOUS
    <3>2. ~(Len(<<>>) >= 2)
      BY EmptySeq
    <3> QED
      BY <1>6, <2>1, <2>2, <3>1, <3>2, Zenon DEF q
<1>11. CASE i - 1 \notin M
  <2>1. \A o \in M : /\ o < i <=> o < i - 1
                     /\ o >= i - 1 <=> o >= i
    BY <1>5, <1>11
  <2>2. v = q
    BY <1>9, <1>11
  <2> QED
    BY <1>6, <2>1, <2>2, Zenon DEF q, v
<1> QED
  BY <1>10, <1>11

\* After the terminator nothing is read as one: there is one at most.
LEMMA OneEnd ==
    ASSUME argv \in Seq(Token), NEW r, Pass(r),
           NEW d \in EndsIn(r), NEW e \in EndsIn(r)
    PROVE  d = e
<1> SUFFICES ASSUME NEW x \in EndsIn(r), NEW y \in EndsIn(r), x < y
             PROVE  FALSE
  <2>1. EndsIn(r) \subseteq 1 .. Len(argv)
    BY DEF EndsIn, ReadAt
  <2>2. d \in Int /\ e \in Int
    BY <2>1
  <2>3. d < e \/ e < d \/ d = e
    BY <2>2
  <2> QED
    BY <2>3
<1> DEFINE N == Len(argv)
           T == {i \in 0 .. N : i >= x => r[i].ended = TRUE}
<1>0. N \in Nat /\ x \in 1 .. N /\ y \in 1 .. N
  BY LenProperties DEF EndsIn, ReadAt
<1>1. /\ r[x - 1].wants = "" /\ r[x - 1].ended = FALSE /\ argv[x] = Terminator
      /\ r[y - 1].ended = FALSE
  BY LenProperties DEF EndsIn, ReadAt
<1>2. r[x].ended = TRUE
  <2> DEFINE p == r[x - 1]
             s == r[x]
  <2>1. p \in Parse /\ argv[x] \in Token /\ s = Scan(p, argv[x])
    BY <1>0, PassStep
  <2>2. p.wants = "" /\ ~p.ended
    BY <1>1
  <2>3. s = [p EXCEPT !.ended = TRUE]
    BY <1>1, <2>1, <2>2, ScanCases, Zenon
  <2> HIDE DEF p, s
  <2>4. s.ended = TRUE
    BY <2>1, <2>3 DEF Parse
  <2> QED
    BY <2>4 DEF s
<1>3. 0 \in T
  <2>1. 0 \in 0 .. N /\ ~(0 >= x)
    BY <1>0
  <2> QED
    BY <2>1
<1>4. \A i \in 1 .. N : i - 1 \in T => i \in T
  <2> SUFFICES ASSUME NEW i \in 1 .. N, i - 1 \in T, i >= x
               PROVE  r[i].ended = TRUE
    <3>1. \A i \in 1 .. N : i \in 0 .. N
      BY <1>0
    <3> QED
      BY <3>1, Zenon
  <2>1. CASE i = x
    BY <1>2, <2>1
  <2>2. CASE i # x
    <3> DEFINE p == r[i - 1]
               s == r[i]
    <3>1. i - 1 >= x
      BY <1>0, <2>2
    <3>2. p.ended = TRUE
      BY <3>1, Zenon
    <3>3. p \in Parse /\ s = Scan(p, argv[i])
      BY PassStep
    <3> HIDE DEF p, s
    <3>4. s.ended = TRUE
      BY <3>2, <3>3 DEF Scan, TakeValue, Positional, Parse
    <3> QED
      BY <3>4 DEF s
  <2> QED
    BY <2>1, <2>2
<1>5. \A i \in 0 .. N : i \in T
  <2> HIDE DEF T
  <2> QED
    BY <1>0, <1>3, <1>4, UpTo
<1>6. y - 1 \in 0 .. N /\ y - 1 >= x
  BY <1>0
<1>7. r[y - 1].ended = TRUE
  BY <1>5, <1>6, Zenon
<1> QED
  BY <1>1, <1>7

\* Without, by its recursion: whoever leaves the places in D out one by one
\* ends with argv without them.
IsKept(k, D) ==
    k = [i \in 0 .. Len(argv) |->
            CASE i = 0 -> <<>>
              [] i \in D -> k[i - 1]
              [] OTHER -> Append(k[i - 1], argv[i])]

LEMMA WithoutIs ==
    ASSUME argv \in Seq(Token), NEW D, 0 \notin D,
           NEW f, f = [i \in 0 .. Len(argv) |-> f[i]], f[0] = <<>>,
           \A i \in 1 .. Len(argv) :
              /\ i \in D => f[i] = f[i - 1]
              /\ i \notin D => f[i] = Append(f[i - 1], argv[i])
    PROVE  Without(D) = f[Len(argv)]
<1> DEFINE N == Len(argv)
           Kept(k, i) == CASE i = 0 -> <<>>
                           [] i \in D -> k[i - 1]
                           [] OTHER -> Append(k[i - 1], argv[i])
<1>0. N \in Nat
  BY LenProperties
<1>1. ASSUME NEW k
      PROVE  /\ Kept(k, 0) = <<>>
             /\ \A i \in 1 .. N :
                   /\ i \in D => Kept(k, i) = k[i - 1]
                   /\ i \notin D => Kept(k, i) = Append(k[i - 1], argv[i])
  <2>1. \A i \in 1 .. N : i # 0
    BY <1>0
  <2> QED
    BY <2>1
<1>2. \A i \in 0 .. N : f[i] = Kept(f, i)
  <2> HIDE DEF Kept
  <2>1. \A i \in 1 .. N : f[i] = Kept(f, i)
    BY <1>1
  <2>2. f[0] = Kept(f, 0)
    BY <1>1
  <2>3. \A i \in 0 .. N : i = 0 \/ i \in 1 .. N
    BY <1>0
  <2> QED
    BY <2>1, <2>2, <2>3, Zenon
<1>3. IsKept(f, D)
  <2>1. f = [i \in 0 .. N |-> Kept(f, i)]
    <3> HIDE DEF Kept
    <3> QED
      BY <1>2
  <2> QED
    BY <2>1, Zenon DEF IsKept
<1> DEFINE k == CHOOSE kept : IsKept(kept, D)
<1>4. IsKept(k, D)
  BY <1>3, Zenon
<1>5. Without(D) = k[N]
  BY DEF Without, IsKept
<1> HIDE DEF k
<1>6. \A i \in 0 .. N : k[i] = Kept(k, i)
  BY <1>4, Zenon DEF IsKept
<1> HIDE DEF Kept
<1> DEFINE E == {i \in 0 .. N : k[i] = f[i]}
<1>7. 0 \in E
  <2>1. 0 \in 0 .. N
    BY <1>0
  <2>2. k[0] = <<>>
    BY <1>1, <1>6, <2>1, Zenon
  <2> QED
    BY <2>1, <2>2
<1>8. \A i \in 1 .. N : i - 1 \in E => i \in E
  <2> SUFFICES ASSUME NEW i \in 1 .. N, k[i - 1] = f[i - 1]
               PROVE  i \in 0 .. N /\ k[i] = f[i]
    OBVIOUS
  <2>1. i \in 0 .. N
    BY <1>0
  <2>2. k[i] = Kept(k, i)
    BY <1>6, <2>1, Zenon
  <2>3. CASE i \in D
    <3>1. k[i] = k[i - 1] /\ f[i] = f[i - 1]
      BY <1>1, <2>2, <2>3, Zenon
    <3> QED
      BY <2>1, <3>1
  <2>4. CASE i \notin D
    <3>1. /\ k[i] = Append(k[i - 1], argv[i])
          /\ f[i] = Append(f[i - 1], argv[i])
      BY <1>1, <2>2, <2>4, Zenon
    <3> QED
      BY <2>1, <3>1, Zenon
  <2> QED
    BY <2>3, <2>4
<1>9. \A i \in 0 .. N : i \in E
  <2> HIDE DEF E
  <2> QED
    BY <1>0, <1>7, <1>8, UpTo
<1>10. N \in 0 .. N
  BY <1>0
<1> QED
  BY <1>5, <1>9, <1>10

\* What the second pass has found, as places of the command line.
LEMMA ScannedPlaces ==
    ASSUME argv \in Seq(Token)
    PROVE  \E r :
              /\ Pass(r) /\ Scanned = r[Len(argv)]
              /\ ModeKept(r, Len(argv))
              /\ Without(TakenIn(r)) = Scanned.rest
              /\ Scanned.wants = "" =>
                    Len(argv) \notin ModesIn(r) \union LostIn(r)
<1>1. PICK r : Pass(r) /\ Scanned = r[Len(argv)]
  BY PassExists
<1> DEFINE N == Len(argv)
           T == {i \in 0 .. N : ModeKept(r, i)}
           f == [i \in 0 .. N |-> r[i].rest]
<1>2. N \in Nat
  BY LenProperties
<1>3. r[0] = NothingFound
  BY <1>1 DEF Pass
<1>4. \A i \in 0 .. N : i \in T
  <2>1. 0 \in T
    <3>1. NothingFound.mode = <<>>
      BY DEF NothingFound
    <3>2. r[0].mode = <<>>
      BY <1>3, <3>1, Zenon
    <3>3. \A o \in ModesIn(r) : o >= 0
      <4>1. ModesIn(r) \subseteq 1 .. N
        BY DEF ModesIn, ReadAt
      <4> QED
        BY <4>1
    <3> QED
      BY <1>2, <3>2, <3>3 DEF ModeKept
  <2>2. \A i \in 1 .. N : i - 1 \in T => i \in T
    BY <1>1, <1>2, ModeStep
  <2> HIDE DEF T
  <2> QED
    BY <1>2, <2>1, <2>2, UpTo
<1>5. ModeKept(r, N)
  BY <1>2, <1>4
<1>6. 0 \notin TakenIn(r)
  <2> DEFINE D == ModesIn(r) \union LostIn(r)
  <2>1. D \subseteq 1 .. N /\ EndsIn(r) \subseteq 1 .. N
    BY DEF ModesIn, LostIn, EndsIn, ReadAt
  <2> HIDE DEF D
  <2>2. \A i \in D : i \in Nat /\ i > 0 /\ i + 1 # 0
    BY <2>1
  <2>3. 0 \notin Pairs(D)
    BY <2>2 DEF Pairs
  <2>4. 0 \notin EndsIn(r)
    BY <2>1
  <2> QED
    BY <2>3, <2>4 DEF D, TakenIn
<1>7. Without(TakenIn(r)) = f[N]
  <2>1. f = [i \in 0 .. N |-> f[i]]
    OBVIOUS
  <2>2. f[0] = <<>>
    <3>1. NothingFound.rest = <<>>
      BY DEF NothingFound
    <3>2. r[0].rest = <<>>
      BY <1>3, <3>1, Zenon
    <3> QED
      BY <1>2, <3>2
  <2>3. ASSUME NEW i \in 1 .. N
        PROVE  /\ i \in TakenIn(r) => f[i] = f[i - 1]
               /\ i \notin TakenIn(r) => f[i] = Append(f[i - 1], argv[i])
    <3>1. f[i] = r[i].rest /\ f[i - 1] = r[i - 1].rest
      <4>1. i \in 0 .. N /\ i - 1 \in 0 .. N
        BY <1>2
      <4> QED
        BY <4>1, Zenon
    <3>2. /\ i \in TakenIn(r) => r[i].rest = r[i - 1].rest
          /\ i \notin TakenIn(r) => r[i].rest = Append(r[i - 1].rest, argv[i])
      BY <1>1, RestStep
    <3> QED
      BY <3>1, <3>2, Zenon
  <2> HIDE DEF f
  <2> QED
    BY <1>6, <2>1, <2>2, <2>3, WithoutIs
<1>8. f[N] = Scanned.rest
  BY <1>1, <1>2
<1>9. r[N].wants = "" => N \notin ModesIn(r) \union LostIn(r)
  <2>1. N \in 0 .. N
    BY <1>2
  <2>2. /\ r[N].wants = "--ss_mode" <=> N \in ModesIn(r)
        /\ r[N].wants \in {"--target", "--target-args"} <=> N \in LostIn(r)
    BY <1>1, <2>1, WantsAt
  <2> QED
    BY <2>2
<1> HIDE DEF f
<1> QED
  BY <1>1, <1>5, <1>7, <1>8, <1>9

-----------------------------------------------------------------------------
(* main, from the first pass to the end. *)

\* Where main is says what it has found so far and has checked of it; and a
\* command line of the documented form is on its way to the target.
PInv ==
    /\ argv \in Seq(Token)
    /\ pc \in {"compare", "verify", "started", "crashed"} =>
          found = Scanned /\ Consistent(found)
    /\ pc = "crashed" => found.rest = <<>>
    /\ pc \in {"verify", "started"} =>
          found.rest # <<>> /\ found.rest[1] = Targets(found)[1]
    /\ pc = "started" => command = <<Mode, Terminator>> \o found.rest
    /\ \A n \in {0, 2} :
          Documented(n) =>
              pc \in {"usage", "config", "compare", "verify", "started"}

\* The arguments do not change, and neither does what is read from them.
LEMMA SameArguments ==
    ASSUME argv' = argv
    PROVE  /\ Scanned' = Scanned
           /\ \A n \in {0, 2} : Documented(n)' <=> Documented(n)
<1>1. Scanned' = Scanned
  BY DEF Scanned
<1>2. UsageRepeated' = UsageRepeated
  BY DEF UsageRepeated, Occurs, Options
<1> QED
  BY <1>1, <1>2 DEF Documented

\* A command line of the documented form passes every check.
LEMMA DocumentedPasses ==
    ASSUME argv \in Seq(Token), NEW n \in {0, 2}, Documented(n)
    PROVE  /\ ~UsageRepeated /\ ~UsageAsked
           /\ Consistent(Scanned)
           /\ Scanned.rest = SubSeq(argv, n + 1, Len(argv))
           /\ Scanned.rest # <<>>
           /\ Scanned.rest[1] = Targets(Scanned)[1]
           /\ Scanned.mode = IF n = 2 THEN <<argv[2]>> ELSE <<>>
           /\ n = 2 => argv[2] \in {"int", "ext"}
<1>1. /\ Scanned \in Parse /\ DocForm(Scanned, Len(argv), n)
  BY ScannedDocumented
<1>2. /\ n < Len(argv) /\ ~UsageRepeated /\ argv[n + 1] \in Words
      /\ n = 2 => argv[2] \in {"int", "ext"}
  BY DEF Documented
<1>3. Len(argv) \in Nat /\ Len(argv) > n /\ n + 1 \in 1 .. Len(argv)
      /\ Len(argv) # n /\ Len(argv) \in n + 1 .. Len(argv)
  BY <1>2, LenProperties
<1>4. ~UsageAsked
  <2> SUFFICES ASSUME NEW opt \in UsageOptions, Occurs(opt) = 1, Len(argv) = 1
               PROVE  FALSE
    BY DEF UsageAsked
  <2>1. n = 0 /\ argv[1] \in Words
    BY <1>2
  <2>2. argv[1] # opt
    BY <2>1, TokenAssumption
  <2>3. {i \in Options : argv[i] = opt} = {}
    <3>1. Options \in SUBSET {1}
      BY DEF Options
    <3> QED
      BY <2>2, <3>1
  <2>4. Occurs(opt) = 0
    BY <2>3, FS_EmptySet DEF Occurs
  <2> QED
    BY <2>4
<1>5. /\ Scanned.wants = "" /\ Scanned.target = <<>>
      /\ Scanned.positional # <<>> /\ Scanned.positional[1] = argv[n + 1]
      /\ Scanned.rest = SubSeq(argv, n + 1, Len(argv))
      /\ Scanned.mode = IF n = 2 THEN <<argv[2]>> ELSE <<>>
  BY <1>1, <1>3, Zenon DEF DocForm
<1>6. Targets(Scanned) = <<argv[n + 1]>>
  <2>1. Targets(Scanned) = Append(<<>>, Head(Scanned.positional))
    BY <1>5, Zenon DEF Targets
  <2>2. Scanned.positional \in Seq(Token)
    BY <1>1 DEF Parse
  <2>3. Head(Scanned.positional) = argv[n + 1]
    <3> DEFINE q == Scanned.positional
    <3>1. q \in Seq(Token) /\ q[1] = argv[n + 1]
      BY <1>5, <2>2
    <3> HIDE DEF q
    <3>2. Head(q) = q[1]
      BY <3>1
    <3> QED
      BY <3>1, <3>2 DEF q
  <2> QED
    BY <2>1, <2>3
<1>7. Len(Scanned.mode) <= 1
  <2>1. CASE n = 2
    <3>1. Scanned.mode = <<argv[2]>>
      BY <1>5, <2>1, Zenon
    <3> QED
      BY <3>1
  <2>2. CASE n # 2
    <3>1. Scanned.mode = <<>>
      BY <1>5, <2>2, Zenon
    <3> QED
      BY <3>1, EmptySeq
  <2> QED
    BY <2>1, <2>2
<1>8. Consistent(Scanned)
  BY <1>5, <1>6, <1>7 DEF Consistent
<1>9. Scanned.rest # <<>> /\ Scanned.rest[1] = argv[n + 1]
  <2> DEFINE q == SubSeq(argv, n + 1, Len(argv))
  <2>1. \A i \in n + 1 .. Len(argv) : argv[i] \in Token
    BY <1>3, ElementOfSeq
  <2>2. Len(q) # 0 /\ q[1] = argv[n + 1]
    BY <1>3
  <2>3. q # <<>>
    BY <2>2
  <2> HIDE DEF q
  <2> QED
    BY <1>5, <2>2, <2>3 DEF q
<1>10. Scanned.rest[1] = Targets(Scanned)[1]
  BY <1>6, <1>9
<1> QED
  BY <1>2, <1>4, <1>5, <1>8, <1>9, <1>10, Zenon

LEMMA PInit == Init => PInv
<1> SUFFICES ASSUME Init PROVE PInv
  OBVIOUS
<1>1. argv \in Seq(Token)
  BY TokenAssumption DEF Init, SeqOf
<1> QED
  BY <1>1 DEF Init, PInv

\* The command is the mode and the rest, because the target is its head.
LEMMA CommandIsRest ==
    ASSUME NEW q \in Seq(Token), q # <<>>, NEW a, NEW b
    PROVE  <<a, b, q[1]>> \o Tail(q) = <<a, b>> \o q
<1>1. Len(q) \in Nat \ {0}
  BY EmptySeq
<1> QED
  BY <1>1

LEMMA PNext == PInv /\ [Next]_vars => PInv'
<1> SUFFICES ASSUME PInv, [Next]_vars PROVE PInv'
  OBVIOUS
<1>0. argv \in Seq(Token) /\ argv' = argv
  BY DEF PInv, Next, vars, PrintsUsage, UsageFails, NoUsage, ConfigFails,
         ParseConfig, ReadsNoArgument, TargetNotFirst, TargetFirst,
         InvalidMode, Unimplemented, StartProgram
<1>1. /\ argv' \in Seq(Token)
      /\ Scanned' = Scanned
      /\ \A n \in {0, 2} : Documented(n)' <=> Documented(n)
  BY <1>0, SameArguments
<1>2. Scanned \in Parse
  BY <1>0, ScannedByName
<1>3. CASE UNCHANGED vars
  BY <1>1, <1>3 DEF PInv, vars, Mode
<1>4. CASE PrintsUsage \/ UsageFails \/ NoUsage
  <2>1. \A n \in {0, 2} : Documented(n) => NoUsage
    BY <1>0, <1>4, DocumentedPasses DEF PrintsUsage, UsageFails
  <2> QED
    BY <1>1, <1>4, <2>1 DEF PInv, PrintsUsage, UsageFails, NoUsage
<1>5. CASE ConfigFails \/ ParseConfig
  <2>1. \A n \in {0, 2} : Documented(n) => ParseConfig
    BY <1>0, <1>5, DocumentedPasses DEF ConfigFails
  <2> QED
    BY <1>1, <1>5, <2>1 DEF PInv, ConfigFails, ParseConfig
<1>6. CASE ReadsNoArgument \/ TargetNotFirst \/ TargetFirst
  <2>1. found = Scanned /\ Consistent(found)
    BY <1>6 DEF PInv, ReadsNoArgument, TargetNotFirst, TargetFirst
  <2>2. \A n \in {0, 2} : Documented(n) => TargetFirst
    BY <1>0, <1>6, <2>1, DocumentedPasses DEF ReadsNoArgument, TargetNotFirst
  <2> QED
    BY <1>1, <1>6, <2>1, <2>2
       DEF PInv, ReadsNoArgument, TargetNotFirst, TargetFirst
<1>7. CASE InvalidMode \/ Unimplemented \/ StartProgram
  <2>1. /\ found = Scanned /\ Consistent(found) /\ found' = found
        /\ found.rest # <<>> /\ found.rest[1] = Targets(found)[1]
    BY <1>7 DEF PInv, InvalidMode, Unimplemented, StartProgram
  <2>2. ASSUME NEW n \in {0, 2}, Documented(n) PROVE Mode \in {"int", "ext"}
    <3>1. found.mode = IF n = 2 THEN <<argv[2]>> ELSE <<>>
      BY <1>0, <2>1, <2>2, DocumentedPasses
    <3>2. n = 2 => argv[2] \in {"int", "ext"}
      BY <1>0, <2>2, DocumentedPasses
    <3> QED
      BY <3>1, <3>2, TokenAssumption DEF Mode
  <2>3. \A n \in {0, 2} : Documented(n) => StartProgram
    BY <1>7, <2>2 DEF InvalidMode, Unimplemented, Modes
  <2>4. found.rest \in Seq(Token)
    BY <1>2, <2>1 DEF Parse
  <2>5. StartProgram => command' = <<Mode, Terminator>> \o found.rest
    BY <2>1, <2>4, CommandIsRest DEF StartProgram
  <2>6. Mode' = Mode
    BY <2>1 DEF Mode
  <2> QED
    BY <1>1, <1>7, <2>1, <2>3, <2>5, <2>6
       DEF PInv, InvalidMode, Unimplemented, StartProgram
<1> QED
  BY <1>3, <1>4, <1>5, <1>6, <1>7 DEF Next

LEMMA PCorrect == Spec => []PInv
<1> QED
  BY PInit, PNext, PTL DEF Spec

-----------------------------------------------------------------------------
(* The theorems. *)

LEMMA ByNameFromInv == PInv => TargetByName
<1> SUFFICES ASSUME PInv, pc \in {"crashed", "started"} PROVE TargetByName
  BY DEF TargetByName
<1> DEFINE q == found.target
           p == found.positional
           s == found.rest
<1>1. /\ found = Scanned /\ Len(Targets(found)) = 1
      /\ pc = "crashed" => s = <<>>
      /\ pc = "started" => s # <<>> /\ s[1] = Targets(found)[1]
  BY DEF PInv, Consistent
<1>2. /\ argv \in Seq(Token) /\ found \in Parse /\ ByName(found, Len(argv))
  BY <1>1, ScannedByName DEF PInv
<1>3. /\ q \in Seq(Token) /\ p \in Seq(Token) /\ s \in Seq(Token)
  BY <1>2 DEF Parse
<1>4. /\ p # <<>> => s # <<>>
      /\ p = <<>> => \A k \in 1 .. Len(s) : s[k] \notin Words
      /\ q # <<>> => \E j \in 1 .. Len(argv) : argv[j] = "--target"
  BY <1>2, Zenon DEF ByName
<1>5. /\ p = <<>> => Targets(found) = q
      /\ p # <<>> => Targets(found) = Append(q, Head(p))
  BY Zenon DEF Targets
<1> HIDE DEF p, q, s
<1>6. CASE pc = "crashed"
  <2>1. p = <<>> /\ Len(q) = 1
    BY <1>1, <1>4, <1>5, <1>6
  <2>2. q # <<>>
    BY <2>1, EmptySeq
  <2>3. PICK j \in 1 .. Len(argv) : argv[j] = "--target"
    BY <1>4, <2>2
  <2>4. j \in DOMAIN argv
    BY <1>2, LenProperties
  <2>5. "--target" \in Range(argv)
    BY <2>3, <2>4 DEF Range
  <2> QED
    BY <1>6, <2>5 DEF TargetByName
<1>7. CASE pc = "started"
  <2> SUFFICES ASSUME q # <<>> PROVE q[1] \notin Words
    BY <1>7 DEF TargetByName, q
  <2>1. p = <<>>
    <3> SUFFICES ASSUME p # <<>> PROVE FALSE
      OBVIOUS
    <3>1. Head(p) \in Token /\ Len(q) \in Nat \ {0}
      BY <1>3, HeadTailProperties, EmptySeq
    <3>2. Len(Append(q, Head(p))) = Len(q) + 1
      BY <1>3, <3>1, AppendProperties
    <3> QED
      BY <1>1, <1>5, <3>1, <3>2
  <2>2. s # <<>> /\ s[1] = q[1]
    BY <1>1, <1>5, <1>7, <2>1
  <2>3. Len(s) \in Nat \ {0}
    BY <1>3, <2>2, EmptySeq
  <2>4. 1 \in 1 .. Len(s)
    BY <2>3
  <2> QED
    BY <1>4, <2>1, <2>2, <2>4
<1> QED
  BY <1>6, <1>7

\* The empty vector of the target's arguments is read only when the target was
\* given with --target; and what is started with a --target of its own is
\* never a word (parse_args, the comparison with the first element).
THEOREM TargetByNameCorrect == Spec => []TargetByName
<1> QED
  BY PCorrect, ByNameFromInv, PTL

LEMMA DocumentedFromInv == PInv => DocumentedFormStarts
<1> SUFFICES ASSUME PInv, NEW n \in {0, 2}, Documented(n), Done
             PROVE  /\ pc = "started"
                    /\ command = <<IF n = 2 THEN argv[2] ELSE DefaultMode,
                                    Terminator>>
                                  \o SubSeq(argv, n + 1, Len(argv))
  BY DEF DocumentedFormStarts
<1>1. pc = "started"
  BY DEF PInv, Done
<1>2. /\ argv \in Seq(Token) /\ found = Scanned
      /\ command = <<Mode, Terminator>> \o found.rest
  BY <1>1 DEF PInv
<1>3. /\ found.rest = SubSeq(argv, n + 1, Len(argv))
      /\ found.mode = IF n = 2 THEN <<argv[2]>> ELSE <<>>
  BY <1>2, DocumentedPasses
<1>4. Mode = IF n = 2 THEN argv[2] ELSE DefaultMode
  BY <1>3 DEF Mode
<1> QED
  BY <1>1, <1>2, <1>3, <1>4

\* README.md:69: a command line of the documented form starts its target with
\* exactly the arguments after it, --help and --version among them, in the
\* mode given or the default one, whatever they are and however many.
THEOREM DocumentedFormCorrect == Spec => []DocumentedFormStarts
<1> QED
  BY PCorrect, DocumentedFromInv, PTL

LEMMA GivenFromInv == PInv => StartsOnlyWhatWasGiven
<1> SUFFICES ASSUME PInv, pc = "started" PROVE StartsOnlyWhatWasGiven
  BY DEF StartsOnlyWhatWasGiven
<1>1. /\ argv \in Seq(Token) /\ found = Scanned
      /\ command = <<Mode, Terminator>> \o found.rest
      /\ found.wants = "" /\ Len(found.mode) <= 1
  BY DEF PInv, Consistent
<1>2. PICK r : /\ Pass(r) /\ Scanned = r[Len(argv)]
               /\ ModeKept(r, Len(argv))
               /\ Without(TakenIn(r)) = Scanned.rest
               /\ Scanned.wants = "" =>
                     Len(argv) \notin ModesIn(r) \union LostIn(r)
  BY <1>1, ScannedPlaces
<1> DEFINE N == Len(argv)
           modes == ModesIn(r)
           lost == LostIn(r)
           ends == EndsIn(r)
<1>3. /\ N \in Nat /\ DOMAIN argv = 1 .. N
      /\ modes \subseteq 1 .. N /\ lost \subseteq 1 .. N /\ ends \subseteq 1 .. N
  BY <1>1, LenProperties DEF ModesIn, LostIn, EndsIn, ReadAt
<1>4. /\ \A i \in modes : argv[i] = "--ss_mode"
      /\ \A i \in lost : argv[i] \in {"--target", "--target-args"}
      /\ \A i \in ends : argv[i] = Terminator
  BY DEF ModesIn, LostIn, EndsIn
<1>5. Pairs(modes \union lost) \subseteq DOMAIN argv
  <2> DEFINE D == modes \union lost
  <2>1. D \subseteq 1 .. N /\ N \notin D
    BY <1>1, <1>2, <1>3
  <2> HIDE DEF D, N
  <2>2. \A i \in D : i + 1 \in 1 .. N
    BY <1>3, <2>1
  <2>3. Pairs(D) \subseteq 1 .. N
    BY <2>1, <2>2 DEF Pairs
  <2> QED
    BY <1>3, <2>3 DEF D
<1>6. Cardinality(ends) <= 1
  <2>1. \A d, e \in ends : d = e
    BY <1>1, <1>2, OneEnd
  <2> HIDE DEF ends
  <2>2. CASE ends = {}
    BY <2>2, FS_EmptySet
  <2>3. CASE ends # {}
    <3>1. PICK e \in ends : TRUE
      BY <2>3
    <3>2. ends = {e}
      BY <2>1, <3>1
    <3>3. Cardinality({e}) = 1
      BY FS_Singleton
    <3> QED
      BY <3>2, <3>3
  <2> QED
    BY <2>2, <2>3
<1>7. /\ Cardinality(modes) <= 1
      /\ Mode = IF modes = {} THEN DefaultMode
                ELSE argv[1 + CHOOSE i \in modes : TRUE]
  <2>1. found.mode = r[N].mode
    BY <1>1, <1>2
  <2>2. \A m \in modes : m < N
    <3> HIDE DEF modes, N
    <3>1. \A m \in modes : m \in 1 .. N /\ m # N
      BY <1>1, <1>2, <1>3 DEF modes, N
    <3> QED
      BY <1>3, <3>1
  <2>3. \/ found.mode = <<>> /\ \A o \in modes : o >= N
        \/ \E m \in modes : /\ m < N /\ found.mode = <<argv[m + 1]>>
                            /\ \A o \in modes : o < N => o = m
        \/ Len(found.mode) >= 2
    BY <1>2, <2>1, Zenon DEF ModeKept
  <2>4. found.mode \in Seq(Token)
    BY <1>1, ScannedByName DEF Parse
  <2>5. Len(found.mode) \in Nat
    BY <2>4, LenProperties
  <2>6. \A m \in modes : m \in Nat /\ ~(m >= N)
    <3>1. modes \subseteq 1 .. N /\ N \in Nat
      BY <1>3
    <3> HIDE DEF modes, N
    <3>2. \A m \in modes : m \in Nat /\ m < N
      BY <2>2, <3>1
    <3>3. \A m \in Nat : m < N => ~(m >= N)
      BY <3>1
    <3> QED
      BY <3>2, <3>3, Zenon
  <2>7. ~(Len(found.mode) >= 2)
    <3> DEFINE n == Len(found.mode)
    <3>1. n \in Nat /\ n <= 1
      BY <1>1, <2>5
    <3> HIDE DEF n
    <3>2. ~(n >= 2)
      BY <3>1
    <3> QED
      BY <3>2 DEF n
  <2> HIDE DEF modes, N
  <2>8. CASE found.mode = <<>> /\ \A o \in modes : o >= N
    <3>1. modes = {}
      BY <2>6, <2>8
    <3>2. Mode = DefaultMode
      BY <2>8 DEF Mode
    <3> QED
      BY <3>1, <3>2, FS_EmptySet
  <2>9. ASSUME NEW m \in modes, found.mode = <<argv[m + 1]>>,
               \A o \in modes : o < N => o = m
        PROVE  /\ Cardinality(modes) <= 1
               /\ Mode = IF modes = {} THEN DefaultMode
                         ELSE argv[1 + CHOOSE i \in modes : TRUE]
    <3>1. modes = {m}
      BY <2>2, <2>9
    <3>2. Cardinality(modes) <= 1
      <4>1. Cardinality({m}) = 1
        BY FS_Singleton
      <4> QED
        BY <3>1, <4>1
    <3>3. Mode = argv[m + 1]
      <4>1. found.mode # <<>> /\ found.mode[1] = argv[m + 1]
        BY <2>9
      <4> QED
        BY <4>1 DEF Mode
    <3>4. (CHOOSE i \in modes : TRUE) = m
      BY <3>1
    <3>5. m + 1 = 1 + m
      BY <2>6
    <3>6. modes # {}
      BY <3>1
    <3>7. Mode = argv[1 + CHOOSE i \in modes : TRUE]
      BY <3>3, <3>4, <3>5
    <3> QED
      BY <3>2, <3>6, <3>7
  <2> QED
    BY <2>3, <2>7, <2>8, <2>9
<1>8. Without(Pairs(modes \union lost) \union ends) = found.rest
  BY <1>1, <1>2 DEF TakenIn
<1>9. command = <<IF modes = {} THEN DefaultMode
                  ELSE argv[1 + CHOOSE i \in modes : TRUE], Terminator>>
                \o Without(Pairs(modes \union lost) \union ends)
  BY <1>1, <1>7, <1>8
<1>10. /\ modes \in SUBSET DOMAIN argv /\ lost \in SUBSET DOMAIN argv
       /\ ends \in SUBSET DOMAIN argv
  BY <1>3
<1> HIDE DEF N, modes, lost, ends
<1> QED
  BY <1>4, <1>5, <1>6, <1>7, <1>9, <1>10, Zenon DEF StartsOnlyWhatWasGiven

\* Whatever the command line, what is started is what it says, in its order,
\* without one --ss_mode and its value, the values given to --target and
\* --target-args, and one terminator: parse_args loses nothing else.
THEOREM StartsOnlyWhatWasGivenCorrect == Spec => []StartsOnlyWhatWasGiven
<1> QED
  BY PCorrect, GivenFromInv, PTL
=============================================================================
