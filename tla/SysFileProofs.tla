---------------------------- MODULE SysFileProofs ----------------------------
(***************************************************************************)
(* What holds of module SysFile in every state, for any number of          *)
(* processes, i-nodes and files and for any calls and paths: SysInv, which *)
(* the actions keep (SysFileSteps) as references to i-nodes are counted,   *)
(* and LinkInv, which they keep (SysFileLinks) as links are.  The numbers  *)
(* of references and links, that those modules take from Counting and      *)
(* LinkCounting, are shown first.                                          *)
(***************************************************************************)
EXTENDS SysFileSteps, SysFileLinks, FiniteSetTheorems
-----------------------------------------------------------------------------
(* Counting references.                                                    *)

\* Two sets that differ in one element.
LEMMA CardinalityStep ==
  ASSUME NEW A, NEW B, NEW x, IsFiniteSet(A), A \ {x} = B \ {x}
  PROVE  /\ IsFiniteSet(B)
         /\ Cardinality(A) \in Nat /\ Cardinality(B) \in Nat
         /\ Cardinality(B) = Cardinality(A) - One(x \in A) + One(x \in B)
<1> DEFINE R == A \ {x}
<1>1. IsFiniteSet(R) /\ Cardinality(A) \in Nat
  BY FS_RemoveElement, FS_CardinalityType, ZenonT(30)
<1>2. Cardinality(R) = IF x \in A THEN Cardinality(A) - 1 ELSE Cardinality(A)
  BY FS_RemoveElement, ZenonT(30)
<1>3. IsFiniteSet(R \cup {x}) /\ Cardinality(R \cup {x}) = Cardinality(R) + 1
  <2>1. x \notin R
    BY ZenonT(30)
  <2> HIDE DEF R
  <2>2. QED
    BY <1>1, <2>1, FS_AddElement, ZenonT(30)
<1>4. B = IF x \in B THEN R \cup {x} ELSE R
  BY ZenonT(30)
<1>5. Cardinality(R) \in Nat
  BY <1>1, FS_CardinalityType, ZenonT(30)
<1> HIDE DEF R
<1>6. IsFiniteSet(B) /\ Cardinality(B) = IF x \in B THEN Cardinality(R) + 1 ELSE Cardinality(R)
  BY <1>1, <1>3, <1>4, ZenonT(30)
<1>7. QED
  BY <1>1, <1>2, <1>5, <1>6, SMTT(30) DEF One

\* There are finitely many locals and descriptors.
LEMMA FiniteLocals ==
  /\ IsFiniteSet(Proc \X Slots) /\ IsFiniteSet(Proc \X (1 .. NOFILE))
<1>1. IsFiniteSet(Slots)
  <2>1. Slots = (({"ip"} \cup {"dp"}) \cup {"old"}) \cup {"vic"}
    BY Zenon DEF Slots
  <2>2. IsFiniteSet({"ip"} \cup {"dp"})
    BY FS_Singleton, FS_AddElement, ZenonT(30)
  <2>3. IsFiniteSet(({"ip"} \cup {"dp"}) \cup {"old"})
    BY <2>2, FS_AddElement, ZenonT(30)
  <2>4. IsFiniteSet((({"ip"} \cup {"dp"}) \cup {"old"}) \cup {"vic"})
    BY <2>3, FS_AddElement, ZenonT(30)
  <2>5. QED
    BY <2>1, <2>4, ZenonT(30)
<1>2. IsFiniteSet(1 .. NOFILE)
  BY FS_Interval, ConstAssumption, SMTT(30)
<1>3. QED
  BY <1>1, <1>2, FS_Product, ConstAssumption, ZenonT(30)

\* The locals of one process change.
LEMMA LocalsStep ==
  ASSUME th \in [Proc -> Thread], NEW p \in Proc, NEW t \in Thread,
         th' = [th EXCEPT ![p] = t], NEW i
  PROVE  /\ Cardinality(Locals(i)) \in Nat /\ Cardinality(Locals(i)') \in Nat
         /\ Cardinality(Locals(i)') = Cardinality(Locals(i)) - Uses(th[p], i) + Uses(t, i)
<1> DEFINE L(S) == {x \in Proc \X Slots :
                      (IF x[1] = p /\ x[2] \in S THEN t[x[2]] ELSE th[x[1]][x[2]]) = i}
           S1 == {"ip"}
           S2 == {"ip", "dp"}
           S3 == {"ip", "dp", "old"}
<1>1. IsFiniteSet(L({}))
  BY FiniteLocals, FS_Subset, ZenonT(30)
<1>2. L({}) = Locals(i)
  BY Zenon DEF Locals
<1>3. L(Slots) = Locals(i)'
  BY Zenon DEF Locals
<1>4. /\ L({}) \ {<<p, "ip">>} = L(S1) \ {<<p, "ip">>}
      /\ L(S1) \ {<<p, "dp">>} = L(S2) \ {<<p, "dp">>}
      /\ L(S2) \ {<<p, "old">>} = L(S3) \ {<<p, "old">>}
      /\ L(S3) \ {<<p, "vic">>} = L(Slots) \ {<<p, "vic">>}
  BY DEF Slots
<1>5. /\ <<p, "ip">> \in L({}) <=> th[p].ip = i
      /\ <<p, "ip">> \in L(S1) <=> t.ip = i
      /\ <<p, "dp">> \in L(S1) <=> th[p].dp = i
      /\ <<p, "dp">> \in L(S2) <=> t.dp = i
      /\ <<p, "old">> \in L(S2) <=> th[p].old = i
      /\ <<p, "old">> \in L(S3) <=> t.old = i
      /\ <<p, "vic">> \in L(S3) <=> th[p].vic = i
      /\ <<p, "vic">> \in L(Slots) <=> t.vic = i
  BY Zenon DEF Slots
<1> HIDE DEF L
<1>6. /\ IsFiniteSet(L(S1)) /\ Cardinality(L({})) \in Nat /\ Cardinality(L(S1)) \in Nat
      /\ Cardinality(L(S1)) = Cardinality(L({})) - One(th[p].ip = i) + One(t.ip = i)
  BY <1>1, <1>4, <1>5, CardinalityStep, SMTT(30) DEF One
<1>7. /\ IsFiniteSet(L(S2)) /\ Cardinality(L(S2)) \in Nat
      /\ Cardinality(L(S2)) = Cardinality(L(S1)) - One(th[p].dp = i) + One(t.dp = i)
  BY <1>4, <1>5, <1>6, CardinalityStep, SMTT(30) DEF One
<1>8. /\ IsFiniteSet(L(S3)) /\ Cardinality(L(S3)) \in Nat
      /\ Cardinality(L(S3)) = Cardinality(L(S2)) - One(th[p].old = i) + One(t.old = i)
  BY <1>4, <1>5, <1>7, CardinalityStep, SMTT(30) DEF One
<1>9. /\ Cardinality(L(Slots)) \in Nat
      /\ Cardinality(L(Slots)) = Cardinality(L(S3)) - One(th[p].vic = i) + One(t.vic = i)
  BY <1>4, <1>5, <1>8, CardinalityStep, SMTT(30) DEF One
<1>10. QED
  BY <1>2, <1>3, <1>6, <1>7, <1>8, <1>9, SMTT(30) DEF Uses, One

\* So there are finitely many references of each kind,
LEMMA FiniteParts ==
  ASSUME NEW C \in SUBSET Proc, NEW F \in SUBSET (Proc \X (1 .. NOFILE)),
         NEW L \in SUBSET (Proc \X Slots)
  PROVE  /\ IsFiniteSet(C) /\ IsFiniteSet(F) /\ IsFiniteSet(L)
         /\ Cardinality(C) \in Nat /\ Cardinality(F) \in Nat /\ Cardinality(L) \in Nat
<1>1. IsFiniteSet(C) /\ IsFiniteSet(F) /\ IsFiniteSet(L)
  BY FiniteLocals, FS_Subset, ConstAssumption, Zenon
<1>2. QED
  BY <1>1, FS_CardinalityType, Zenon

\* and their numbers are natural.
LEMMA CountParts ==
  ASSUME NEW i
  PROVE  /\ IsFiniteSet(Cwds(i)) /\ IsFiniteSet(Files(i)) /\ IsFiniteSet(Locals(i))
         /\ Cardinality(Cwds(i)) \in Nat /\ Cardinality(Files(i)) \in Nat
         /\ Cardinality(Locals(i)) \in Nat
<1>1. /\ Cwds(i) \in SUBSET Proc /\ Files(i) \in SUBSET (Proc \X (1 .. NOFILE))
      /\ Locals(i) \in SUBSET (Proc \X Slots)
  BY Zenon DEF Cwds, Files, Locals, OpenFiles
<1>2. QED
  BY <1>1, FiniteParts, Zenon

\* A process moves on, and may change its current directory.
LEMMA ProcRecount ==
  ASSUME Types, NEW p \in Proc, NEW t \in Thread, th' = [th EXCEPT ![p] = t],
         NEW w \in Inum, cwd' = [cwd EXCEPT ![p] = w], fds' = fds
  PROVE  Recount(p, t, w)
<1> SUFFICES ASSUME NEW i \in Inum
             PROVE  /\ Count(i) \in Nat /\ Count(i)' \in Nat
                    /\ Count(i)' = Count(i) - Uses(th[p], i) + Uses(t, i)
                                   - One(cwd[p] = i) + One(w = i)
  BY ZenonT(30) DEF Recount
<1>1. /\ Cardinality(Locals(i)) \in Nat /\ Cardinality(Locals(i)') \in Nat
      /\ Cardinality(Locals(i)') = Cardinality(Locals(i)) - Uses(th[p], i) + Uses(t, i)
  BY LocalsStep, ZenonT(30) DEF Types
<1>2. Files(i)' = Files(i) /\ Cardinality(Files(i)) \in Nat
  BY CountParts, ZenonT(30) DEF Files, OpenFiles
<1>3. /\ Cwds(i) \ {p} = Cwds(i)' \ {p}
      /\ p \in Cwds(i) <=> cwd[p] = i
      /\ p \in Cwds(i)' <=> w = i
  BY ZenonT(30) DEF Cwds, Types
<1>4. /\ Cardinality(Cwds(i)) \in Nat /\ Cardinality(Cwds(i)') \in Nat
      /\ Cardinality(Cwds(i)') = Cardinality(Cwds(i)) - One(cwd[p] = i) + One(w = i)
  <2> DEFINE A == Cwds(i)
             B == Cwds(i)'
  <2>1. IsFiniteSet(A) /\ A \ {p} = B \ {p}
    BY <1>3, CountParts, ZenonT(30)
  <2> HIDE DEF A, B
  <2>2. /\ Cardinality(A) \in Nat /\ Cardinality(B) \in Nat
        /\ Cardinality(B) = Cardinality(A) - One(p \in A) + One(p \in B)
    BY <2>1, CardinalityStep, ZenonT(30)
  <2>3. QED
    BY <1>3, <2>2, ZenonT(30) DEF One, A, B
<1>5. Uses(th[p], i) \in Nat /\ Uses(t, i) \in Nat
  BY DEF Uses, One
<1>6. QED
  BY <1>1, <1>2, <1>4, <1>5, SMTT(30) DEF Count, One

\* A process opens or closes a file.
LEMMA FileRecount ==
  ASSUME Types, NEW p \in Proc, NEW t \in Thread, th' = [th EXCEPT ![p] = t],
         NEW d \in 1 .. NOFILE, NEW v \in Inum \cup {None},
         fds' = [fds EXCEPT ![p][d] = v], cwd' = cwd
  PROVE  RecountFile(p, t, d, v)
<1> SUFFICES ASSUME NEW i \in Inum
             PROVE  /\ Count(i) \in Nat /\ Count(i)' \in Nat
                    /\ Count(i)' = Count(i) - Uses(th[p], i) + Uses(t, i)
                                   - One(fds[p][d] = i) + One(v = i)
  BY ZenonT(30) DEF RecountFile
<1>1. /\ Cardinality(Locals(i)) \in Nat /\ Cardinality(Locals(i)') \in Nat
      /\ Cardinality(Locals(i)') = Cardinality(Locals(i)) - Uses(th[p], i) + Uses(t, i)
  BY LocalsStep, ZenonT(30) DEF Types
<1>2. Cwds(i)' = Cwds(i) /\ Cardinality(Cwds(i)) \in Nat
  BY CountParts, ZenonT(30) DEF Cwds
<1>3. i # None
  BY DEF Inum, None
<1>4. /\ Files(i) = {x \in Proc \X (1 .. NOFILE) : fds[x[1]][x[2]] = i}
      /\ Files(i)' = {x \in Proc \X (1 .. NOFILE) : fds'[x[1]][x[2]] = i}
  BY <1>3, ZenonT(30) DEF Files, OpenFiles
<1>5. /\ Files(i) \ {<<p, d>>} = Files(i)' \ {<<p, d>>}
      /\ <<p, d>> \in Files(i) <=> fds[p][d] = i
      /\ <<p, d>> \in Files(i)' <=> v = i
  <2>1. \A q \in Proc, e \in 1 .. NOFILE :
          fds'[q][e] = IF q = p /\ e = d THEN v ELSE fds[q][e]
    BY ZenonT(30) DEF Types
  <2>2. \A x \in Proc \X (1 .. NOFILE) : x = <<x[1], x[2]>>
    OBVIOUS
  <2>3. QED
    BY <1>4, <2>1, <2>2, SMTT(30)
<1>6. /\ Cardinality(Files(i)) \in Nat /\ Cardinality(Files(i)') \in Nat
      /\ Cardinality(Files(i)') = Cardinality(Files(i)) - One(fds[p][d] = i) + One(v = i)
  <2> DEFINE A == Files(i)
             B == Files(i)'
  <2>1. IsFiniteSet(A) /\ A \ {<<p, d>>} = B \ {<<p, d>>}
    BY <1>5, CountParts, Zenon
  <2> HIDE DEF A, B
  <2>2. /\ Cardinality(A) \in Nat /\ Cardinality(B) \in Nat
        /\ Cardinality(B) = Cardinality(A) - One(<<p, d>> \in A) + One(<<p, d>> \in B)
    BY <2>1, CardinalityStep, ZenonT(30)
  <2>3. QED
    BY <1>5, <2>2, Zenon DEF One, A, B
<1>7. Uses(th[p], i) \in Nat /\ Uses(t, i) \in Nat
  BY DEF Uses, One
<1>8. QED
  BY <1>1, <1>2, <1>6, <1>7, SMTT(30) DEF Count, One

\* A set with two elements has at least two.
LEMMA TwoElements ==
  ASSUME NEW L, IsFiniteSet(L), NEW x \in L, NEW y \in L, x # y
  PROVE  Cardinality(L) \in Nat /\ Cardinality(L) >= 2
<1>1. Cardinality(L) \in Nat
  BY FS_CardinalityType, ZenonT(30)
<1>2. IsFiniteSet(L \ {x}) /\ Cardinality(L \ {x}) = Cardinality(L) - 1
  BY FS_RemoveElement, ZenonT(30)
<1>3. Cardinality(L \ {x}) # 0
  BY <1>2, FS_EmptySet, SMTT(30)
<1>4. Cardinality(L \ {x}) \in Nat
  BY <1>2, FS_CardinalityType, Zenon
<1>5. QED
  BY <1>1, <1>2, <1>3, <1>4, SMTT(30)

\* An i-node in two places of the calls in progress has two references.
LEMMA TwoCounted ==
  ASSUME NEW i \in Inum, NEW x, NEW y, x \in Locals(i)', y \in Locals(i)', x # y
  PROVE  Count(i)' >= 2
<1>1. /\ Cwds(i)' \in SUBSET Proc /\ Files(i)' \in SUBSET (Proc \X (1 .. NOFILE))
      /\ Locals(i)' \in SUBSET (Proc \X Slots)
  BY Zenon DEF Cwds, Files, Locals, OpenFiles
<1>2. /\ IsFiniteSet(Locals(i)')
      /\ Cardinality(Cwds(i)') \in Nat /\ Cardinality(Files(i)') \in Nat
  BY <1>1, FiniteParts, Zenon
<1>3. Cardinality(Locals(i)') \in Nat /\ Cardinality(Locals(i)') >= 2
  BY <1>2, TwoElements, Zenon
<1>4. QED
  BY <1>2, <1>3, SMTT(30) DEF Count

\* An i-node in one place has a reference.
LEMMA OneCounted == OneRef
<1> SUFFICES ASSUME NEW i \in Inum, Locals(i) # {} PROVE Count(i) # 0
  BY ZenonT(30) DEF OneRef
<1>1. IsFiniteSet(Locals(i)) /\ Cardinality(Cwds(i)) \in Nat /\ Cardinality(Files(i)) \in Nat
  BY CountParts, ZenonT(30)
<1>2. Cardinality(Locals(i)) \in Nat /\ Cardinality(Locals(i)) # 0
  BY <1>1, FS_EmptySet, FS_CardinalityType, ZenonT(30)
<1>3. QED
  BY <1>1, <1>2, SMTT(30) DEF Count

\* The least element of a set of numbers.
LEMMA LeastExists ==
  ASSUME NEW S, S \subseteq Nat, S # {}
  PROVE  \E x \in S : \A y \in S : x <= y
<1> DEFINE T == {0 .. x : x \in S}
<1>1. T \subseteq FiniteSubsetsOf(Nat) /\ T # {}
  <2>1. \A x \in S : IsFiniteSet(0 .. x) /\ 0 .. x \in SUBSET Nat
    BY FS_Interval
  <2>2. QED
    BY <2>1, ZenonT(30) DEF FiniteSubsetsOf
<1>2. PICK t \in T : \A u \in T : ~ (<<u, t>> \in StrictSubsetOrdering(Nat))
  BY <1>1, WFMin, FS_StrictSubsetOrderingWellFounded, ZenonT(30)
<1>3. PICK x \in S : t = 0 .. x
  BY ZenonT(30)
<1>4. ASSUME NEW y \in S, y < x
      PROVE  FALSE
  <2>1. 0 .. y \in T /\ <<0 .. y, t>> \in (SUBSET Nat) \X (SUBSET Nat)
    BY <1>3
  <2>2. (0 .. y) \subseteq t /\ 0 .. y # t
    BY <1>3, <1>4
  <2>3. <<0 .. y, t>> \in StrictSubsetOrdering(Nat)
    BY <2>1, <2>2, Zenon DEF StrictSubsetOrdering
  <2>4. QED
    BY <1>2, <2>1, <2>3, ZenonT(30)
<1>5. QED
  BY <1>4

\* What the lemmas about the steps need.
LEMMA CountingHolds == Types => Counting
<1> SUFFICES ASSUME Types PROVE Counting
  BY Zenon
<1>1. CountStep
  BY ProcRecount, ZenonT(30) DEF CountStep
<1>2. CountFileStep
  BY FileRecount, ZenonT(30) DEF CountFileStep
<1>3. TwoRefs
  BY TwoCounted, ZenonT(30) DEF TwoRefs
<1>4. LeastNumber
  BY LeastExists, ZenonT(30) DEF LeastNumber
<1>5. QED
  BY <1>1, <1>2, <1>3, <1>4, OneCounted, Zenon DEF Counting
-----------------------------------------------------------------------------
(* Counting links.                                                         *)

\* A set with no more elements than another, with one more, and with one less.
LEMMA Fewer ==
  ASSUME NEW A, NEW B, IsFiniteSet(A), IsFiniteSet(B)
  PROVE  /\ Cardinality(A) \in Nat /\ Cardinality(B) \in Nat
         /\ B \subseteq A => Cardinality(B) <= Cardinality(A)
         /\ \A x : B \subseteq A \cup {x} => Cardinality(B) <= Cardinality(A) + 1
         /\ \A x \in A : B \subseteq A \ {x} => Cardinality(B) + 1 <= Cardinality(A)
<1>1. Cardinality(A) \in Nat /\ Cardinality(B) \in Nat
  BY FS_CardinalityType
<1>2. B \subseteq A => Cardinality(B) <= Cardinality(A)
  BY FS_Subset
<1>3. ASSUME NEW x, B \subseteq A \cup {x}
      PROVE  Cardinality(B) <= Cardinality(A) + 1
  <2> DEFINE C == A \cup {x}
  <2>1. /\ IsFiniteSet(C)
        /\ Cardinality(C) = IF x \in A THEN Cardinality(A) ELSE Cardinality(A) + 1
    BY FS_AddElement
  <2>2. B \subseteq C
    BY <1>3
  <2> HIDE DEF C
  <2>3. Cardinality(B) <= Cardinality(C)
    BY <2>1, <2>2, FS_Subset
  <2>4. QED
    BY <1>1, <2>1, <2>3
<1>4. ASSUME NEW x \in A, B \subseteq A \ {x}
      PROVE  Cardinality(B) + 1 <= Cardinality(A)
  <2> DEFINE C == A \ {x}
  <2>1. IsFiniteSet(C) /\ Cardinality(C) = Cardinality(A) - 1
    BY FS_RemoveElement
  <2>2. B \subseteq C
    BY <1>4
  <2> HIDE DEF C
  <2>3. Cardinality(B) <= Cardinality(C)
    BY <2>1, <2>2, FS_Subset
  <2>4. QED
    BY <1>1, <2>1, <2>3
<1>5. QED
  BY <1>1, <1>2, <1>3, <1>4

\* There are finitely many entries, names and processes.
LEMMA FiniteLinks ==
  ASSUME NEW N \in SUBSET (Inum \X Name), NEW S \in SUBSET Name, NEW C \in SUBSET Proc
  PROVE  IsFiniteSet(N) /\ IsFiniteSet(S) /\ IsFiniteSet(C)
<1>1. IsFiniteSet(Inum)
  BY FS_Interval, ConstAssumption DEF Inum
<1>2. IsFiniteSet(Name) /\ IsFiniteSet(Proc)
  BY ConstAssumption
<1>3. IsFiniteSet(Inum \X Name)
  BY <1>1, <1>2, FS_Product
<1>4. QED
  BY <1>2, <1>3, FS_Subset

\* Names, subdirectories and calls are finitely many, before and after a step.
LEMMA LinksFinite ==
  ASSUME NEW i
  PROVE  /\ IsFiniteSet(Names(i)) /\ IsFiniteSet(Names(i)')
         /\ IsFiniteSet(Subs(i)) /\ IsFiniteSet(Subs(i)')
         /\ IsFiniteSet(Calls(i)) /\ IsFiniteSet(Calls(i)')
<1>1. /\ Names(i) \in SUBSET (Inum \X Name) /\ Names(i)' \in SUBSET (Inum \X Name)
      /\ Subs(i) \in SUBSET Name /\ Subs(i)' \in SUBSET Name
      /\ Calls(i) \in SUBSET Proc /\ Calls(i)' \in SUBSET Proc
  BY DEF Names, Subs, Calls
<1>2. QED
  BY <1>1, FiniteLinks, Zenon

\* The number of links of an i-node, and how a step changes it.
LEMMA LinksRecounted ==
  ASSUME NEW i
  PROVE  LinkRecount(i)
<1> DEFINE N == Names(i)
           M == Names(i)'
           S == Subs(i)
           T == Subs(i)'
           C == Calls(i)
           D == Calls(i)'
<1>1. /\ IsFiniteSet(N) /\ IsFiniteSet(M) /\ IsFiniteSet(S) /\ IsFiniteSet(T)
      /\ IsFiniteSet(C) /\ IsFiniteSet(D)
  BY LinksFinite, Zenon
<1>2. /\ Links(i) = Cardinality(N) + Cardinality(S) + Cardinality(C)
      /\ Links(i)' = Cardinality(M) + Cardinality(T) + Cardinality(D)
  BY DEF Links
<1> HIDE DEF N, M, S, T, C, D
<1>3. /\ Cardinality(N) \in Nat /\ Cardinality(M) \in Nat
      /\ M \subseteq N => Cardinality(M) <= Cardinality(N)
      /\ \A x : M \subseteq N \cup {x} => Cardinality(M) <= Cardinality(N) + 1
      /\ \A x \in N : M \subseteq N \ {x} => Cardinality(M) + 1 <= Cardinality(N)
  BY <1>1, Fewer, Zenon
<1>4. /\ Cardinality(S) \in Nat /\ Cardinality(T) \in Nat
      /\ T \subseteq S => Cardinality(T) <= Cardinality(S)
      /\ \A x : T \subseteq S \cup {x} => Cardinality(T) <= Cardinality(S) + 1
      /\ \A x \in S : T \subseteq S \ {x} => Cardinality(T) + 1 <= Cardinality(S)
  BY <1>1, Fewer, Zenon
<1>5. /\ Cardinality(C) \in Nat /\ Cardinality(D) \in Nat
      /\ D \subseteq C => Cardinality(D) <= Cardinality(C)
      /\ \A x : D \subseteq C \cup {x} => Cardinality(D) <= Cardinality(C) + 1
      /\ \A x \in C : D \subseteq C \ {x} => Cardinality(D) + 1 <= Cardinality(C)
  BY <1>1, Fewer, Zenon
<1>6. Links(i) \in Nat /\ Links(i)' \in Nat
  BY <1>2, <1>3, <1>4, <1>5
<1>7. Links(i) = 0 <=> N = {} /\ S = {} /\ C = {}
  <2>1. Links(i) = 0 <=> Cardinality(N) = 0 /\ Cardinality(S) = 0 /\ Cardinality(C) = 0
    BY <1>2, <1>3, <1>4, <1>5
  <2>2. QED
    BY <1>1, <2>1, FS_EmptySet, Zenon
<1>8. M \subseteq N /\ T \subseteq S =>
        /\ D \subseteq C => Links(i)' <= Links(i)
        /\ \A x : D \subseteq C \cup {x} => Links(i)' <= Links(i) + 1
        /\ \A x \in C : D \subseteq C \ {x} => Links(i)' + 1 <= Links(i)
  BY <1>2, <1>3, <1>4, <1>5
<1>9. M \subseteq N /\ D \subseteq C =>
        /\ \A x : T \subseteq S \cup {x} => Links(i)' <= Links(i) + 1
        /\ \A x \in S : T \subseteq S \ {x} => Links(i)' + 1 <= Links(i)
  BY <1>2, <1>3, <1>4, <1>5
<1>10. ASSUME T \subseteq S, NEW x, M \subseteq N \cup {x}
       PROVE  /\ D \subseteq C => Links(i)' <= Links(i) + 1
              /\ \A y \in C : D \subseteq C \ {y} => Links(i)' <= Links(i)
  <2>1. Cardinality(T) <= Cardinality(S) /\ Cardinality(M) <= Cardinality(N) + 1
    BY <1>3, <1>4, <1>10, Zenon
  <2>2. QED
    BY <1>2, <1>3, <1>4, <1>5, <2>1
<1>11. ASSUME T \subseteq S, NEW x \in N, M \subseteq N \ {x}
       PROVE  \A y : D \subseteq C \cup {y} => Links(i)' <= Links(i)
  <2>1. Cardinality(T) <= Cardinality(S) /\ Cardinality(M) + 1 <= Cardinality(N)
    BY <1>3, <1>4, <1>11, Zenon
  <2>2. QED
    BY <1>2, <1>3, <1>4, <1>5, <2>1
<1>12. QED
  BY <1>6, <1>7, <1>8, <1>9, <1>10, <1>11, Zenon
     DEF LinkRecount, N, M, S, T, C, D

\* Of an i-node with one reference, which is that of an inode_put, no current
\* directory, no descriptor and no other local is a reference.
LEMMA SoleRefHolds ==
  ASSUME SysInv'
  PROVE  SoleRef
<1> SUFFICES ASSUME NEW p \in Proc, NEW i \in Inum, th'[p].vic = i, ic'.ref[i] = 1,
                    NEW q \in Proc
             PROVE  Clear(q, i)'
  BY Zenon DEF SoleRef
<1> DEFINE W == Cwds(i)'
           F == Files(i)'
           L == Locals(i)'
           v == <<p, "vic">>
<1>1. W \in SUBSET Proc /\ F \in SUBSET (Proc \X (1 .. NOFILE)) /\ L \in SUBSET (Proc \X Slots)
  BY Zenon DEF Cwds, Files, Locals, OpenFiles
<1>2. v \in L
  BY Zenon DEF Locals, Slots
<1>3. (IF i = ROOTINO THEN 1 ELSE 0) + Cardinality(W) + Cardinality(F) + Cardinality(L) = 1
  BY Zenon DEF SysInv, Count
<1>4. ASSUME NEW x \in L
      PROVE  x = v
  <2>1. SUFFICES ASSUME x # v PROVE FALSE
    BY Zenon
  <2>2. Count(i)' >= 2
    BY <1>2, <2>1, TwoCounted, Zenon
  <2>3. Count(i)' = 1
    BY Zenon DEF SysInv
  <2>4. QED
    BY <2>2, <2>3, SMT
<1> HIDE DEF W, F, L
<1>5. IsFiniteSet(W) /\ IsFiniteSet(F) /\ IsFiniteSet(L)
  BY <1>1, FiniteParts, Zenon
<1>6. Cardinality(W) \in Nat /\ Cardinality(F) \in Nat /\ Cardinality(L) \in Nat /\ Cardinality(L) # 0
  BY <1>2, <1>5, FS_EmptySet, FS_CardinalityType, ZenonT(30)
<1>7. Cardinality(W) = 0 /\ Cardinality(F) = 0
  BY <1>3, <1>6, SMT
<1>8. W = {} /\ F = {}
  BY <1>5, <1>7, FS_EmptySet, ZenonT(30)
<1>9. cwd'[q] # i
  BY <1>8, Zenon DEF W, Cwds
<1>10. ASSUME NEW d \in 1 .. NOFILE
       PROVE  fds'[q][d] # i
  <2>1. <<q, d>> \in Proc \X (1 .. NOFILE) /\ i # None
    BY DEF Inum, None
  <2>2. QED
    BY <1>8, <2>1 DEF F, Files, OpenFiles
<1>11. ASSUME NEW s \in Slots, s # "vic"
       PROVE  th'[q][s] # i
  <2>1. <<q, s>> \in Proc \X Slots /\ <<q, s>> # v
    BY <1>11
  <2>2. <<q, s>> \notin L
    BY <1>4, <2>1, Zenon
  <2>3. QED
    BY <2>1, <2>2 DEF L, Locals
<1>12. th'[q].ip # i /\ th'[q].dp # i /\ th'[q].old # i
  <2>1. \A s \in {"ip", "dp", "old"} : s \in Slots /\ s # "vic"
    BY DEF Slots
  <2>2. QED
    BY <1>11, <2>1, Zenon
<1>13. QED
  BY <1>9, <1>10, <1>12, Zenon DEF Clear, Apart

\* What the lemmas about links need.
LEMMA LinkCountingHolds == SysInv' => LinkCounting
<1> SUFFICES ASSUME SysInv' PROVE LinkCounting
  BY Zenon
<1>1. SoleRef
  BY SoleRefHolds, Zenon
<1>2. LeastNumber
  BY LeastExists, Zenon DEF LeastNumber
<1>3. QED
  BY <1>1, <1>2, LinksRecounted, Zenon DEF LinkCounting
-----------------------------------------------------------------------------
(* References, locks and transactions.                                     *)

\* The invariant holds when the kernel starts.
LEMMA SysInit == Init => SysInv
<1> SUFFICES ASSUME Init PROVE SysInv
  BY Zenon
<1>1. /\ Idle \in Thread /\ WellFormed(Idle) /\ ~InTrans(Idle)
      /\ \A i \in Inum : ~Holds(Idle, i)
  <2>1. IsAt(Idle, "idle", "none", <<>>, None, None, None)
    BY IdleAt, ZenonT(30)
  <2>2. WellFormed(Idle) /\ Idle \in Thread
    BY <2>1, ZenonT(30) DEF WellFormed, At, HasIp, HasDp, HasOld, PC, IsAt
  <2>3. QED
    BY <2>1, <2>2, InumIsSome, ZenonT(30) DEF Holds, Locked, InTrans, At, IsAt
<1>2. Types
  <2>1. Cardinality(Proc) + 1 \in Nat
    BY ConstAssumption, FS_CardinalityType, SMTT(30)
  <2>2. ic \in Cache
    BY <2>1, Zenon DEF Init, Cache
  <2>3. fs \in Inodes
    BY ROOTINOType DEF Init, Inodes
  <2>4. QED
    BY <1>1, <2>2, <2>3, ROOTINOType, ZenonT(30) DEF Init, Types
<1>3. ASSUME NEW i \in Inum
      PROVE  ic.ref[i] = Count(i)
  <2>1. Locals(i) = {}
    <3>1. \A x \in Proc \X Slots : th[x[1]][x[2]] = None
      BY DEF Init, Idle, Slots
    <3>2. QED
      BY <3>1, InumIsSome, ZenonT(30) DEF Locals
  <2>2. Files(i) = {}
    BY ZenonT(30) DEF Init, Files, OpenFiles
  <2>3. Cwds(i) = IF i = ROOTINO THEN Proc ELSE {}
    BY ZenonT(30) DEF Init, Cwds
  <2>4. Cardinality({}) = 0 /\ Cardinality(Proc) \in Nat
    BY ConstAssumption, FS_EmptySet, FS_CardinalityType, ZenonT(30)
  <2>5. ic.ref[i] = IF i = ROOTINO THEN Cardinality(Proc) + 1 ELSE 0
    BY ZenonT(30) DEF Init
  <2>6. QED
    BY <2>1, <2>2, <2>3, <2>4, <2>5, SMTT(30) DEF Count
<1>4. QED
  BY <1>1, <1>2, <1>3, ProcIsSome, ZenonT(30) DEF SysInv, Init

\* The locks, the transaction and the references of a process are those of the
\* point of the call it is at, in every state of any calls of any processes.
THEOREM SysInvariant == Spec => []SysInv
<1>1. SysInv /\ [Next]_vars => SysInv'
  BY SysNext, CountingHolds, Zenon DEF SysInv
<1>2. QED
  BY <1>1, SysInit, PTL DEF Spec

\* inode_get and inode_put balance: ip->ref is the number of references, on
\* every path through every call of kern/fs/sysfile.c.
THEOREM RefsCounted == Spec => []RefsExact
<1>1. SysInv => RefsExact
  BY ZenonT(30) DEF SysInv, RefsExact, Count, Cwds, Files, Locals, Slots
<1>2. QED
  BY <1>1, SysInvariant, PTL

\* Whichever way a call ends, it has unlocked what it locked, committed its
\* transaction and put its i-nodes.
THEOREM NothingKept == Spec => []IdleHoldsNothing
<1>1. ASSUME SysInv, NEW p \in Proc, th[p].pc = "idle"
      PROVE  /\ \A i \in Inum : ic.lock[i] # p
             /\ trans # p
             /\ th[p] = Idle
  <2> DEFINE t == th[p]
  <2>1. /\ t \in Thread /\ At(t) = "idle" /\ t.vic = None /\ t.kont = "none" /\ t.pc = "idle"
        /\ t.ip = None /\ t.dp = None /\ t.old = None /\ t.call = "none" /\ t.elems = <<>>
    BY <1>1, ProcFacts, SMTT(30) DEF WellFormed, HasIp, HasDp, HasOld
  <2>2. \A i \in Inum : ~Holds(t, i)
    BY <2>1, InumIsSome, Zenon DEF Holds, Locked
  <2>3. ~MayTrans(t)
    BY <2>1, Zenon DEF MayTrans, InTrans
  <2>4. t = Idle
    BY <2>1, Zenon DEF Thread, Idle
  <2>5. QED
    BY <1>1, <2>2, <2>3, <2>4, ProcFacts, ZenonT(30)
<1>2. SysInv => IdleHoldsNothing
  BY <1>1, ZenonT(30) DEF IdleHoldsNothing
<1>3. QED
  BY <1>2, SysInvariant, PTL
-----------------------------------------------------------------------------
(* Links.                                                                  *)

\* When the kernel starts, the root directory is the only i-node: it has a link
\* and no entries.
LEMMA LinkInit == Init => LinkInv
<1> SUFFICES ASSUME Init PROVE LinkInv
  BY Zenon
<1>1. IsAt(Idle, "idle", "none", <<>>, None, None, None) /\ At(Idle) = "idle"
  BY IdleAt, Zenon DEF IsAt, At
<1>2. \A p \in Proc : th[p] = Idle
  BY Zenon DEF Init
<1>3. ~HasOld(Idle) /\ At(Idle) # "unlinked"
  BY <1>1 DEF HasOld, IsAt
<1>4. ASSUME NEW i \in Inum
      PROVE  Names(i) = {} /\ Subs(i) = {} /\ Calls(i) = {}
  <2>1. \A d \in Inum, n \in Name : fs.ent[d][n] = None
    BY Zenon DEF Init
  <2>2. Names(i) = {} /\ Subs(i) = {}
    BY <2>1, InumIsSome, ZenonT(30) DEF Names, Subs
  <2>3. Calls(i) = {}
    BY <1>2, <1>3, Zenon DEF Calls, Counted
  <2>4. QED
    BY <2>2, <2>3, Zenon
<1>5. \A i \in Inum : fs.nlink[i] >= Links(i)
  <2>1. Cardinality({}) = 0
    BY FS_EmptySet, Zenon
  <2>2. \A i \in Inum : fs.nlink[i] \in {0, 1}
    BY Zenon DEF Init
  <2>3. QED
    BY <1>4, <2>1, <2>2, SMT DEF Links
<1>6. \A q \in Proc : th[q].pc # "free"
  BY <1>1, <1>2 DEF IsAt
<1>7. ASSUME NEW p \in Proc
      PROVE  FilesTyped(p) /\ Typed(th[p], fs)
  <2>1. FilesTyped(p)
    BY ROOTINOType, ZenonT(30) DEF FilesTyped, Init
  <2>2. Typed(Idle, fs)
    BY <1>1, <1>3 DEF Typed
  <2>3. QED
    BY <1>2, <2>1, <2>2, Zenon
<1>8. panic # "unlink:nlink<1"
  BY DEF Init
<1>9. QED
  BY <1>4, <1>5, <1>6, <1>7, <1>8, Zenon DEF LinkInv

\* Every name, subdirectory and unfinished call is counted in nlink, in every
\* state of any calls of any processes.
THEOREM LinkInvariant == Spec => []LinkInv
<1>1. Init => LinkInv
  BY LinkInit
<1>2. SysInv /\ SysInv' /\ LinkInv /\ [Next]_vars => LinkInv'
  BY LinkNext, LinkCountingHolds, Zenon
<1>3. QED
  BY <1>1, <1>2, SysInvariant, PTL DEF Spec

\* However unlinks, opens, links and closes race, inode_put frees an i-node only
\* when no entry leads to it, no descriptor is open on it and no process is in it.
THEOREM NamesStayAllocated == Spec => []NamesAllocated
<1>1. ASSUME SysInv, LinkInv
      PROVE  NamesAllocated
  <2>1. ASSUME NEW d \in Inum, NEW n \in Name, fs.type[d] = "dir", fs.ent[d][n] # None
        PROVE  fs.type[fs.ent[d][n]] # "free"
    <3>1. fs.ent[d][n] \in Inum
      BY <1>1, <2>1 DEF SysInv, Types, Inodes
    <3>2. <<d, n>> \in Names(fs.ent[d][n])
      BY <2>1, Zenon DEF Names
    <3>3. QED
      BY <1>1, <3>1, <3>2, Zenon DEF LinkInv
  <2>2. QED
    BY <1>1, <2>1, ZenonT(30) DEF NamesAllocated, LinkInv, FilesTyped, OpenFiles
<1>2. QED
  BY <1>1, SysInvariant, LinkInvariant, PTL

\* Neither assert of the calls fails: sys_unlink finds a link to discount, and
\* inode_put finds the i-node it frees unlocked.
THEOREM AssertionsNeverFail == Spec => []AssertionsHold
<1>1. SysInv /\ LinkInv => AssertionsHold
  BY Zenon DEF SysInv, LinkInv, AssertionsHold
<1>2. QED
  BY <1>1, SysInvariant, LinkInvariant, PTL

\* No call takes back a link that was not counted.
THEOREM LinksNonnegative == Spec => []TypeOK
<1>1. ASSUME SysInv, LinkInv
      PROVE  TypeOK
  <2>1. \A i \in Inum : fs.nlink[i] \in Int /\ Links(i) \in Nat /\ fs.nlink[i] >= Links(i)
    BY <1>1, LinksRecounted, ZenonT(30) DEF SysInv, Types, Inodes, LinkInv, LinkRecount
  <2>2. \A i \in Inum : fs.nlink[i] >= 0
    BY <2>1, SMT
  <2>3. QED
    BY <1>1, <2>2, Zenon DEF TypeOK, SysInv
<1>2. QED
  BY <1>1, SysInvariant, LinkInvariant, PTL
=============================================================================
